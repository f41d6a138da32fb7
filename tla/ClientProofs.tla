---------------------------- MODULE ClientProofs ----------------------------
(***************************************************************************)
(* Proofs about Client, for any clients, command lines, directories, sizes *)
(* of the socket and limits: every reachable state is well typed, requests *)
(* and answers stay in step, undefined behaviour has the known causes,     *)
(* what a client has opened stays open, and -w offers the files asked for. *)
(***************************************************************************)
EXTENDS Client, SequenceTheorems, FiniteSetTheorems, WellFoundedInduction, TLAPS

-----------------------------------------------------------------------------
(* Types *)

\* The requests that client c sends: those of the API, which never has O_CRLK.
Asked(c) == {r \in AnyRequest :
                /\ r.fd = c /\ r.op # "O_CRLK"
                /\ r.op \notin {"READN", "CLOSECONNECTION"} => r.path \in Paths}

Labels == {"option", "open", "opened", "used", "got", "walk", "ended"}
Programs == [cmd : Command, opts : Seq(Option), at : Labels, files : Seq(Paths),
             result2 : {-1, 0, 1}, buf : {"none", "held", "freed"},
             walk : Seq(Seq(Paths \cup DOMAIN Entries)), nvisit : Int,
             offered : Seq(Paths)]

Hand == /\ phase \in Phases
        /\ phase = "idle" => req = NoRequest
        /\ phase # "idle" => \E c \in Clients : req \in Asked(c)
        /\ answer \in Seq(Statuses) /\ victims \in Seq(Paths)
StoreTyped == store \in [Paths -> StoredFile] /\ Hand

SocketTyped == /\ outbox \in Seq(Items)
               /\ up \in {"off", "on", "gone"}
               /\ fault \in {"none", "garbled", "uninit", "freed", "wild"}
               /\ sent \in [Clients -> Seq(AnyRequest)]
               /\ sock \in [Clients -> Seq(Items)]
               /\ conn \in [Clients -> {"none", "up", "failed", "ended"}]
               /\ now \in [Clients -> 0 .. Deadline]
               /\ call \in [Clients -> Call]
               /\ cause \in [Clients -> {"none", "append", "buckets", "folder"}]
               /\ \A c \in Clients : /\ sent[c] \in Seq(Asked(c))
                                     /\ Len(sock[c]) <= SockSize
                                     /\ call[c].phase = "file" => call[c].left > 0

ProgTyped == prog \in [Clients -> Programs]

Idle == phase = "idle" => outbox = <<>>

Typed == StoreTyped /\ Idle /\ SocketTyped /\ ProgTyped

LEMMA TypedIsTypeOK == ASSUME Typed PROVE TypeOK
<1>1. req \in AnyRequest \cup {NoRequest}
  BY DEF Typed, StoreTyped, Hand, Asked
<1>2. \A c \in Clients : /\ prog[c].cmd \in Command /\ prog[c].files \in Seq(Paths)
                         /\ prog[c].at \in {"option", "open", "opened", "used", "got", "walk", "ended"}
  BY DEF Typed, ProgTyped, Programs, Labels
<1> QED BY <1>1, <1>2 DEF Typed, StoreTyped, Hand, SocketTyped, TypeOK

LEMMA InitTyped == ASSUME Init PROVE Typed
<1>1. StoreTyped /\ Idle
  BY DEF Init, ApiInit, StoreInit, StoreTyped, Hand, Idle, Absent, StoredFile, Phases
<1>2. SocketTyped
  BY ApiAssumption DEF Init, ApiInit, StoreInit, SocketTyped, NoCall, Call, Folders, AllOps
<1>3. ProgTyped
  <2>1. PICK s \in Scripts : prog = [c \in Clients |-> Program(s[c])]
    BY DEF Init
  <2>2. ASSUME NEW m \in Command PROVE Program(m) \in Programs
    BY <2>2 DEF Program, Programs, Command, Labels
  <2> QED BY <2>1, <2>2, ClientAssumption DEF ProgTyped
<1> QED BY <1>1, <1>2, <1>3 DEF Typed

-----------------------------------------------------------------------------
(* The programs: what a step between two calls does to the rest *)

Calls == AllOps \ {"O_CRLK"}

Sends(c) == \E op \in Calls, p \in Paths \cup {NONE}, n \in Nat, folder \in Folders :
               /\ op \notin {"READN", "CLOSECONNECTION"} => p \in Paths
               /\ Request(c, op, p, n, folder)
Leaves(c) == Exit(c) /\ UNCHANGED <<server, sent, now, cause, fault>>
Fails == /\ fault' \in {"freed", "wild"}
         /\ UNCHANGED <<server, sent, sock, conn, now, call, cause>>

CallStep(c) == \/ UNCHANGED apivars
               \/ Sends(c) \/ Refused(c) \/ Leaves(c) \/ Fails

LEMMA ApiCalls ==
    ASSUME NEW c \in Clients, NEW p \in Paths
    PROVE  /\ openFile(c, "O_OPEN", p) => CallStep(c)
           /\ openFile(c, "O_CREATE", p) => CallStep(c)
           /\ \A d \in Folders : writeFile(c, p, d) => CallStep(c)
           /\ appendToFile(c, p) => CallStep(c)
           /\ readFile(c, p) => CallStep(c)
           /\ lockFile(c, p) => CallStep(c)
           /\ unlockFile(c, p) => CallStep(c)
           /\ closeFile(c, p) => CallStep(c)
           /\ removeFile(c, p) => CallStep(c)
           /\ \A n \in Nat, d \in Folders : readNFiles(c, n, d) => CallStep(c)
           /\ closeConnection(c) => CallStep(c)
<1>1. ASSUME NEW op \in Calls, NEW n \in Nat, NEW d \in Folders, Request(c, op, p, n, d)
      PROVE  CallStep(c)
  BY <1>1 DEF CallStep, Sends
<1>2. ASSUME NEW op \in {"READN", "CLOSECONNECTION"}, NEW n \in Nat, NEW d \in Folders,
             Request(c, op, NONE, n, d)
      PROVE  CallStep(c)
  BY <1>2 DEF CallStep, Sends, Calls, AllOps
<1>3. /\ "none" \in Folders /\ Sizes \subseteq Nat /\ 0 \in Nat
      /\ \A op \in {"O_OPEN", "O_CREATE", "WRITE", "APPEND", "READ", "LOCKS", "UNLOCKS",
                    "CLOSE", "REMOVE"} : op \in Calls
  BY ApiAssumption DEF Folders, Calls, AllOps
<1>4. Refused(c) => CallStep(c)
  BY DEF CallStep
<1>5. ASSUME NEW flag \in {"O_OPEN", "O_CREATE"}, openFile(c, flag, p) PROVE CallStep(c)
  BY <1>1, <1>3, <1>4, <1>5 DEF openFile
<1>6. ASSUME NEW d \in Folders, writeFile(c, p, d) PROVE CallStep(c)
  BY <1>1, <1>3, <1>4, <1>6 DEF writeFile
<1>7. appendToFile(c, p) => CallStep(c)
  BY <1>1, <1>3 DEF appendToFile
<1>8. /\ readFile(c, p) => CallStep(c)
      /\ lockFile(c, p) => CallStep(c)
      /\ unlockFile(c, p) => CallStep(c)
      /\ closeFile(c, p) => CallStep(c)
      /\ removeFile(c, p) => CallStep(c)
  BY <1>1, <1>3 DEF readFile, lockFile, unlockFile, closeFile, removeFile
<1>9. /\ \A n \in Nat, d \in Folders : readNFiles(c, n, d) => CallStep(c)
      /\ closeConnection(c) => CallStep(c)
  BY <1>2, <1>3 DEF readNFiles, closeConnection
<1> QED BY <1>5, <1>6, <1>7, <1>8, <1>9

\* How a program moves on.
LEMMA ProgMoves ==
    ASSUME ProgTyped, NEW c \in Clients
    PROVE  /\ UNCHANGED prog => ProgTyped'
           /\ \A g \in Programs : Now(c, g) => ProgTyped'
           /\ \A at \in Labels : Goto(c, at) => ProgTyped'
           /\ prog[c].files # <<>> /\ NextFile(c) => ProgTyped'
           /\ prog[c].opts # <<>> /\ NextOption(c) => ProgTyped'
<1>1. \A g \in Programs : Now(c, g) => ProgTyped'
  BY DEF ProgTyped, Now
<1>2. prog[c] \in Programs
  BY DEF ProgTyped
<1>3. \A at \in Labels : Goto(c, at) => ProgTyped'
  BY <1>1, <1>2 DEF Goto, Programs
<1>4. prog[c].files # <<>> /\ NextFile(c) => ProgTyped'
  <2>1. prog[c].files # <<>> => Tail(prog[c].files) \in Seq(Paths)
    BY <1>2 DEF Programs
  <2> QED BY <1>1, <1>2, <2>1 DEF NextFile, Programs, Labels
<1>5. prog[c].opts # <<>> /\ NextOption(c) => ProgTyped'
  <2>1. prog[c].opts # <<>> => Tail(prog[c].opts) \in Seq(Option)
    BY <1>2 DEF Programs
  <2>2. <<>> \in Seq(Paths)
    OBVIOUS
  <2> QED BY <1>1, <1>2, <2>1, <2>2 DEF NextOption, Programs, Labels
<1> QED BY <1>1, <1>3, <1>4, <1>5 DEF ProgTyped

\* What the types say of client c in its program.
LEMMA InProgram ==
    ASSUME ProgTyped, NEW c \in Clients
    PROVE  /\ prog[c] \in Programs
           /\ prog[c].cmd.d \in Folders /\ prog[c].cmd.D \in Folders
           /\ prog[c].files # <<>> => name(c) \in Paths
           /\ prog[c].opts # <<>> => /\ Head(prog[c].opts).args \in Seq(Paths)
                                     /\ Head(prog[c].opts).dir \in DOMAIN Entries \cup {NONE}
                                     /\ Head(prog[c].opts).n \in Nat
<1>1. prog[c] \in Programs
  BY DEF ProgTyped
<1>2. prog[c].cmd \in Command /\ prog[c].files \in Seq(Paths) /\ prog[c].opts \in Seq(Option)
  BY <1>1 DEF Programs
<1>3. prog[c].files # <<>> => name(c) \in Paths
  BY <1>2 DEF name
<1>4. prog[c].opts # <<>> => Head(prog[c].opts) \in Option
  BY <1>2
<1> QED BY <1>1, <1>2, <1>3, <1>4 DEF Command, Option

\* A step of the program between two calls, and what it makes of the program.
ProgStep(c) == CallStep(c) /\ ProgTyped'

LEMMA Endings ==
    ASSUME ProgTyped, NEW c \in Clients
    PROVE  /\ GiveUp(c) => ProgStep(c)
           /\ ParseBreaks(c) => ProgStep(c)
           /\ EndFiles(c) => ProgStep(c)
           /\ CloseDown(c) => ProgStep(c)
           /\ Return(c) => ProgStep(c)
<1>1. UNCHANGED prog => ProgTyped'
  BY ProgMoves
<1>2. Stop(c) => ProgStep(c)
  BY <1>1 DEF Stop, ProgStep, CallStep, Leaves
<1>3. \A f \in {"freed", "wild"} : Breaks(f) => ProgStep(c)
  BY <1>1 DEF Breaks, ProgStep, CallStep, Fails
<1>4. GiveUp(c) => ProgStep(c)
  BY <1>2 DEF GiveUp
<1>5. ParseBreaks(c) => ProgStep(c)
  BY <1>3 DEF ParseBreaks
<1>6. EndFiles(c) => ProgStep(c)
  <2> SUFFICES ASSUME EndFiles(c) PROVE ProgStep(c)
    OBVIOUS
  <2>1. ProgTyped'
    BY ProgMoves DEF EndFiles, At, Labels
  <2> QED BY <2>1 DEF EndFiles, Quietly, ProgStep, CallStep
<1>7. CloseDown(c) => ProgStep(c)
  <2> SUFFICES ASSUME CloseDown(c) PROVE ProgStep(c)
    OBVIOUS
  <2>1. ProgTyped'
    BY ProgMoves DEF CloseDown, Labels
  <2>2. closeConnection(c)
    BY DEF CloseDown
  <2>3. CallStep(c)
    BY <2>2, "none" \in Folders, 0 \in Nat DEF closeConnection, CallStep, Sends, AllOps, Calls, Folders
  <2> QED BY <2>1, <2>3 DEF ProgStep
<1>8. Return(c) => ProgStep(c)
  BY <1>2 DEF Return
<1> QED BY <1>4, <1>5, <1>6, <1>7, <1>8

LEMMA Beginnings ==
    ASSUME ProgTyped, NEW c \in Clients
    PROVE  /\ BeginFiles(c) => ProgStep(c)
           /\ BeginAppend(c) => ProgStep(c)
           /\ BeginWalk(c) => ProgStep(c)
<1> DEFINE o == Head(prog[c].opts)
<1>0. /\ prog[c] \in Programs
      /\ prog[c].opts # <<>> => /\ o.args \in Seq(Paths)
                                /\ o.dir \in DOMAIN Entries \cup {NONE} /\ o.n \in Nat
  BY InProgram
<1>1. UNCHANGED prog => ProgTyped'
  BY ProgMoves
<1>2. BeginFiles(c) => ProgStep(c)
  <2> SUFFICES ASSUME BeginFiles(c) PROVE ProgStep(c)
    OBVIOUS
  <2>1. [prog[c] EXCEPT !.at = "open", !.files = o.args] \in Programs
    BY <1>0 DEF BeginFiles, At, Programs, Labels
  <2>2. ProgTyped'
    BY <2>1, ProgMoves DEF BeginFiles
  <2> QED BY <2>2 DEF BeginFiles, Quietly, ProgStep, CallStep
<1>3. BeginAppend(c) => ProgStep(c)
  <2> SUFFICES ASSUME BeginAppend(c) PROVE ProgStep(c)
    OBVIOUS
  <2>0. prog[c].opts # <<>>
    BY DEF BeginAppend, At
  <2>1. CASE Breaks("wild")
    BY <1>1, <2>1 DEF Breaks, ProgStep, CallStep, Fails
  <2>2. CASE NextOption(c) /\ Quietly
    BY <2>0, <2>2, ProgMoves DEF Quietly, ProgStep, CallStep
  <2>3. CASE /\ Len(o.args) = 2
             /\ Now(c, [prog[c] EXCEPT !.at = "open", !.files = <<o.args[1]>>])
             /\ Quietly
    <3>1. o.args[1] \in Paths
      BY <1>0, <2>0, <2>3
    <3>2. <<o.args[1]>> \in Seq(Paths)
      BY <3>1
    <3>3. [prog[c] EXCEPT !.at = "open", !.files = <<o.args[1]>>] \in Programs
      BY <1>0, <3>2 DEF Programs, Labels
    <3> QED BY <2>3, <3>3, ProgMoves DEF Quietly, ProgStep, CallStep
  <2> QED BY <2>1, <2>2, <2>3 DEF BeginAppend
<1>4. BeginWalk(c) => ProgStep(c)
  <2> SUFFICES ASSUME BeginWalk(c) PROVE ProgStep(c)
    OBVIOUS
  <2>0. prog[c].opts # <<>>
    BY DEF BeginWalk, At
  <2>1. CASE Stop(c)
    BY <1>1, <2>1 DEF Stop, ProgStep, CallStep, Leaves
  <2>2. CASE o.dir # NONE /\ ~Stop(c)
    <3>1. Entries[o.dir] \in Seq(Paths \cup DOMAIN Entries)
      BY <1>0, <2>0, <2>2, ClientAssumption
    <3>2. <<Entries[o.dir]>> \in Seq(Seq(Paths \cup DOMAIN Entries))
      BY <3>1
    <3>3. PICK n \in Int : n = IF o.n = 0 THEN -1 ELSE o.n
      BY <1>0, <2>0
    <3> DEFINE g == [prog[c] EXCEPT !.at = "walk", !.walk = <<Entries[o.dir]>>,
                                    !.nvisit = n, !.offered = <<>>]
    <3>4. g \in Programs
      <4>1. "walk" \in Labels /\ <<>> \in Seq(Paths)
        BY DEF Labels
      <4> QED BY <1>0, <3>2, <4>1 DEF Programs
    <3>5. ProgTyped'
      BY <2>2, <3>3, <3>4, ProgMoves DEF BeginWalk
    <3> QED BY <2>2, <3>5 DEF BeginWalk, Quietly, ProgStep, CallStep
  <2> QED BY <2>1, <2>2 DEF BeginWalk
<1> QED BY <1>2, <1>3, <1>4

LEMMA WalkStep ==
    ASSUME ProgTyped, NEW c \in Clients, visitaDir(c)
    PROVE  ProgStep(c)
<1> DEFINE w == prog[c].walk
           e == Head(Head(w))
           rest == <<Tail(Head(w))>> \o Tail(w)
           Dirs == Paths \cup DOMAIN Entries
<1>0. prog[c] \in Programs
  BY InProgram
<1>1. w \in Seq(Seq(Dirs)) /\ prog[c].opts # <<>>
  BY <1>0 DEF Programs, visitaDir, At
<1>2. CASE w = <<>> /\ NextOption(c) /\ Quietly
  BY <1>1, <1>2, ProgMoves DEF Quietly, ProgStep, CallStep
<1>3. CASE w # <<>> /\ Now(c, [prog[c] EXCEPT !.walk = Tail(w)]) /\ Quietly
  <2>1. Tail(w) \in Seq(Seq(Dirs))
    BY <1>1, <1>3
  <2>2. [prog[c] EXCEPT !.walk = Tail(w)] \in Programs
    BY <1>0, <2>1 DEF Programs
  <2> QED BY <1>3, <2>2, ProgMoves DEF Quietly, ProgStep, CallStep
<1>4. CASE /\ w # <<>> /\ Head(w) # <<>>
           /\ Now(c, IF e \notin DOMAIN Entries
                     THEN [prog[c] EXCEPT !.walk = rest, !.nvisit = @ - 1, !.files = <<e>>,
                                          !.at = "open", !.offered = Append(@, e)]
                     ELSE IF e \in Hidden THEN [prog[c] EXCEPT !.walk = rest]
                     ELSE [prog[c] EXCEPT !.walk = <<Entries[e]>> \o rest])
           /\ Quietly
  <2>1. Head(w) \in Seq(Dirs) /\ Tail(w) \in Seq(Seq(Dirs))
    BY <1>1, <1>4
  <2>2. e \in Dirs /\ Tail(Head(w)) \in Seq(Dirs)
    BY <1>4, <2>1
  <2>3. <<Tail(Head(w))>> \in Seq(Seq(Dirs))
    BY <2>2
  <2>4. rest \in Seq(Seq(Dirs))
    BY <2>1, <2>3
  <2> HIDE DEF rest, e, w, Dirs
  <2>5. CASE e \notin DOMAIN Entries
    <3>1. e \in Paths
      BY <2>2, <2>5 DEF Dirs
    <3>2. <<e>> \in Seq(Paths) /\ Append(prog[c].offered, e) \in Seq(Paths)
          /\ prog[c].nvisit - 1 \in Int
      BY <1>0, <3>1 DEF Programs
    <3>3. [prog[c] EXCEPT !.walk = rest, !.nvisit = @ - 1, !.files = <<e>>,
                          !.at = "open", !.offered = Append(@, e)] \in Programs
      BY <1>0, <2>4, <3>2 DEF Programs, Labels, Dirs
    <3> QED BY <1>4, <2>5, <3>3, ProgMoves DEF Quietly, ProgStep, CallStep
  <2>6. CASE e \in DOMAIN Entries /\ e \in Hidden
    <3>1. [prog[c] EXCEPT !.walk = rest] \in Programs
      BY <1>0, <2>4 DEF Programs, Dirs
    <3> QED BY <1>4, <2>6, <3>1, ProgMoves DEF Quietly, ProgStep, CallStep
  <2>7. CASE e \in DOMAIN Entries /\ e \notin Hidden
    <3>1. Entries[e] \in Seq(Dirs)
      BY <2>7, ClientAssumption DEF Dirs
    <3>2. <<Entries[e]>> \in Seq(Seq(Dirs))
      BY <3>1
    <3>3. <<Entries[e]>> \o rest \in Seq(Seq(Dirs))
      BY <2>4, <3>2
    <3>4. [prog[c] EXCEPT !.walk = <<Entries[e]>> \o rest] \in Programs
      BY <1>0, <3>3 DEF Programs, Dirs
    <3> QED BY <1>4, <2>7, <3>4, ProgMoves DEF Quietly, ProgStep, CallStep
  <2> QED BY <2>5, <2>6, <2>7
<1> QED BY <1>2, <1>3, <1>4 DEF visitaDir

\* The options that treat files one after the other.
LEMMA FileSteps ==
    ASSUME ProgTyped, NEW c \in Clients
    PROVE  /\ CreateWrite(c) => ProgStep(c)
           /\ append(c) => ProgStep(c)
           /\ LockFiles(c) => ProgStep(c)
           /\ RemoveFiles(c) => ProgStep(c)
           /\ letturaRandom(c) => ProgStep(c)
<1>1. /\ prog[c].cmd.D \in Folders /\ prog[c].cmd.d \in Folders
      /\ prog[c].files # <<>> => name(c) \in Paths
      /\ prog[c].opts # <<>> => Head(prog[c].opts).n \in Nat
  BY InProgram
<1>2. /\ \A at \in {"opened", "used"} : Goto(c, at) => ProgTyped'
      /\ prog[c].files # <<>> /\ NextFile(c) => ProgTyped'
      /\ prog[c].opts # <<>> /\ NextOption(c) => ProgTyped'
  BY ProgMoves DEF Labels
<1>3. Quietly => CallStep(c)
  BY DEF Quietly, CallStep
<1>4. ASSUME prog[c].files # <<>>
      PROVE  /\ openFile(c, "O_OPEN", name(c)) => CallStep(c)
             /\ openFile(c, "O_CREATE", name(c)) => CallStep(c)
             /\ writeFile(c, name(c), prog[c].cmd.D) => CallStep(c)
             /\ appendToFile(c, name(c)) => CallStep(c)
             /\ lockFile(c, name(c)) => CallStep(c)
             /\ unlockFile(c, name(c)) => CallStep(c)
             /\ closeFile(c, name(c)) => CallStep(c)
             /\ removeFile(c, name(c)) => CallStep(c)
  BY <1>1, <1>4, ApiCalls
<1>5. CreateWrite(c) => ProgStep(c)
  BY <1>2, <1>3, <1>4 DEF CreateWrite, AtFile, ProgStep
<1>6. append(c) => ProgStep(c)
  BY <1>2, <1>3, <1>4 DEF append, AtFile, ProgStep
<1>7. LockFiles(c) => ProgStep(c)
  BY <1>2, <1>3, <1>4 DEF LockFiles, AtFile, ProgStep
<1>8. RemoveFiles(c) => ProgStep(c)
  BY <1>2, <1>3, <1>4, InProgram DEF RemoveFiles, At, AtFile, ProgStep
<1>9. letturaRandom(c) => ProgStep(c)
  <2> SUFFICES ASSUME letturaRandom(c) PROVE ProgStep(c)
    OBVIOUS
  <2>1. prog[c].opts # <<>> /\ NextOption(c)
    BY DEF letturaRandom, At
  <2>2. CallStep(c)
    BY <1>1, <2>1 DEF letturaRandom, readNFiles, CallStep, Sends, Calls, AllOps
  <2> QED BY <1>2, <2>1, <2>2 DEF ProgStep
<1> QED BY <1>5, <1>6, <1>7, <1>8, <1>9

LEMMA ReadSteps ==
    ASSUME ProgTyped, NEW c \in Clients
    PROVE  /\ letturaFiles(c) => ProgStep(c)
           /\ saveFile(c) => ProgStep(c)
<1>1. prog[c] \in Programs /\ (prog[c].files # <<>> => name(c) \in Paths)
  BY InProgram
<1>2. /\ \A at \in {"opened", "used", "got"} : Goto(c, at) => ProgTyped'
      /\ prog[c].files # <<>> /\ NextFile(c) => ProgTyped'
      /\ prog[c].opts # <<>> /\ NextOption(c) => ProgTyped'
      /\ UNCHANGED prog => ProgTyped'
  BY ProgMoves DEF Labels
<1>3. Quietly => CallStep(c)
  BY DEF Quietly, CallStep
<1>4. ASSUME prog[c].files # <<>>
      PROVE  /\ openFile(c, "O_OPEN", name(c)) => CallStep(c)
             /\ readFile(c, name(c)) => CallStep(c)
             /\ closeFile(c, name(c)) => CallStep(c)
  BY <1>1, <1>4, ApiCalls
<1>5. prog[c].files # <<>> => Tail(prog[c].files) \in Seq(Paths)
  BY <1>1 DEF Programs
<1>6. /\ Now(c, [prog[c] EXCEPT !.at = "got", !.result2 = 1, !.buf = "held"]) => ProgTyped'
      /\ prog[c].files # <<>> =>
            (Now(c, [prog[c] EXCEPT !.at = "open", !.result2 = -1, !.files = Tail(@)]) => ProgTyped')
      /\ prog[c].files # <<>> =>
            (Now(c, [prog[c] EXCEPT !.at = "open", !.files = Tail(@), !.buf = "freed"]) => ProgTyped')
  <2>1. [prog[c] EXCEPT !.at = "got", !.result2 = 1, !.buf = "held"] \in Programs
    BY <1>1 DEF Programs, Labels
  <2>2. prog[c].files # <<>> =>
           [prog[c] EXCEPT !.at = "open", !.result2 = -1, !.files = Tail(@)] \in Programs
    BY <1>1, <1>5 DEF Programs, Labels
  <2>3. prog[c].files # <<>> =>
           [prog[c] EXCEPT !.at = "open", !.files = Tail(@), !.buf = "freed"] \in Programs
    BY <1>1, <1>5 DEF Programs, Labels
  <2> QED BY <2>1, <2>2, <2>3, ProgMoves
<1>7. letturaFiles(c) => ProgStep(c)
  BY <1>2, <1>3, <1>4, <1>6 DEF letturaFiles, AtFile, ProgStep
<1>8. saveFile(c) => ProgStep(c)
  <2> SUFFICES ASSUME saveFile(c) PROVE ProgStep(c)
    OBVIOUS
  <2>1. prog[c].files # <<>> /\ prog[c].opts # <<>>
    BY DEF saveFile, AtFile, At
  <2>2. Breaks("freed") => ProgStep(c)
    BY <1>2 DEF Breaks, ProgStep, CallStep, Fails
  <2> QED BY <1>2, <1>3, <1>4, <1>6, <2>1, <2>2 DEF saveFile, ProgStep
<1> QED BY <1>7, <1>8

LEMMA MainStep ==
    ASSUME ProgTyped, NEW c \in Clients, Main(c)
    PROVE  ProgStep(c) /\ Free(c)
<1>1. ProgStep(c)
  BY Endings, Beginnings, WalkStep, FileSteps, ReadSteps DEF Main
<1>2. Free(c)
  BY DEF Main, GiveUp, ParseBreaks, BeginFiles, BeginAppend, BeginWalk, visitaDir, EndFiles,
         CreateWrite, letturaFiles, saveFile, append, LockFiles, RemoveFiles, letturaRandom,
         CloseDown, Return, AtFile, At
<1> QED BY <1>1, <1>2

-----------------------------------------------------------------------------
(* Types: the clients' side *)

LEMMA ServerSame ==
    ASSUME StoreTyped, Idle, UNCHANGED server PROVE StoreTyped' /\ Idle'
BY DEF StoreTyped, Hand, Idle, server, svars

LEMMA CallTyped ==
    ASSUME StoreTyped, SocketTyped, NEW c \in Clients, CallStep(c)
    PROVE  SocketTyped'
<1>1. CASE UNCHANGED apivars
  BY <1>1 DEF apivars, svars, SocketTyped
<1>2. CASE Sends(c)
  <2>1. PICK op \in Calls, p \in Paths \cup {NONE}, n \in Nat, folder \in Folders :
           /\ op \notin {"READN", "CLOSECONNECTION"} => p \in Paths
           /\ Request(c, op, p, n, folder)
    BY <1>2 DEF Sends
  <2> DEFINE r == [op |-> op, path |-> p, size |-> n, fd |-> c]
             k == [NoCall EXCEPT !.op = op, !.phase = "status", !.folder = folder]
  <2>2. r \in Asked(c)
    BY <2>1 DEF Asked, AnyRequest, Calls
  <2>3. r \in AnyRequest
    BY <2>2 DEF Asked
  <2>4. k \in Call /\ k.phase = "status"
    BY <2>1 DEF Call, NoCall, Calls
  <2> HIDE DEF r, k
  <2>5. CASE /\ sent' = [sent EXCEPT ![c] = Append(@, r)]
             /\ call' = [call EXCEPT ![c] = k]
             /\ UNCHANGED <<sock, conn, fault, server, now, cause>>
    <3>1. sent[c] \in Seq(AnyRequest) /\ sent[c] \in Seq(Asked(c))
      BY DEF SocketTyped
    <3>2. Append(sent[c], r) \in Seq(AnyRequest) /\ Append(sent[c], r) \in Seq(Asked(c))
      BY <2>2, <2>3, <3>1
    <3>3. sent' \in [Clients -> Seq(AnyRequest)]
          /\ \A d \in Clients : sent'[d] \in Seq(Asked(d))
      BY <2>5, <3>2 DEF SocketTyped
    <3> QED BY <2>4, <2>5, <3>3 DEF SocketTyped, server
  <2>6. CASE Exit(c) /\ UNCHANGED <<sent, fault, server, now, cause>>
    <3>1. NoCall \in Call /\ NoCall.phase # "file"
      BY DEF NoCall, Call, Folders
    <3>2. <<>> \in Seq(Items) /\ Len(<<>>) = 0
      OBVIOUS
    <3> QED BY <2>6, <3>1, <3>2, ApiAssumption DEF SocketTyped, Exit, server
  <2>7. CASE fault' = "uninit" /\ UNCHANGED <<sent, sock, conn, call, server, now, cause>>
    BY <2>7 DEF SocketTyped, server
  <2> QED BY <2>1, <2>5, <2>6, <2>7 DEF Request, r, k
<1>3. CASE Refused(c)
  <2>1. [NoCall EXCEPT !.ret = -1] \in Call /\ [NoCall EXCEPT !.ret = -1].phase # "file"
    BY DEF NoCall, Call, Folders
  <2> QED BY <1>3, <2>1 DEF Refused, SocketTyped, server
<1>4. CASE Leaves(c)
  <2>1. NoCall \in Call /\ NoCall.phase # "file"
    BY DEF NoCall, Call, Folders
  <2>2. <<>> \in Seq(Items) /\ Len(<<>>) = 0
    OBVIOUS
  <2> QED BY <1>4, <2>1, <2>2, ApiAssumption DEF SocketTyped, Leaves, Exit, server
<1>5. CASE Fails
  BY <1>5 DEF Fails, SocketTyped, server
<1> QED BY <1>1, <1>2, <1>3, <1>4, <1>5 DEF CallStep

LEMMA CallServer ==
    ASSUME NEW c \in Clients, CallStep(c) PROVE UNCHANGED server
BY DEF CallStep, Sends, Request, Refused, Leaves, Fails, apivars, server

LEMMA ConnectTyped ==
    ASSUME SocketTyped, NEW c \in Clients, openConnection(c)
    PROVE  SocketTyped'
<1>1. now[c] < Deadline => now[c] + 1 \in 0 .. Deadline
  BY ApiAssumption DEF SocketTyped
<1> QED BY <1>1 DEF SocketTyped, openConnection, server

\* A read that consumes the first item of the socket.
LEMMA ConsumedTyped ==
    ASSUME SocketTyped, NEW c \in Clients, sock[c] # <<>>, Consumed(c), UNCHANGED conn,
           NEW k \in Call, k.phase = "file" => k.left > 0,
           call' = [call EXCEPT ![c] = k],
           NEW f \in {"none", "append", "buckets", "folder"}, cause' = [cause EXCEPT ![c] = f]
    PROVE  SocketTyped'
<1>1. sock[c] \in Seq(Items) /\ Len(sock[c]) <= SockSize
  BY DEF SocketTyped
<1>2. Tail(sock[c]) \in Seq(Items) /\ Len(Tail(sock[c])) <= SockSize
  BY <1>1, ApiAssumption
<1>3. /\ sock' \in [Clients -> Seq(Items)]
      /\ \A d \in Clients : Len(sock'[d]) <= SockSize
  BY <1>2 DEF SocketTyped, Consumed
<1>4. call' \in [Clients -> Call] /\ \A d \in Clients : call'[d].phase = "file" => call'[d].left > 0
  BY DEF SocketTyped
<1> QED BY <1>3, <1>4 DEF SocketTyped, Consumed, server

LEMMA ReadsTyped ==
    ASSUME SocketTyped, NEW c \in Clients, Reads(c)
    PROVE  SocketTyped'
<1> DEFINE i == Head(sock[c])
<1>0. /\ call[c] \in Call
      /\ sock[c] # <<>> => i \in Items
      /\ cause[c] \in {"none", "append", "buckets", "folder"}
      /\ cause = [cause EXCEPT ![c] = cause[c]]
  BY DEF SocketTyped
<1>1. ASSUME NEW ph \in {"none", "number", "file", "body"}, NEW left \in Nat, NEW ret \in {-1, 0, 1},
             NEW n \in Nat, ph = "file" => left > 0, Goes(c, ph, left, ret, n),
             sock[c] # <<>>, Consumed(c), UNCHANGED conn,
             NEW f \in {"none", "append", "buckets", "folder"}, cause' = [cause EXCEPT ![c] = f]
      PROVE  SocketTyped'
  <2> DEFINE k == [call[c] EXCEPT !.phase = ph, !.left = left, !.ret = ret, !.size = n]
  <2>1. k \in Call /\ (k.phase = "file" => k.left > 0)
    BY <1>0, <1>1 DEF Call
  <2>2. call' = [call EXCEPT ![c] = k]
    BY <1>1 DEF Goes, SocketTyped
  <2> HIDE DEF k
  <2> QED BY <1>1, <2>1, <2>2, ConsumedTyped
<1>2. CASE readStatus(c)
  <2>1. \A op, s : /\ Follows(op, s) \in {"none", "number", "file", "body"}
                   /\ Returns(op, s) \in {-1, 0, 1}
    BY DEF Follows, Returns
  <2>2. sock[c] # <<>> /\ Consumed(c) /\ UNCHANGED <<conn, cause>>
    BY <1>2 DEF readStatus, Reading
  <2>3. CASE Goes(c, Follows(call[c].op, i.val),
                  IF Follows(call[c].op, i.val) = "file" THEN 1 ELSE 0,
                  Returns(call[c].op, i.val), 0)
    BY <1>0, <1>1, <2>1, <2>2, <2>3
  <2>4. CASE Goes(c, "none", 0, -1, 0)
    BY <1>0, <1>1, <2>2, <2>4
  <2> QED BY <1>2, <2>3, <2>4 DEF readStatus
<1>3. CASE readNumber(c)
  <2>1. sock[c] # <<>> /\ i.kind = "number" /\ Consumed(c) /\ UNCHANGED <<conn, cause>>
    BY <1>3 DEF readNumber, Reading
  <2>2. i.val \in Nat /\ call[c].ret \in {-1, 0, 1}
    BY <1>0, <2>1 DEF Items, Call
  <2> QED BY <1>0, <1>1, <1>3, <2>1, <2>2 DEF readNumber
<1>4. CASE readAFile(c)
  <2>1. sock[c] # <<>> /\ call[c].phase = "file" /\ call[c].left > 0
    BY <1>4 DEF readAFile, Reading, SocketTyped
  <2>2. call[c].left \in Nat /\ call[c].ret \in {-1, 0, 1}
    BY <1>0 DEF Call
  <2>3. PICK m \in Nat : m = call[c].left - 1
    BY <2>1, <2>2
  <2> DEFINE ph == IF m = 0 THEN "none" ELSE "file"
  <2>4. ph \in {"none", "number", "file", "body"} /\ (ph = "file" => m > 0)
    <3>1. m = 0 \/ m > 0
      OBVIOUS
    <3>2. ph = "none" \/ (ph = "file" /\ m > 0)
      BY <3>1
    <3> HIDE DEF ph
    <3> QED BY <3>2
  <2>6. CASE /\ Goes(c, ph, m, call[c].ret, 0)
             /\ UNCHANGED cause /\ UNCHANGED conn /\ Consumed(c)
    <3> HIDE DEF ph
    <3>1. cause' = [cause EXCEPT ![c] = cause[c]]
      BY <1>0, <2>6
    <3> QED BY <1>0, <1>1, <2>1, <2>2, <2>3, <2>4, <2>6, <3>1
  <2>7. CASE /\ Goes(c, "none", 0, -1, 0)
             /\ cause' = [cause EXCEPT ![c] = IF m > 0 THEN "folder" ELSE @]
             /\ UNCHANGED conn /\ Consumed(c)
    <3>1. (IF m > 0 THEN "folder" ELSE cause[c]) \in {"none", "append", "buckets", "folder"}
      BY <1>0
    <3>2. Goes(c, "none", 0, -1, 0) /\ UNCHANGED conn /\ Consumed(c)
      BY <2>7
    <3>3. cause' = [cause EXCEPT ![c] = IF m > 0 THEN "folder" ELSE cause[c]]
      BY <2>7
    <3> QED BY <1>1, <2>1, <3>1, <3>2, <3>3
  <2>5. CASE Exit(c) /\ UNCHANGED <<server, sent, now, cause, fault>>
    <3>1. NoCall \in Call /\ NoCall.phase # "file"
      BY DEF NoCall, Call, Folders
    <3>2. <<>> \in Seq(Items) /\ Len(<<>>) = 0
      OBVIOUS
    <3> QED BY <2>5, <3>1, <3>2, ApiAssumption DEF SocketTyped, Exit, server
  <2> QED BY <1>4, <2>3, <2>5, <2>6, <2>7 DEF readAFile
<1>5. CASE readBody(c)
  <2>1. sock[c] # <<>> /\ i.kind = "body" /\ Consumed(c) /\ UNCHANGED <<conn, cause>>
    BY <1>5 DEF readBody, Reading
  <2>2. i.val \in Nat /\ call[c].ret \in {-1, 0, 1}
    BY <1>0, <2>1 DEF Items, Call
  <2> QED BY <1>0, <1>1, <1>5, <2>1, <2>2 DEF readBody
<1>6. CASE Garbled(c) \/ EndOfFile(c)
  BY <1>6 DEF Garbled, EndOfFile, SocketTyped, server
<1> QED BY <1>2, <1>3, <1>4, <1>5, <1>6 DEF Reads

-----------------------------------------------------------------------------
(* Types: the server's side *)

\* A step of the server leaves the store and the request in hand well typed.
LEMMA StepTyped ==
    ASSUME StoreTyped, Step
    PROVE  StoreTyped' /\ phase # "idle"
<1>0. phase # "idle"
  BY DEF Step, Create, Expel, Missing, Open, OpenLocked, LockFile, UnlockFile, CloseFile, Read,
         Write, Count, Evict, Evicted, AppendBegin, AppendEnd, RemoveFile, Removed, ReadN,
         CloseConnection, Release, Finish, Serving
<1>1. PICK c \in Clients : req \in Asked(c)
  BY <1>0 DEF StoreTyped, Hand
<1>2. /\ req.op \in AllOps /\ req.fd \in Clients /\ req.size \in Nat
      /\ req.op \notin {"READN", "CLOSECONNECTION"} => req.path \in Paths
  BY <1>1 DEF Asked, AnyRequest
<1>3. \A s \in Statuses, next \in Phases \ {"idle"} : Reply(s, next) => Hand'
  <2> SUFFICES ASSUME NEW s \in Statuses, NEW next \in Phases \ {"idle"}, Reply(s, next)
               PROVE  Hand'
    OBVIOUS
  <2>1. Append(answer, s) \in Seq(Statuses)
    BY DEF StoreTyped, Hand
  <2> QED BY <1>0, <2>1 DEF StoreTyped, Hand, Reply, Asked
<1>4. \A next \in Phases \ {"idle"} : Silently(next) => Hand'
  BY <1>0 DEF StoreTyped, Hand, Silently, Asked
<1>5. ASSUME Ready PROVE Hand'
  <2>1. <<>> \in Seq(Statuses)
    OBVIOUS
  <2> QED BY <1>5, <2>1 DEF StoreTyped, Hand, Ready, Phases
<1>6. /\ Unchanged => store' \in [Paths -> StoredFile]
      /\ \A p \in Paths, g \in StoredFile :
            store' = [store EXCEPT ![p] = g] => store' \in [Paths -> StoredFile]
  BY DEF StoreTyped, Unchanged
<1>7. \A g \in StoredFile :
         req.path \in Paths /\ Becomes(g) => store' \in [Paths -> StoredFile]
  BY <1>6 DEF Becomes
<1>8. Absent \in StoredFile
  BY DEF Absent, StoredFile
<1>9. req.path \in stored => req.path \in Paths /\ file \in StoredFile
  BY DEF stored, file, StoreTyped
<1>10. \A f \in StoredFile :
          /\ [f EXCEPT !.isopen = 1] \in StoredFile
          /\ [f EXCEPT !.isopen = 0] \in StoredFile
          /\ [f EXCEPT !.lock = 0] \in StoredFile
          /\ [f EXCEPT !.lock = 1, !.fd = req.fd] \in StoredFile
          /\ [f EXCEPT !.isopen = 1, !.lock = 1, !.fd = req.fd] \in StoredFile
          /\ [f EXCEPT !.dim = req.size, !.written = TRUE] \in StoredFile
          /\ [f EXCEPT !.dim = @ + req.size, !.written = TRUE] \in StoredFile
  <2>1. ASSUME NEW f \in StoredFile
        PROVE  /\ [f EXCEPT !.isopen = 1] \in StoredFile
               /\ [f EXCEPT !.isopen = 0] \in StoredFile
               /\ [f EXCEPT !.lock = 0] \in StoredFile
               /\ [f EXCEPT !.lock = 1, !.fd = req.fd] \in StoredFile
               /\ [f EXCEPT !.isopen = 1, !.lock = 1, !.fd = req.fd] \in StoredFile
    BY <1>2 DEF StoredFile
  <2>2. ASSUME NEW f \in StoredFile, NEW d \in Nat
        PROVE  [f EXCEPT !.dim = d, !.written = TRUE] \in StoredFile
    BY Zenon DEF StoredFile
  <2>3. \A f \in StoredFile : f.dim + req.size \in Nat
    BY <1>2 DEF StoredFile
  <2> QED BY <1>2, <2>1, <2>2, <2>3
<1>11. /\ \A s \in {"SUCCESS", "YESCONTAIN", "NOTPRESENT", "NOTOPEN", "NOTPERMISSION",
                     "NOTLOCKED", "TOMUCHFILE", "SERVERFULL", "EMPTY"} : s \in Statuses
       /\ \A n \in {"begun", "expel", "written", "full", "evict", "append", "removed",
                     "closing", "done"} : n \in Phases \ {"idle"}
  BY DEF Statuses, Phases
<1>12. Create => StoreTyped'
  <2> SUFFICES ASSUME Create PROVE StoreTyped'
    OBVIOUS
  <2>1. req.path \in Paths
    BY <1>2 DEF Create
  <2>2. [isopen |-> 1, lock |-> IF req.op = "O_CRLK" THEN 1 ELSE 0,
         fd |-> req.fd, dim |-> 0, written |-> FALSE] \in StoredFile
    BY <1>2 DEF StoredFile
  <2> QED BY <1>3, <1>4, <1>6, <1>7, <1>11, <2>1, <2>2 DEF Create, StoreTyped
<1>13. ASSUME NEW p \in Paths, Expel(p) PROVE StoreTyped'
  BY <1>3, <1>6, <1>8, <1>11, <1>13 DEF Expel, StoreTyped
<1>14. Missing => StoreTyped'
  BY <1>3, <1>6, <1>11 DEF Missing, StoreTyped
<1>15. /\ Open => StoreTyped'
       /\ OpenLocked => StoreTyped'
       /\ CloseFile => StoreTyped'
  BY <1>3, <1>7, <1>9, <1>10, <1>11 DEF Open, OpenLocked, CloseFile, Serving, StoreTyped
<1>16. LockFile => StoreTyped'
  BY <1>3, <1>4, <1>6, <1>7, <1>9, <1>10, <1>11 DEF LockFile, Serving, StoreTyped
<1>17. UnlockFile => StoreTyped'
  BY <1>3, <1>6, <1>7, <1>9, <1>10, <1>11 DEF UnlockFile, Serving, StoreTyped
<1>18. Read => StoreTyped'
  BY <1>3, <1>6, <1>11 DEF Read, StoreTyped
<1>19. Write => StoreTyped'
  BY <1>3, <1>4, <1>6, <1>7, <1>9, <1>10, <1>11 DEF Write, Serving, StoreTyped
<1>20. /\ Count => StoreTyped'
       /\ AppendBegin => StoreTyped'
       /\ Removed => StoreTyped'
       /\ ReadN => StoreTyped'
       /\ CloseConnection => StoreTyped'
       /\ Evicted => StoreTyped'
  BY <1>3, <1>4, <1>6, <1>11 DEF Count, AppendBegin, Removed, ReadN, CloseConnection, Evicted,
                                StoreTyped
<1>21. ASSUME Evict PROVE StoreTyped'
  <2>1. victims \in Seq(Paths) /\ victims # <<>>
    BY <1>21 DEF StoreTyped, Hand, Evict
  <2>2. Head(victims) \in Paths /\ Tail(victims) \in Seq(Paths)
    BY <2>1
  <2>3. Hand'
    BY <1>0, <1>21, <2>2 DEF Evict, StoreTyped, Hand, Asked
  <2> QED BY <1>6, <1>8, <1>21, <2>2, <2>3 DEF Evict, StoreTyped
<1>22. AppendEnd => StoreTyped'
  BY <1>3, <1>6, <1>7, <1>9, <1>10, <1>11 DEF AppendEnd, StoreTyped
<1>23. RemoveFile => StoreTyped'
  BY <1>3, <1>4, <1>6, <1>7, <1>8, <1>9, <1>11 DEF RemoveFile, Serving, StoreTyped
<1>24. ASSUME NEW p \in Paths, Release(p) PROVE StoreTyped'
  <2>1. store' = [store EXCEPT ![p] = [store[p] EXCEPT !.lock = 0]]
    BY <1>24 DEF Release, StoreTyped
  <2>2. store[p] \in StoredFile
    BY DEF StoreTyped
  <2>3. store' \in [Paths -> StoredFile]
    BY <1>6, <1>10, <2>1, <2>2
  <2>4. Hand'
    BY <1>24 DEF Release, StoreTyped, Hand, Asked
  <2> QED BY <2>3, <2>4 DEF StoreTyped
<1>25. Finish => StoreTyped'
  <2>1. Finish => Ready
    BY DEF Finish
  <2>2. Ready => Unchanged
    BY DEF Ready, Unchanged
  <2> QED BY <1>5, <1>6, <2>1, <2>2 DEF StoreTyped
<1> QED BY <1>0, <1>12, <1>13, <1>14, <1>15, <1>16, <1>17, <1>18, <1>19, <1>20, <1>21, <1>22,
           <1>23, <1>24, <1>25 DEF Step

\* The files of a download can be numbered.
LEMMA Listed ==
    ASSUME NEW S \in SUBSET stored
    PROVE  /\ Cardinality(S) \in Nat
           /\ SetToSeq(S) \in [1 .. Cardinality(S) -> S]
<1>1. stored \subseteq Paths
  BY DEF stored
<1>2. IsFiniteSet(S)
  BY <1>1, StoreAssumption, FS_Subset
<1>3. Cardinality(S) \in Nat /\ ExistsBijection(1 .. Cardinality(S), S)
  BY <1>2, FS_CardinalityType
<1>4. \E f \in [1 .. Cardinality(S) -> S] : IsInjective(f)
  <2>1. PICK f \in Bijection(1 .. Cardinality(S), S) : TRUE
    BY <1>3 DEF ExistsBijection
  <2>2. f \in [1 .. Cardinality(S) -> S] /\ IsInjective(f)
    BY <2>1 DEF Bijection, Injection, IsInjective
  <2> QED BY <2>2
<1> QED BY <1>3, <1>4 DEF SetToSeq

LEMMA SendingTyped ==
    ASSUME req.op \in AllOps, NEW kind \in {"file", "body"}, NEW g \in StoredFile,
           NEW torn \in BOOLEAN
    PROVE  Sending(kind, g, torn) \in Items
<1>1. g.dim \in Nat /\ 0 \in Nat /\ 1 \in Nat
  BY DEF StoredFile
<1>2. \A k \in {"number", "file", "body", "torn"}, n \in Nat : Item(k, n) \in Items
  BY DEF Item, Items
<1>3. \/ Sending(kind, g, torn) = Item(kind, g.dim)
      \/ Sending(kind, g, torn) = Item("torn", 1)
      \/ Sending(kind, g, torn) = Item(kind, 0)
  BY Zenon DEF Sending
<1> QED BY <1>1, <1>2, <1>3

LEMMA AnnouncedNat == ASSUME req.size \in Nat PROVE Announced \in Nat
<1>1. Cardinality(stored) \in Nat
  BY Listed
<1> QED BY <1>1 DEF Announced

LEMMA DownloadTyped ==
    ASSUME StoreTyped, req.op \in AllOps, req.size \in Nat,
           NEW S \in SUBSET stored, NEW torn \in BOOLEAN
    PROVE  /\ Download(S, torn) \in Seq(Items)
           /\ Len(Download(S, torn)) = 1 + Cardinality(S)
           /\ Head(Download(S, torn)) = Item("number", Announced)
           /\ Tail(Download(S, torn)) \in Seq(Items)
           /\ Len(Tail(Download(S, torn))) = Cardinality(S)
           /\ \A i \in 1 .. Cardinality(S) : \E g \in StoredFile :
                 Tail(Download(S, torn))[i] = Sending("file", g, torn)
<1> DEFINE n == Cardinality(S)
           files == [i \in 1 .. n |-> Sending("file", store[SetToSeq(S)[i]], torn)]
<1>1. n \in Nat /\ SetToSeq(S) \in [1 .. n -> S]
  BY Listed
<1>2. \A i \in 1 .. n : store[SetToSeq(S)[i]] \in StoredFile
  BY <1>1 DEF stored, StoreTyped
<1>3. \A i \in 1 .. n : Sending("file", store[SetToSeq(S)[i]], torn) \in Items
  BY <1>2, SendingTyped
<1> HIDE DEF n
<1>4. files \in Seq(Items) /\ Len(files) = n
  BY <1>1, <1>3
<1>5. Item("number", Announced) \in Items
  BY AnnouncedNat DEF Item, Items
<1>6. \A i \in 1 .. n : \E g \in StoredFile : files[i] = Sending("file", g, torn)
  BY <1>2
<1>7. Download(S, torn) = <<Item("number", Announced)>> \o files
  BY DEF Download, n
<1> HIDE DEF files
<1>8. /\ <<Item("number", Announced)>> \o files \in Seq(Items)
      /\ Len(<<Item("number", Announced)>> \o files) = 1 + n
      /\ Head(<<Item("number", Announced)>> \o files) = Item("number", Announced)
      /\ Tail(<<Item("number", Announced)>> \o files) = files
  BY <1>1, <1>4, <1>5
<1> QED BY <1>4, <1>6, <1>7, <1>8 DEF n

\* What a step of the server sends.
LEMMA ContentTyped ==
    ASSUME StoreTyped, Step, NEW S \in BucketsSent, NEW torn \in BOOLEAN
    PROVE  NewStatus \in Seq(Items) /\ Content(S, torn) \in Seq(Items)
<1>1. StoreTyped' /\ phase # "idle"
  BY StepTyped
<1>2. PICK c \in Clients : req \in Asked(c)
  BY <1>1 DEF StoreTyped, Hand
<1>3. /\ req.op \in AllOps /\ req.fd \in Clients /\ req.size \in Nat
      /\ req.op \notin {"READN", "CLOSECONNECTION"} => req.path \in Paths
  BY <1>2 DEF Asked, AnyRequest
<1>4. NewStatus \in Seq(Items)
  <2>1. answer \in Seq(Statuses) /\ answer' \in Seq(Statuses)
    BY <1>1 DEF StoreTyped, Hand
  <2>2. ASSUME Len(answer') > Len(answer) PROVE answer'[Len(answer')] \in Statuses
    BY <2>1, <2>2
  <2>3. \A s \in Statuses : Status(s) \in Items
    BY <1>3 DEF Status, Items
  <2>4. <<>> \in Seq(Items) /\ \A i \in Items : <<i>> \in Seq(Items)
    OBVIOUS
  <2> QED BY <2>2, <2>3, <2>4 DEF NewStatus
<1>5. Content(S, torn) \in Seq(Items)
  <2>1. <<>> \in Seq(Items) /\ \A i \in Items : <<i>> \in Seq(Items)
    OBVIOUS
  <2>2. \A g \in StoredFile, kind \in {"file", "body"} : <<Sending(kind, g, torn)>> \in Seq(Items)
    BY <1>3, <2>1, SendingTyped
  <2>3. FromFifo \in Items
    BY <1>3 DEF FromFifo, Item, Items
  <2>4. CASE phase = "expel" \/ (phase = "evict" /\ victims # <<>>)
    BY <2>1, <2>3, <2>4 DEF Content
  <2>5. CASE phase = "begun" /\ req.op = "READ" /\ answer' = <<"SUCCESS">>
    <3>1. file \in StoredFile
      BY <1>3, <2>5 DEF file, StoreTyped
    <3> QED BY <2>2, <2>5, <3>1 DEF Content
  <2>6. CASE phase = "begun" /\ req.op = "READN" /\ answer' = <<"SUCCESS">>
    <3>1. S \in SUBSET stored
      BY DEF BucketsSent
    <3>2. Download(S, torn) \in Seq(Items)
      BY <1>3, <3>1, DownloadTyped
    <3> QED BY <2>6, <3>2 DEF Content
  <2>7. CASE /\ phase # "expel" /\ ~(phase = "evict" /\ victims # <<>>)
             /\ ~(phase = "begun" /\ req.op = "READ" /\ answer' = <<"SUCCESS">>)
             /\ ~(phase = "begun" /\ req.op = "READN" /\ answer' = <<"SUCCESS">>)
    BY <2>1, <2>7 DEF Content
  <2> QED BY <2>4, <2>5, <2>6, <2>7
<1> QED BY <1>4, <1>5

LEMMA ToIdle ==
    ASSUME Step, phase' = "idle"
    PROVE  phase \in {"done", "closing"} /\ Ready
<1>1. CASE Finish
  BY <1>1 DEF Finish
<1>2. CASE ~Finish
  BY <1>2 DEF Step, Create, Expel, Missing, Open, OpenLocked, LockFile, UnlockFile, CloseFile,
       Read, Write, Count, Evict, Evicted, AppendBegin, AppendEnd, RemoveFile, Removed, ReadN,
       CloseConnection, Release, Serving, Reply, Silently
<1> QED BY <1>1, <1>2

LEMMA ServeTyped ==
    ASSUME StoreTyped, SocketTyped, Serve
    PROVE  StoreTyped' /\ Idle' /\ SocketTyped'
<1>0. Step
  BY DEF Serve
<1>1. StoreTyped' /\ phase # "idle"
  BY <1>0, StepTyped
<1>2. PICK c \in Clients : req \in Asked(c)
  BY <1>1 DEF StoreTyped, Hand
<1>3. req.fd = c /\ req \in AnyRequest
  BY <1>2 DEF Asked
<1>4. PICK S \in BucketsSent, torn \in BOOLEAN :
         /\ outbox' = NewStatus \o Content(S, torn)
         /\ cause' = IF req.fd = NONE THEN cause
                     ELSE [cause EXCEPT ![req.fd] = Unread(NewStatus \o Content(S, torn))]
  BY DEF Serve
<1>5. NewStatus \in Seq(Items) /\ Content(S, torn) \in Seq(Items)
  BY <1>0, ContentTyped
<1>6. outbox' \in Seq(Items)
  BY <1>4, <1>5
<1>7. cause' \in [Clients -> {"none", "append", "buckets", "folder"}]
  <2>1. cause[c] \in {"none", "append", "buckets", "folder"}
    BY DEF SocketTyped
  <2>2. \A items : Unread(items) \in {"none", "append", "buckets", "folder"}
    BY <1>3, <2>1 DEF Unread
  <2> QED BY <1>3, <1>4, <2>2, StoreAssumption DEF SocketTyped
<1>8. /\ sent' \in [Clients -> Seq(AnyRequest)]
      /\ \A d \in Clients : sent'[d] \in Seq(Asked(d))
  <2>1. CASE sent' = sent
    BY <2>1 DEF SocketTyped
  <2>2. CASE sent' = [sent EXCEPT ![c] = <<req>> \o @]
    <3>1. sent[c] \in Seq(AnyRequest) /\ sent[c] \in Seq(Asked(c))
      BY DEF SocketTyped
    <3>2. <<req>> \in Seq(AnyRequest) /\ <<req>> \in Seq(Asked(c))
      BY <1>2, <1>3
    <3>3. <<req>> \o sent[c] \in Seq(AnyRequest) /\ <<req>> \o sent[c] \in Seq(Asked(c))
      BY <3>1, <3>2
    <3> QED BY <2>2, <3>3 DEF SocketTyped
  <2> QED BY <1>3, <2>1, <2>2 DEF Serve
<1>9. SocketTyped'
  BY <1>6, <1>7, <1>8 DEF SocketTyped, Serve
<1>10. Idle'
  <2> SUFFICES ASSUME phase' = "idle" PROVE outbox' = <<>>
    BY DEF Idle
  <2>1. phase \in {"done", "closing"} /\ Ready
    BY <1>0, ToIdle
  <2>2. answer' = <<>> /\ Len(answer) \in Nat
    BY <2>1 DEF Ready, StoreTyped, Hand
  <2>3. NewStatus = <<>>
    BY <2>2 DEF NewStatus
  <2>4. Content(S, torn) = <<>>
    BY <2>1 DEF Content
  <2> QED BY <1>4, <2>3, <2>4
<1> QED BY <1>1, <1>9, <1>10

LEMMA ServeFullTyped ==
    ASSUME StoreTyped, SocketTyped, ServeFull
    PROVE  StoreTyped' /\ Idle' /\ SocketTyped'
<1>1. PICK ps \in SeqOf(Paths, MaxVictims) :
         MakeRoom(ps) /\ outbox' = <<Item("number", Len(ps))>>
  BY DEF ServeFull
<1>2. ps \in Seq(Paths)
  <2>1. PICK m \in 0 .. MaxVictims : ps \in [1 .. m -> Paths]
    BY <1>1 DEF SeqOf
  <2>2. m \in Nat
    BY <2>1
  <2> QED BY <2>1, <2>2
<1>3. req.op \in AllOps
  BY <1>1 DEF MakeRoom, StoreTyped, Hand, Asked, AnyRequest
<1>4. Item("number", Len(ps)) \in Items
  BY <1>2, <1>3 DEF Item, Items
<1>5. <<Item("number", Len(ps))>> \in Seq(Items)
  BY <1>4
<1>6. StoreTyped' /\ phase' # "idle"
  BY <1>1, <1>2 DEF MakeRoom, StoreTyped, Hand, Phases, Asked
<1>7. SocketTyped'
  BY <1>1, <1>5 DEF SocketTyped, ServeFull
<1> QED BY <1>6, <1>7 DEF Idle

LEMMA PushTyped ==
    ASSUME StoreTyped, Idle, SocketTyped, Push
    PROVE  StoreTyped' /\ Idle' /\ SocketTyped'
<1>1. phase # "idle" /\ outbox # <<>> /\ outbox \in Seq(Items)
  BY DEF Idle, Push, SocketTyped
<1>2. PICK c \in Clients : req \in Asked(c)
  BY <1>1 DEF StoreTyped, Hand
<1>3. req.fd = c
  BY <1>2 DEF Asked
<1>4. Head(outbox) \in Items /\ Tail(outbox) \in Seq(Items)
  BY <1>1
<1>5. sock[c] \in Seq(Items) /\ Append(sock[c], Head(outbox)) \in Seq(Items)
      /\ Len(Append(sock[c], Head(outbox))) = Len(sock[c]) + 1
  BY <1>4 DEF SocketTyped
<1>6. /\ sock' \in [Clients -> Seq(Items)]
      /\ \A d \in Clients : Len(sock'[d]) <= SockSize
  <2>1. CASE UNCHANGED sock
    BY <2>1 DEF SocketTyped
  <2>2. CASE Len(sock[c]) < SockSize /\ sock' = [sock EXCEPT ![c] = Append(@, Head(outbox))]
    <3>1. Len(Append(sock[c], Head(outbox))) <= SockSize
      BY <1>5, <2>2, ApiAssumption DEF SocketTyped
    <3> QED BY <1>5, <2>2, <3>1 DEF SocketTyped
  <2> QED BY <1>3, <2>1, <2>2 DEF Push
<1>7. SocketTyped'
  BY <1>4, <1>6 DEF SocketTyped, Push
<1> QED BY <1>1, <1>7 DEF StoreTyped, Hand, Idle, Push, svars

LEMMA TakeTyped ==
    ASSUME StoreTyped, SocketTyped, NEW c \in Clients, Take(c)
    PROVE  StoreTyped' /\ Idle' /\ SocketTyped'
<1>1. sent[c] \in Seq(AnyRequest) /\ sent[c] \in Seq(Asked(c)) /\ sent[c] # <<>>
  BY DEF SocketTyped, Take
<1>2. /\ Head(sent[c]) \in Asked(c)
      /\ Tail(sent[c]) \in Seq(AnyRequest) /\ Tail(sent[c]) \in Seq(Asked(c))
  BY <1>1
<1>3. <<>> \in Seq(Statuses)
  OBVIOUS
<1>4. StoreTyped' /\ phase' # "idle"
  BY <1>2, <1>3 DEF Take, Receive, StoreTyped, Hand, Phases, Asked
<1>5. SocketTyped'
  BY <1>2 DEF SocketTyped, Take
<1> QED BY <1>4, <1>5 DEF Idle

LEMMA TypedNext == ASSUME Typed, [Next]_vars PROVE Typed'
<1>0. StoreTyped /\ Idle /\ SocketTyped /\ ProgTyped
  BY DEF Typed
<1>1. CASE UNCHANGED vars
  BY <1>0, <1>1, ServerSame DEF vars, apivars, server, Typed, SocketTyped, ProgTyped
<1>2. CASE ServerStep /\ UNCHANGED prog
  <2>1. CASE ServerStart \/ ServerGone
    BY <1>0, <1>2, <2>1
       DEF ServerStart, ServerGone, svars, Typed, StoreTyped, Hand, Idle, SocketTyped, ProgTyped
  <2> QED BY <1>0, <1>2, <2>1, ServeTyped, ServeFullTyped, PushTyped
          DEF ServerStep, Typed, ProgTyped
<1>3. ASSUME NEW c \in Clients, Take(c), UNCHANGED prog PROVE Typed'
  BY <1>0, <1>3, TakeTyped DEF Typed, ProgTyped
<1>4. ASSUME NEW c \in Clients, ApiStep(c), UNCHANGED prog PROVE Typed'
  <2>1. SocketTyped'
    BY <1>0, <1>4, ConnectTyped, ReadsTyped DEF ApiStep
  <2>2. UNCHANGED server
    BY <1>4 DEF ApiStep, openConnection, Reads, readStatus, readNumber, readAFile, readBody,
                Garbled, EndOfFile, Consumed, server
  <2> QED BY <1>0, <1>4, <2>1, <2>2, ServerSame DEF Typed, ProgTyped
<1>5. ASSUME NEW c \in Clients, Main(c) PROVE Typed'
  <2>1. CallStep(c) /\ ProgTyped'
    BY <1>0, <1>5, MainStep DEF ProgStep
  <2>2. SocketTyped' /\ UNCHANGED server
    BY <1>0, <2>1, CallTyped, CallServer
  <2> QED BY <1>0, <2>1, <2>2, ServerSame DEF Typed
<1> QED BY <1>1, <1>2, <1>3, <1>4, <1>5 DEF Next

\* Every reachable state is well typed, whatever the command lines: the socket
\* keeps within its size, each request is of the client whose socket it came
\* from, and every call goes on with a status, a number, a file or a body.
THEOREM Typing == Spec => []TypeOK
<1>1. Init => Typed
  BY InitTyped
<1>2. Typed /\ [Next]_vars => Typed'
  BY TypedNext
<1>3. Typed => TypeOK
  BY TypedIsTypeOK
<1> QED BY <1>1, <1>2, <1>3, PTL DEF Spec

-----------------------------------------------------------------------------
(* Request and answer in step *)

\* The items on the way to client c.
Coming(c) == sock[c] \o (IF req.fd = c THEN outbox ELSE <<>>)

\* The request in hand has no status yet; it waits for room to be made; all of
\* its statuses are sent, and at most files that were expelled are still owed.
Unanswered == /\ answer = <<>>
              /\ \/ phase = "begun"
                 \/ phase = "expel" /\ req.op = "O_CREATE"
                 \/ phase = "written" /\ req.op = "WRITE"
                 \/ phase = "append" /\ req.op = "APPEND"
                 \/ phase = "removed" /\ req.op = "REMOVE"
                 \/ phase = "done" /\ req.op = "LOCKS"
Full == phase = "full" /\ req.op = "WRITE" /\ answer # <<>>
Finished == /\ answer # <<>>
            /\ phase \in {"done", "closing"} \/ (phase = "evict" /\ req.op = "WRITE")
Owed(c) == IF req.fd = c /\ phase = "evict" THEN Len(victims) ELSE 0

\* The n files that end an answer: those in s, and those owed.
Rest(c, s, n) == /\ \A i \in 1 .. Len(s) : s[i].kind \in {"file", "torn"}
                 /\ Len(s) + Owed(c) = n
                 /\ req.fd = c => Finished
NumberNext(c, s) == \/ s = <<>> /\ req.fd = c /\ Full
                    \/ /\ s # <<>> /\ Head(s).kind = "number"
                       /\ Rest(c, Tail(s), Head(s).val)
BodyNext(c, s) == Len(s) = 1 /\ s[1].kind \in {"body", "torn"} /\ Rest(c, <<>>, 0)

\* A call that reads ph next finds in s what its answer is made of.
After(c, ph, n, s) == \/ ph = "none" /\ Rest(c, s, 0)
                      \/ ph = "file" /\ n > 0 /\ Rest(c, s, n)
                      \/ ph = "number" /\ NumberNext(c, s)
                      \/ ph = "body" /\ BodyNext(c, s)
Waiting(c, s, q, op) ==
    /\ s = <<>>
    /\ \/ Rest(c, <<>>, 0) /\ Len(q) = 1 /\ q[1].op = op
       \/ req.fd = c /\ q = <<>> /\ req.op = op /\ Unanswered
Answered(c, s, q, op) ==
    /\ s # <<>> /\ q = <<>> /\ Head(s).kind = "status" /\ Head(s).op = op
    /\ After(c, Follows(op, Head(s).val), 1, Tail(s))
Ordered(c, s, q, k) ==
    \/ k.phase = "status" /\ (Waiting(c, s, q, k.op) \/ Answered(c, s, q, k.op))
    \/ k.phase # "status" /\ q = <<>> /\ After(c, k.phase, k.left, s)

InOrder(c) == fault = "none" /\ conn[c] # "ended" /\ cause[c] = "none"
              => Ordered(c, Coming(c), sent[c], call[c])
Order == \A c \in Clients : InOrder(c)

LEMMA Joined ==
    ASSUME NEW T, NEW s \in Seq(T), NEW o \in Seq(T)
    PROVE  /\ s \o o \in Seq(T) /\ Len(s \o o) = Len(s) + Len(o)
           /\ s # <<>> => /\ s \o o # <<>> /\ Head(s \o o) = Head(s)
                          /\ Tail(s) \in Seq(T) /\ Tail(s \o o) = Tail(s) \o o
           /\ o # <<>> => Append(s, Head(o)) \o Tail(o) = s \o o
           /\ s \o <<>> = s /\ <<>> \o o = o
<1>1. s \o o \in Seq(T) /\ Len(s \o o) = Len(s) + Len(o)
  OBVIOUS
<1>2. ASSUME s # <<>>
      PROVE  /\ s \o o # <<>> /\ Head(s \o o) = Head(s)
             /\ Tail(s) \in Seq(T) /\ Tail(s \o o) = Tail(s) \o o
  BY <1>2
<1>3. ASSUME o # <<>> PROVE Append(s, Head(o)) \o Tail(o) = s \o o
  <2>1. /\ Head(o) = o[1] /\ Tail(o) \in Seq(T) /\ Len(Tail(o)) = Len(o) - 1
        /\ Head(o) \in T /\ \A i \in 1 .. Len(o) - 1 : Tail(o)[i] = o[i + 1]
    BY <1>3
  <2>2. /\ Append(s, Head(o)) \in Seq(T) /\ Len(Append(s, Head(o))) = Len(s) + 1
        /\ \A i \in 1 .. Len(s) : Append(s, Head(o))[i] = s[i]
        /\ Append(s, Head(o))[Len(s) + 1] = o[1]
    BY <2>1
  <2> DEFINE a == Append(s, Head(o))
             t == Tail(o)
  <2> HIDE DEF a, t
  <2>3. /\ a \o t \in Seq(T) /\ Len(a \o t) = Len(s \o o)
        /\ \A i \in 1 .. Len(s \o o) : (a \o t)[i] = (s \o o)[i]
    BY <1>1, <2>1, <2>2 DEF a, t
  <2> QED BY <1>1, <2>3, SeqEqual DEF a, t
<1>4. s \o <<>> = s /\ <<>> \o o = o
  OBVIOUS
<1> QED BY <1>1, <1>2, <1>3, <1>4

\* Order is what InStep says, and more.
LEMMA OrderIsInStep == ASSUME Typed, Order PROVE InStep
<1> SUFFICES ASSUME NEW c \in Clients, fault = "none", conn[c] = "up", cause[c] = "none"
             PROVE  /\ call[c].phase = "none" =>
                          sock[c] = <<>> /\ sent[c] = <<>> /\ (req.fd = c => outbox = <<>>)
                    /\ call[c].phase = "status" /\ sock[c] # <<>> =>
                          Head(sock[c]).kind = "status" /\ Head(sock[c]).op = call[c].op
  BY DEF InStep
<1>1. Ordered(c, Coming(c), sent[c], call[c])
  BY DEF Order, InOrder
<1>2. sock[c] \in Seq(Items) /\ outbox \in Seq(Items) /\ <<>> \in Seq(Items)
  BY DEF Typed, SocketTyped
<1>3. PICK o \in Seq(Items) : o = IF req.fd = c THEN outbox ELSE <<>>
  BY <1>2
<1>4. Coming(c) = sock[c] \o o
  BY <1>3 DEF Coming
<1>5. ASSUME call[c].phase = "none"
      PROVE  sock[c] = <<>> /\ sent[c] = <<>> /\ (req.fd = c => outbox = <<>>)
  <2>1. sent[c] = <<>> /\ Rest(c, Coming(c), 0)
    BY <1>1, <1>5 DEF Ordered, After
  <2>2. Owed(c) \in Nat
    BY DEF Owed, Typed, StoreTyped, Hand
  <2>3. Len(sock[c]) + Len(o) + Owed(c) = 0 /\ Len(sock[c]) \in Nat /\ Len(o) \in Nat
    BY <1>2, <1>4, <2>1, Joined DEF Rest
  <2>4. Len(sock[c]) = 0 /\ Len(o) = 0
    BY <2>2, <2>3
  <2> QED BY <1>2, <1>3, <2>1, <2>4
<1>6. ASSUME call[c].phase = "status", sock[c] # <<>>
      PROVE  Head(sock[c]).kind = "status" /\ Head(sock[c]).op = call[c].op
  <2>1. Coming(c) # <<>> /\ Head(Coming(c)) = Head(sock[c])
    BY <1>2, <1>4, <1>6, Joined
  <2> QED BY <1>1, <1>6, <2>1 DEF Ordered, Waiting, Answered
<1> QED BY <1>5, <1>6

LEMMA InitOrder == ASSUME Init PROVE Order
<1> SUFFICES ASSUME NEW c \in Clients PROVE InOrder(c)
  BY DEF Order
<1>1. /\ sock[c] = <<>> /\ sent[c] = <<>> /\ call[c].phase = "none" /\ req.fd # c
  BY StoreAssumption DEF Init, ApiInit, StoreInit, NoRequest, NoCall
<1>2. Coming(c) = <<>>
  BY <1>1 DEF Coming
<1>3. Rest(c, <<>>, 0)
  BY <1>1 DEF Rest, Owed
<1> QED BY <1>1, <1>2, <1>3 DEF InOrder, Ordered, After

\* What is in order for client c stays so while the server's part of it does not
\* change.
LEMMA AfterSame ==
    ASSUME NEW c, Owed(c)' = Owed(c), (req.fd = c => Finished)' <=> (req.fd = c => Finished),
           (req.fd = c /\ Full)' <=> (req.fd = c /\ Full),
           NEW ph, NEW n, NEW s
    PROVE  After(c, ph, n, s)' <=> After(c, ph, n, s)
<1>1. ASSUME NEW t, NEW m PROVE Rest(c, t, m)' <=> Rest(c, t, m)
  BY DEF Rest
<1>2. NumberNext(c, s)' <=> NumberNext(c, s)
  BY <1>1 DEF NumberNext
<1>3. BodyNext(c, s)' <=> BodyNext(c, s)
  BY <1>1 DEF BodyNext
<1> QED BY <1>1, <1>2, <1>3 DEF After

LEMMA OrderSame ==
    ASSUME NEW c, Owed(c)' = Owed(c), (req.fd = c => Finished)' <=> (req.fd = c => Finished),
           (req.fd = c /\ Full)' <=> (req.fd = c /\ Full),
           NEW s, NEW q, NEW k,
           \/ req.fd # c /\ req'.fd # c
           \/ UNCHANGED <<phase, req, answer>>
    PROVE  Ordered(c, s, q, k)' <=> Ordered(c, s, q, k)
<1>1. After(c, k.phase, k.left, s)' <=> After(c, k.phase, k.left, s)
  BY AfterSame
<1>2. Answered(c, s, q, k.op)' <=> Answered(c, s, q, k.op)
  <2>1. After(c, Follows(k.op, Head(s).val), 1, Tail(s))'
        <=> After(c, Follows(k.op, Head(s).val), 1, Tail(s))
    BY AfterSame
  <2> QED BY <2>1 DEF Answered
<1>3. Waiting(c, s, q, k.op)' <=> Waiting(c, s, q, k.op)
  <2>1. Rest(c, <<>>, 0)' <=> Rest(c, <<>>, 0)
    BY DEF Rest
  <2> QED BY <2>1 DEF Waiting, Unanswered
<1> QED BY <1>1, <1>2, <1>3 DEF Ordered

LEMMA ServerKept ==
    ASSUME UNCHANGED <<phase, req, answer, victims>>, NEW c, NEW s, NEW q, NEW k
    PROVE  Ordered(c, s, q, k)' <=> Ordered(c, s, q, k)
<1>1. Owed(c)' = Owed(c)
  BY DEF Owed
<1>2. /\ (req.fd = c => Finished)' <=> (req.fd = c => Finished)
      /\ (req.fd = c /\ Full)' <=> (req.fd = c /\ Full)
  BY DEF Finished, Full
<1> QED BY <1>1, <1>2, OrderSame

LEMMA OtherServed ==
    ASSUME NEW c, req.fd # c, req'.fd # c, NEW s, NEW q, NEW k
    PROVE  Ordered(c, s, q, k)' <=> Ordered(c, s, q, k)
<1>1. Owed(c)' = Owed(c)
  BY DEF Owed
<1> QED BY <1>1, OrderSame

\* A client of which nothing changes but the state of the others.
LEMMA Untouched ==
    ASSUME Order, NEW c \in Clients, UNCHANGED <<phase, req, answer, victims, outbox>>,
           sock'[c] = sock[c], sent'[c] = sent[c], call'[c] = call[c],
           conn'[c] = "ended" \/ conn[c] # "ended",
           cause'[c] = cause[c], fault' = "none" => fault = "none"
    PROVE  InOrder(c)'
<1>1. Coming(c)' = Coming(c)
  BY DEF Coming
<1> SUFFICES ASSUME fault' = "none", conn'[c] # "ended", cause'[c] = "none"
             PROVE  Ordered(c, Coming(c), sent[c], call[c])'
  BY DEF InOrder
<1>2. Ordered(c, Coming(c), sent[c], call[c])
  BY DEF Order, InOrder
<1>3. PICK s, q, k : s = Coming(c) /\ q = sent[c] /\ k = call[c]
  OBVIOUS
<1>4. Ordered(c, s, q, k)
  BY <1>2, <1>3
<1>5. Ordered(c, s, q, k)'
  BY <1>4, ServerKept
<1>6. Coming(c)' = s /\ sent'[c] = q /\ call'[c] = k
  BY <1>1, <1>3
<1> QED BY <1>5, <1>6

-----------------------------------------------------------------------------
(* Request and answer in step: the clients' side *)

LEMMA ConnectOrder ==
    ASSUME Typed, Order, NEW c \in Clients, openConnection(c)
    PROVE  Order'
<1> SUFFICES ASSUME NEW d \in Clients PROVE InOrder(d)'
  BY DEF Order
<1> QED BY Untouched DEF openConnection, server, svars, Typed, SocketTyped

\* A call begins where the call before it has left nothing.
LEMMA CallOrder ==
    ASSUME Typed, Order, NEW c \in Clients, Free(c), CallStep(c)
    PROVE  Order'
<1> SUFFICES ASSUME NEW d \in Clients PROVE InOrder(d)'
  BY DEF Order
<1>0. UNCHANGED server
  BY CallServer
<1>1. CASE UNCHANGED apivars
  BY <1>1, Untouched DEF apivars, svars
<1>2. CASE d # c
  BY <1>0, <1>2, Untouched
     DEF CallStep, Sends, Request, Refused, Leaves, Fails, Exit, server, svars, apivars,
         Typed, SocketTyped
<1>3. CASE d = c /\ ~UNCHANGED apivars
  <2> SUFFICES ASSUME fault' = "none", conn'[c] # "ended", cause'[c] = "none"
               PROVE  Ordered(c, Coming(c), sent[c], call[c])'
    BY <1>3 DEF InOrder
  <2>1. cause[c] = "none" /\ conn[c] # "ended" /\ fault = "none" /\ call[c].phase = "none"
    BY <1>3 DEF Free, CallStep, Sends, Request, Refused, Leaves, Fails, Exit
  <2>2. Ordered(c, Coming(c), sent[c], call[c])
    BY <2>1 DEF Order, InOrder
  <2>3. sent[c] = <<>> /\ Rest(c, Coming(c), 0)
    BY <2>1, <2>2 DEF Ordered, After
  <2>4. Coming(c)' = Coming(c)
    BY <1>0, <1>3, <2>1 DEF CallStep, Sends, Request, Refused, Leaves, Fails, Exit, server, svars,
                      Coming, Typed, SocketTyped
  <2>5. PICK s : s = Coming(c)
    OBVIOUS
  <2>6. Rest(c, s, 0) /\ Rest(c, s, 0)'
    BY <1>0, <2>3, <2>5 DEF Rest, Owed, Finished, server, svars
  <2>7. CASE Sends(c)
    <3>1. PICK op \in Calls, p \in Paths \cup {NONE}, n \in Nat, folder \in Folders :
             Request(c, op, p, n, folder)
      BY <2>7 DEF Sends
    <3>2. /\ sent'[c] = Append(sent[c], [op |-> op, path |-> p, size |-> n, fd |-> c])
          /\ call'[c].op = op /\ call'[c].phase = "status"
      <4>1. sent \in [Clients -> Seq(AnyRequest)] /\ conn \in [Clients -> {"none", "up", "failed", "ended"}]
            /\ call \in [Clients -> Call]
        BY DEF Typed, SocketTyped
      <4>2. /\ sent' = [sent EXCEPT ![c] =
                   Append(@, [op |-> op, path |-> p, size |-> n, fd |-> c])]
            /\ call' = [call EXCEPT ![c] = [NoCall EXCEPT !.op = op, !.phase = "status",
                                                         !.folder = folder]]
        BY <3>1, <4>1 DEF Request, Exit
      <4> QED BY <4>1, <4>2 DEF NoCall
    <3>3. Len(sent'[c]) = 1 /\ sent'[c][1].op = op
      BY <2>3, <3>2
    <3>4. s = <<>>
      <4>1. s \in Seq(Items)
        BY <2>5, Joined DEF Coming, Typed, SocketTyped
      <4>2. Owed(c) \in Nat
        BY DEF Owed, Typed, StoreTyped, Hand
      <4> QED BY <2>6, <4>1, <4>2 DEF Rest
    <3> QED BY <2>4, <2>5, <2>6, <3>2, <3>3, <3>4 DEF Ordered, Waiting
  <2>8. CASE Refused(c)
    <3>1. sent'[c] = <<>> /\ call'[c].phase = "none"
      BY <2>3, <2>8 DEF Refused, NoCall, Typed, SocketTyped
    <3> QED BY <2>4, <2>5, <2>6, <3>1 DEF Ordered, After
  <2>9. ~Leaves(c) /\ ~Fails
    BY <1>3 DEF Leaves, Fails, Exit, Typed, SocketTyped
  <2> QED BY <1>3, <2>7, <2>8, <2>9 DEF CallStep
<1> QED BY <1>1, <1>2, <1>3

\* What client c reads is the first of what is coming to it.
LEMMA FirstComing ==
    ASSUME Typed, NEW c \in Clients, sock[c] # <<>>
    PROVE  /\ Coming(c) \in Seq(Items) /\ Coming(c) # <<>>
           /\ Head(Coming(c)) = Head(sock[c])
           /\ Consumed(c) => Coming(c)' = Tail(Coming(c))
<1>1. sock[c] \in Seq(Items) /\ outbox \in Seq(Items) /\ <<>> \in Seq(Items)
  BY DEF Typed, SocketTyped
<1>2. PICK o \in Seq(Items) : o = IF req.fd = c THEN outbox ELSE <<>>
  BY <1>1
<1>3. PICK s \in Seq(Items) : s = sock[c] /\ s # <<>>
  BY <1>1
<1>4. Coming(c) = s \o o
  BY <1>2, <1>3 DEF Coming
<1>5. ASSUME Consumed(c) PROVE Coming(c)' = Tail(s) \o o
  BY <1>2, <1>3, <1>5 DEF Consumed, Coming, server, svars, Typed, SocketTyped
<1>6. s \o o \in Seq(Items) /\ s \o o # <<>> /\ Head(s \o o) = Head(s)
      /\ Tail(s \o o) = Tail(s) \o o
  <2>1. s # <<>> /\ s \in Seq(Items) /\ o \in Seq(Items)
    BY <1>3
  <2>2. s \o o \in Seq(Items)
    BY <2>1, Joined
  <2>3. s \o o # <<>> /\ Head(s \o o) = Head(s) /\ Tail(s \o o) = Tail(s) \o o
    BY <2>1, Joined
  <2> QED BY <2>2, <2>3
<1> QED BY <1>3, <1>4, <1>5, <1>6

LEMMA Single == ASSUME NEW T, NEW s \in Seq(T), Len(s) = 1 PROVE Tail(s) = <<>>
<1>1. Tail(s) \in Seq(T) /\ Len(Tail(s)) = 0
  BY HeadTailProperties
<1>2. \A t \in Seq(T) : t # <<>> => Len(t) \in Nat \ {0}
  BY EmptySeq
<1> QED BY <1>1, <1>2

LEMMA OneLess ==
    ASSUME NEW c, NEW s \in Seq(Items), s # <<>>
    PROVE  /\ Len(s) = 1 => Tail(s) = <<>>
           /\ \A n \in Nat : Owed(c) \in Nat /\ Rest(c, s, n) => Rest(c, Tail(s), n - 1)
<1>1. Tail(s) \in Seq(Items) /\ Len(Tail(s)) = Len(s) - 1 /\ Len(s) \in Nat
      /\ \A i \in 1 .. Len(s) - 1 : Tail(s)[i] = s[i + 1]
  OBVIOUS
<1>2. ASSUME NEW n \in Nat, Owed(c) \in Nat, Rest(c, s, n) PROVE Rest(c, Tail(s), n - 1)
  BY <1>1, <1>2 DEF Rest
<1> QED BY <1>1, <1>2

\* A read after which the call goes on to read ph.
LEMMA ReadOn ==
    ASSUME Typed, NEW c \in Clients, sock[c] # <<>>, Consumed(c), sent[c] = <<>>,
           NEW ph, ph # "status", NEW left, NEW ret, NEW n, Goes(c, ph, left, ret, n),
           After(c, ph, left, Tail(Coming(c)))
    PROVE  Ordered(c, Coming(c), sent[c], call[c])'
<1>1. Coming(c)' = Tail(Coming(c))
  BY FirstComing
<1>2. sent'[c] = <<>> /\ call'[c].phase = ph /\ call'[c].left = left
  BY DEF Consumed, Goes, Typed, SocketTyped, Call
<1>3. UNCHANGED <<phase, req, answer, victims>>
  BY DEF Consumed, server, svars
<1>4. PICK s, m : s = Tail(Coming(c)) /\ m = left
  OBVIOUS
<1>5. After(c, ph, m, s)
  BY <1>4
<1>6. After(c, ph, m, s)'
  <2>1. /\ Owed(c)' = Owed(c)
        /\ (req.fd = c => Finished)' <=> (req.fd = c => Finished)
        /\ (req.fd = c /\ Full)' <=> (req.fd = c /\ Full)
    BY <1>3 DEF Owed, Finished, Full
  <2> QED BY <1>5, <2>1, AfterSame
<1> QED BY <1>1, <1>2, <1>4, <1>6 DEF Ordered

LEMMA ReadsOrder ==
    ASSUME Typed, Order, NEW c \in Clients, Reads(c)
    PROVE  Order'
<1> SUFFICES ASSUME NEW d \in Clients PROVE InOrder(d)'
  BY DEF Order
<1>0. UNCHANGED server
  BY DEF Reads, readStatus, readNumber, readAFile, readBody, Garbled, EndOfFile, Consumed, server
<1>1. CASE d # c
  BY <1>0, <1>1, Untouched
     DEF Reads, readStatus, readNumber, readAFile, readBody, Garbled, EndOfFile, Consumed, Goes,
         Exit, server, svars, Typed, SocketTyped
<1>2. CASE d = c
  <2> SUFFICES ASSUME fault' = "none", conn'[c] # "ended", cause'[c] = "none"
               PROVE  Ordered(c, Coming(c), sent[c], call[c])'
    BY <1>2 DEF InOrder
  <2> DEFINE i == Head(sock[c])
             C == Coming(c)
  <2>1. ~Garbled(c) /\ ~EndOfFile(c)
    BY DEF Garbled, EndOfFile
  <2>2. /\ fault = "none" /\ conn[c] = "up" /\ cause[c] = "none" /\ sock[c] # <<>>
        /\ Consumed(c)
    BY <2>1 DEF Reads, readStatus, readNumber, readAFile, readBody, Reading, Exit, Typed,
                SocketTyped
  <2>3. Ordered(c, C, sent[c], call[c])
    BY <2>2 DEF Order, InOrder
  <2>4. C \in Seq(Items) /\ C # <<>> /\ Head(C) = i /\ i \in Items
    BY <2>2, FirstComing DEF Typed, SocketTyped
  <2>5. call[c].phase # "status" => sent[c] = <<>> /\ After(c, call[c].phase, call[c].left, C)
    BY <2>3 DEF Ordered
  <2>6. CASE readStatus(c)
    <3>1. call[c].phase = "status"
      BY <2>6 DEF readStatus, Reading
    <3>2. /\ sent[c] = <<>> /\ i.kind = "status"
          /\ After(c, Follows(call[c].op, i.val), 1, Tail(C))
      BY <2>3, <2>4, <3>1 DEF Ordered, Waiting, Answered
    <3>3. PICK ph : ph = Follows(call[c].op, i.val)
      OBVIOUS
    <3>4. PICK left : left = IF ph = "file" THEN 1 ELSE 0
      OBVIOUS
    <3>5. Goes(c, ph, left, Returns(call[c].op, i.val), 0)
      BY <2>6, <3>2, <3>3, <3>4 DEF readStatus
    <3>6. ph # "status"
      BY <3>3 DEF Follows
    <3>7. After(c, ph, left, Tail(C))
      BY <3>2, <3>3, <3>4 DEF After
    <3> QED BY <2>2, <3>2, <3>5, <3>6, <3>7, ReadOn
  <2>7. CASE readNumber(c)
    <3>1. call[c].phase = "number"
      BY <2>7 DEF readNumber, Reading
    <3>2. sent[c] = <<>> /\ i.kind = "number" /\ Rest(c, Tail(C), i.val)
      BY <2>4, <2>5, <3>1 DEF After, NumberNext
    <3>3. i.val \in Nat
      BY <2>4, <3>2 DEF Items
    <3>4. PICK m \in Nat : m = i.val
      BY <3>3
    <3>5. PICK ph : ph = IF m = 0 THEN "none" ELSE "file"
      OBVIOUS
    <3>6. Goes(c, ph, m, call[c].ret, 0)
      BY <2>7, <3>4, <3>5 DEF readNumber
    <3>7. After(c, ph, m, Tail(C)) /\ ph # "status"
      BY <3>2, <3>4, <3>5 DEF After
    <3> QED BY <2>2, <3>2, <3>6, <3>7, ReadOn
  <2>8. CASE readAFile(c)
    <3>1. call[c].phase = "file" /\ call[c].left \in Nat
      BY <2>8 DEF readAFile, Reading, Typed, SocketTyped, Call
    <3>2. PICK m \in Nat : m = call[c].left
      BY <3>1
    <3>3. sent[c] = <<>> /\ m > 0 /\ Rest(c, C, m)
      BY <2>5, <3>1, <3>2 DEF After
    <3>4. Owed(c) \in Nat
      BY DEF Owed, Typed, StoreTyped, Hand
    <3>5. Rest(c, Tail(C), m - 1)
      BY <2>4, <3>3, <3>4, OneLess
    <3>6. CASE Goes(c, IF m - 1 = 0 THEN "none" ELSE "file", m - 1, call[c].ret, 0)
      <4>1. PICK ph : ph = IF m - 1 = 0 THEN "none" ELSE "file"
        OBVIOUS
      <4>2. After(c, ph, m - 1, Tail(C)) /\ ph # "status"
        BY <3>3, <3>5, <4>1 DEF After
      <4> QED BY <2>2, <3>3, <3>6, <4>1, <4>2, ReadOn
    <3>7. CASE /\ Goes(c, "none", 0, -1, 0)
               /\ cause' = [cause EXCEPT ![c] = IF m - 1 > 0 THEN "folder" ELSE @]
      <4>1. ~(m - 1 > 0)
        BY <3>7 DEF Typed, SocketTyped
      <4>2. m - 1 = 0
        BY <3>3, <4>1
      <4>3. After(c, "none", 0, Tail(C))
        BY <3>5, <4>2 DEF After
      <4> QED BY <2>2, <3>3, <3>7, <4>3, ReadOn
    <3>8. ~Exit(c)
      BY DEF Exit, Typed, SocketTyped
    <3> QED BY <2>8, <3>2, <3>6, <3>7, <3>8 DEF readAFile
  <2>9. CASE readBody(c)
    <3>1. call[c].phase = "body"
      BY <2>9 DEF readBody, Reading
    <3>2. sent[c] = <<>> /\ Len(C) = 1 /\ Rest(c, <<>>, 0)
      BY <2>5, <3>1 DEF After, BodyNext
    <3>3. Tail(C) = <<>>
      BY <2>4, <3>2, OneLess
    <3>4. After(c, "none", 0, Tail(C))
      BY <3>2, <3>3 DEF After
    <3>5. Goes(c, "none", 0, call[c].ret, i.val)
      BY <2>9 DEF readBody
    <3> QED BY <2>2, <3>2, <3>4, <3>5, ReadOn
  <2> QED BY <2>1, <2>6, <2>7, <2>8, <2>9 DEF Reads
<1> QED BY <1>1, <1>2

-----------------------------------------------------------------------------
(* Request and answer in step: the server's side *)

\* A client whose request is not the one in hand.
LEMMA Elsewhere ==
    ASSUME Order, NEW c \in Clients, req.fd # c, req'.fd # c,
           sock'[c] = sock[c], sent'[c] = sent[c], call'[c] = call[c],
           UNCHANGED <<conn, fault>>, cause'[c] = cause[c]
    PROVE  InOrder(c)'
<1>1. Coming(c)' = Coming(c)
  BY DEF Coming
<1> SUFFICES ASSUME fault' = "none", conn'[c] # "ended", cause'[c] = "none"
             PROVE  Ordered(c, Coming(c), sent[c], call[c])'
  BY DEF InOrder
<1>2. Ordered(c, Coming(c), sent[c], call[c])
  BY DEF Order, InOrder
<1>3. PICK s, q, k : s = Coming(c) /\ q = sent[c] /\ k = call[c]
  OBVIOUS
<1>4. Ordered(c, s, q, k)
  BY <1>2, <1>3
<1>5. Ordered(c, s, q, k)'
  BY <1>4, OtherServed
<1>6. Coming(c)' = s /\ sent'[c] = q /\ call'[c] = k
  BY <1>1, <1>3
<1> QED BY <1>5, <1>6

LEMMA TakeOrder ==
    ASSUME Typed, Order, NEW c \in Clients, Take(c)
    PROVE  Order'
<1> SUFFICES ASSUME NEW d \in Clients PROVE InOrder(d)'
  BY DEF Order
<1>0. /\ req.fd \notin Clients /\ outbox = <<>>
      /\ sent[c] \in Seq(Asked(c)) /\ sent[c] # <<>>
      /\ sent \in [Clients -> Seq(AnyRequest)]
  BY StoreAssumption DEF Take, Live, Receive, Typed, StoreTyped, Hand, SocketTyped, NoRequest
<1>1. req' = Head(sent[c]) /\ Head(sent[c]) = sent[c][1] /\ sent[c][1] \in Asked(c)
  BY <1>0 DEF Take, Receive
<1>2. req'.fd = c
  BY <1>1 DEF Asked
<1>3. CASE d # c
  BY <1>0, <1>2, <1>3, Elsewhere DEF Take
<1>4. CASE d = c
  <2> SUFFICES ASSUME fault' = "none", conn'[c] # "ended", cause'[c] = "none"
               PROVE  Ordered(c, Coming(c), sent[c], call[c])'
    BY <1>4 DEF InOrder
  <2>1. Ordered(c, Coming(c), sent[c], call[c])
    BY DEF Take, Order, InOrder
  <2>2. /\ call[c].phase = "status" /\ Coming(c) = <<>>
        /\ Len(sent[c]) = 1 /\ sent[c][1].op = call[c].op
    BY <1>0, <2>1 DEF Ordered, Waiting, Answered
  <2>3. Coming(c)' = <<>>
    BY <1>0, <1>2, <2>2 DEF Coming, Take
  <2>4. sent'[c] = <<>>
    <3>1. PICK q \in Seq(Asked(c)) : q = sent[c]
      BY <1>0
    <3>2. Tail(q) = <<>>
      BY <2>2, <3>1, Single
    <3> QED BY <1>0, <3>1, <3>2 DEF Take
  <2>5. Unanswered' /\ req'.op = call'[c].op /\ call'[c].phase = "status"
    BY <1>1, <2>2 DEF Unanswered, Take, Receive
  <2> QED BY <1>2, <2>3, <2>4, <2>5 DEF Ordered, Waiting
<1> QED BY <1>3, <1>4

\* An item that goes into the socket was on its way already.
LEMMA PushComing ==
    ASSUME Typed, Push, NEW c \in Clients, conn[c] # "ended"
    PROVE  Coming(c)' = Coming(c)
<1>1. CASE req.fd # c
  BY <1>1 DEF Push, svars, Coming, Typed, SocketTyped
<1>2. CASE req.fd = c
  <2>1. PICK b \in Seq(Items), o \in Seq(Items) : b = sock[c] /\ o = outbox
    BY DEF Typed, SocketTyped
  <2>2. sock'[c] = Append(b, Head(o)) /\ outbox' = Tail(o) /\ o # <<>> /\ req' = req
    BY <1>2, <2>1 DEF Push, svars, Typed, SocketTyped
  <2>3. Append(b, Head(o)) \o Tail(o) = b \o o
    BY <2>2, Joined
  <2> QED BY <1>2, <2>1, <2>2, <2>3 DEF Coming
<1> QED BY <1>1, <1>2

LEMMA PushOrder == ASSUME Typed, Order, Push PROVE Order'
<1> SUFFICES ASSUME NEW d \in Clients PROVE InOrder(d)'
  BY DEF Order
<1>1. UNCHANGED <<phase, req, answer, victims, sent, call, conn, cause, fault>>
  BY DEF Push, svars
<1>2. CASE d # req.fd
  BY <1>1, <1>2, Elsewhere DEF Push, Typed, SocketTyped
<1>3. CASE d = req.fd
  <2> SUFFICES ASSUME fault' = "none", conn'[d] # "ended", cause'[d] = "none"
               PROVE  Ordered(d, Coming(d), sent[d], call[d])'
    BY DEF InOrder
  <2>1. Ordered(d, Coming(d), sent[d], call[d])
    BY <1>1 DEF Order, InOrder
  <2>2. PICK s, q, k : s = Coming(d) /\ q = sent[d] /\ k = call[d]
    OBVIOUS
  <2>3. Ordered(d, s, q, k)'
    BY <1>1, <2>1, <2>2, ServerKept
  <2>4. Coming(d)' = Coming(d)
    BY <1>1, PushComing
  <2> QED BY <1>1, <2>2, <2>3, <2>4
<1> QED BY <1>2, <1>3

\* Of an answer in hand, nothing is sent yet, room is being made, or all
\* statuses are sent.
LEMMA Holding ==
    ASSUME NEW c, req.fd = c, NEW s, NEW q, NEW k, Ordered(c, s, q, k)
    PROVE  Unanswered \/ Full \/ Finished
BY DEF Ordered, Waiting, Answered, After, NumberNext, BodyNext, Rest

LEMMA ServeFullOrder == ASSUME Typed, Order, ServeFull PROVE Order'
<1> SUFFICES ASSUME NEW d \in Clients PROVE InOrder(d)'
  BY DEF Order
<1>1. PICK ps \in SeqOf(Paths, MaxVictims) :
         MakeRoom(ps) /\ outbox' = <<Item("number", Len(ps))>>
  BY DEF ServeFull
<1>2. /\ phase = "full" /\ phase' = "evict" /\ victims' = ps /\ outbox = <<>>
      /\ UNCHANGED <<req, answer, sent, sock, call, conn, cause, fault>>
  BY <1>1 DEF MakeRoom, ServeFull, Live
<1>3. CASE d # req.fd
  BY <1>2, <1>3, Elsewhere
<1>4. CASE d = req.fd
  <2> SUFFICES ASSUME fault' = "none", conn'[d] # "ended", cause'[d] = "none"
               PROVE  Ordered(d, Coming(d), sent[d], call[d])'
    BY DEF InOrder
  <2>1. Ordered(d, Coming(d), sent[d], call[d])
    BY <1>2 DEF Order, InOrder
  <2>2. sock[d] \in Seq(Items)
    BY DEF Typed, SocketTyped
  <2>3. PICK i \in Items, s \in Seq(Items) : i = Item("number", Len(ps)) /\ s = sock[d]
    <3>1. req.op \in AllOps
      BY <1>2 DEF Typed, StoreTyped, Hand, Asked, AnyRequest
    <3>2. Len(ps) \in Nat
      BY <1>1 DEF SeqOf
    <3>3. Item("number", Len(ps)) \in Items
      BY <3>1, <3>2 DEF Item, Items
    <3> QED BY <2>2, <3>3
  <2>4. Coming(d) = s
    BY <1>2, <2>3 DEF Coming
  <2>5. Coming(d)' = s \o <<i>>
    BY <1>1, <1>2, <1>4, <2>3 DEF Coming
  <2>6. ~Finished /\ ~Unanswered
    BY <1>2 DEF Finished, Unanswered
  <2>7. /\ Full /\ sent[d] = <<>>
        /\ \/ call[d].phase = "number" /\ s = <<>>
           \/ /\ call[d].phase = "status" /\ s # <<>> /\ Tail(s) = <<>>
              /\ Head(s).kind = "status" /\ Head(s).op = call[d].op
              /\ Follows(call[d].op, Head(s).val) = "number"
    BY <1>4, <2>1, <2>4, <2>6
       DEF Ordered, Waiting, Answered, After, NumberNext, BodyNext, Rest
  <2>8. Rest(d, <<>>, Len(ps))'
    <3>1. Owed(d)' = Len(ps) /\ Finished'
      BY <1>2, <1>4, <2>7 DEF Owed, Full, Finished
    <3>2. Len(ps) \in Nat
      BY <1>1 DEF SeqOf
    <3> QED BY <3>1, <3>2 DEF Rest
  <2>9. i.kind = "number" /\ i.val = Len(ps)
    BY <2>3 DEF Item
  <2>10. NumberNext(d, <<i>>)'
    <3>1. <<i>> # <<>> /\ Head(<<i>>) = i /\ Tail(<<i>>) = <<>>
      OBVIOUS
    <3> QED BY <2>8, <2>9, <3>1 DEF NumberNext
  <2>11. CASE call[d].phase = "number" /\ s = <<>>
    <3>1. s \o <<i>> = <<i>>
      BY <2>11
    <3> QED BY <1>2, <2>5, <2>7, <2>10, <2>11, <3>1 DEF Ordered, After
  <2>12. CASE call[d].phase = "status" /\ s # <<>> /\ Tail(s) = <<>>
    <3>1. /\ s \o <<i>> # <<>> /\ Head(s \o <<i>>) = Head(s)
          /\ Tail(s \o <<i>>) = <<i>>
      <4>1. <<i>> \in Seq(Items)
        OBVIOUS
      <4>2. PICK t \in Seq(Items) : t = <<i>>
        BY <4>1
      <4>3. s \in Seq(Items) /\ s # <<>> /\ Tail(s) = <<>> /\ <<>> \o t = t
        BY <2>12, Joined
      <4>4. s \o t # <<>> /\ Head(s \o t) = Head(s) /\ Tail(s \o t) = Tail(s) \o t
        BY <4>3, Joined
      <4> QED BY <4>2, <4>3, <4>4
    <3> QED BY <1>2, <2>5, <2>7, <2>10, <2>12, <3>1 DEF Ordered, Answered, After
  <2> QED BY <2>7, <2>11, <2>12
<1> QED BY <1>3, <1>4

\* The server sends the files it owes, and comes to the end of the request.
Growth(c, items) ==
    /\ items \in Seq(Items)
    /\ \A i \in 1 .. Len(items) : items[i].kind \in {"file", "torn"}
    /\ Owed(c) \in Nat /\ Owed(c)' \in Nat /\ Owed(c)' + Len(items) = Owed(c)
    /\ (req.fd = c => Finished)'
    /\ ~(req.fd = c /\ Full)

LEMMA RestGrown ==
    ASSUME NEW c, NEW items, Growth(c, items), NEW t \in Seq(Items), NEW n, Rest(c, t, n)
    PROVE  Rest(c, t \o items, n)'
<1>1. PICK g \in Seq(Items) : g = items
  BY DEF Growth
<1>2. /\ t \o g \in Seq(Items) /\ Len(t \o g) = Len(t) + Len(g)
      /\ Len(t) \in Nat /\ Len(g) \in Nat
      /\ \A i \in 1 .. Len(t) + Len(g) : (t \o g)[i] = IF i <= Len(t) THEN t[i] ELSE g[i - Len(t)]
  BY ConcatProperties
<1>3. \A i \in 1 .. Len(t \o g) : (t \o g)[i].kind \in {"file", "torn"}
  BY <1>1, <1>2 DEF Growth, Rest
<1>4. Len(t \o g) + Owed(c)' = n
  BY <1>1, <1>2 DEF Growth, Rest
<1> QED BY <1>1, <1>3, <1>4 DEF Growth, Rest

LEMMA AfterGrown ==
    ASSUME NEW c, NEW items, Growth(c, items), NEW s \in Seq(Items), NEW ph, NEW n,
           After(c, ph, n, s)
    PROVE  After(c, ph, n, s \o items)'
<1>1. CASE ph = "none" /\ Rest(c, s, 0)
  BY <1>1, RestGrown DEF After
<1>2. CASE ph = "file" /\ n > 0 /\ Rest(c, s, n)
  BY <1>2, RestGrown DEF After
<1>3. CASE ph = "number" /\ NumberNext(c, s)
  <2>1. s # <<>> /\ Head(s).kind = "number" /\ Rest(c, Tail(s), Head(s).val)
    BY <1>3 DEF NumberNext, Growth
  <2>2. items \in Seq(Items)
    BY DEF Growth
  <2>3. /\ s \o items # <<>> /\ Head(s \o items) = Head(s)
        /\ Tail(s) \in Seq(Items) /\ Tail(s \o items) = Tail(s) \o items
    BY <2>1, <2>2, Joined
  <2>4. Rest(c, Tail(s) \o items, Head(s).val)'
    BY <2>1, <2>3, RestGrown
  <2> QED BY <1>3, <2>1, <2>3, <2>4 DEF After, NumberNext
<1>4. CASE ph = "body" /\ BodyNext(c, s)
  <2>1. Len(s) = 1 /\ s[1].kind \in {"body", "torn"} /\ Rest(c, <<>>, 0)
    BY <1>4 DEF BodyNext
  <2>2. items = <<>>
    BY <2>1 DEF Growth, Rest
  <2>3. s \o items = s /\ <<>> \o items = <<>>
    BY <2>2
  <2>4. Rest(c, <<>> \o items, 0)'
    <3>1. <<>> \in Seq(Items)
      OBVIOUS
    <3> QED BY <2>1, <3>1, RestGrown
  <2> QED BY <1>4, <2>1, <2>3, <2>4 DEF After, BodyNext
<1> QED BY <1>1, <1>2, <1>3, <1>4 DEF After

LEMMA OrderGrown ==
    ASSUME NEW c, NEW items, Growth(c, items), ~Unanswered,
           NEW s \in Seq(Items), NEW q, NEW k, Ordered(c, s, q, k)
    PROVE  Ordered(c, s \o items, q, k)'
<1>1. CASE k.phase # "status"
  <2>1. q = <<>> /\ After(c, k.phase, k.left, s)
    BY <1>1 DEF Ordered
  <2>2. After(c, k.phase, k.left, s \o items)'
    BY <2>1, AfterGrown
  <2> QED BY <1>1, <2>1, <2>2 DEF Ordered
<1>2. CASE k.phase = "status" /\ Waiting(c, s, q, k.op)
  <2>1. s = <<>> /\ Rest(c, <<>>, 0) /\ Len(q) = 1 /\ q[1].op = k.op
    BY <1>2 DEF Waiting
  <2>2. items = <<>>
    BY <2>1 DEF Growth, Rest
  <2>3. s \o items = <<>>
    BY <2>1, <2>2
  <2>4. Rest(c, s \o items, 0)'
    BY <2>1, RestGrown
  <2> QED BY <1>2, <2>1, <2>3, <2>4 DEF Ordered, Waiting
<1>3. CASE k.phase = "status" /\ Answered(c, s, q, k.op)
  <2>1. /\ s # <<>> /\ q = <<>> /\ Head(s).kind = "status" /\ Head(s).op = k.op
        /\ After(c, Follows(k.op, Head(s).val), 1, Tail(s))
    BY <1>3 DEF Answered
  <2>2. items \in Seq(Items)
    BY DEF Growth
  <2>3. /\ s \o items # <<>> /\ Head(s \o items) = Head(s)
        /\ Tail(s) \in Seq(Items) /\ Tail(s \o items) = Tail(s) \o items
    BY <2>1, <2>2, Joined
  <2>4. After(c, Follows(k.op, Head(s).val), 1, Tail(s) \o items)'
    BY <2>1, <2>3, AfterGrown
  <2> QED BY <1>3, <2>1, <2>3, <2>4 DEF Ordered, Answered
<1> QED BY <1>1, <1>2, <1>3 DEF Ordered

\* Where all the statuses are sent, a step of the server sends a file it owes.
LEMMA FinishedGrows ==
    ASSUME StoreTyped, Step, Finished, NEW c \in Clients, req.fd = c,
           NEW S \in BucketsSent, NEW torn \in BOOLEAN
    PROVE  Growth(c, NewStatus \o Content(S, torn))
<1>0. answer \in Seq(Statuses) /\ answer # <<>> /\ Len(answer) \in Nat /\ victims \in Seq(Paths)
  BY DEF StoreTyped, Hand, Finished
<1>1. NewStatus \in Seq(Items) /\ Content(S, torn) \in Seq(Items)
  BY ContentTyped
<1>2. ~Full
  BY DEF Finished, Full
<1>3. \/ Finish /\ phase \in {"done", "closing"}
      \/ phase = "closing" /\ \E p \in Paths : Release(p)
      \/ phase = "evict" /\ Evict
      \/ phase = "evict" /\ Evicted
  BY DEF Step, Create, Expel, Missing, Open, OpenLocked, LockFile, UnlockFile, CloseFile, Read,
         Write, Count, Evict, Evicted, AppendBegin, AppendEnd, RemoveFile, Removed, ReadN,
         CloseConnection, Release, Finish, Serving, Finished
<1>4. NewStatus = <<>>
  <2>1. answer' = answer \/ answer' = <<>>
    BY <1>3 DEF Finish, Ready, Release, Evict, Evicted, Silently
  <2> QED BY <1>0, <2>1 DEF NewStatus
<1>5. CASE phase # "evict"
  <2>1. Content(S, torn) = <<>>
    BY <1>3, <1>5 DEF Content
  <2>2. NewStatus \o Content(S, torn) = <<>>
    BY <1>4, <2>1
  <2>3. Owed(c) = 0 /\ Owed(c)' = 0 /\ (req.fd = c => Finished)'
    BY <1>3, <1>5, StoreAssumption
       DEF Owed, Finished, Finish, Ready, Release, Silently, NoRequest
  <2> QED BY <1>1, <1>2, <2>2, <2>3 DEF Growth
<1>6. CASE phase = "evict" /\ Evicted
  <2>1. victims = <<>> /\ Content(S, torn) = <<>>
    BY <1>6 DEF Content, Evicted
  <2>2. NewStatus \o Content(S, torn) = <<>>
    BY <1>4, <2>1
  <2>3. Owed(c) = 0 /\ Owed(c)' = 0 /\ (req.fd = c => Finished)'
    BY <1>6, <2>1 DEF Owed, Finished, Evicted, Silently
  <2> QED BY <1>1, <1>2, <2>2, <2>3 DEF Growth
<1>7. CASE phase = "evict" /\ Evict
  <2>1. victims # <<>>
    BY <1>7 DEF Evict
  <2>2. Content(S, torn) = <<FromFifo>>
    BY <1>7, <2>1 DEF Content
  <2>3. PICK i \in Items : i = FromFifo
    <3>1. req.op \in AllOps
      BY <1>7 DEF StoreTyped, Hand, Asked, AnyRequest
    <3> QED BY <3>1 DEF FromFifo, Item, Items
  <2>4. i.kind \in {"file", "torn"}
    BY <2>3 DEF FromFifo, Item
  <2>5. NewStatus \o Content(S, torn) = <<i>>
    BY <1>4, <2>2, <2>3
  <2>6. /\ Owed(c) = Len(victims) /\ Owed(c)' = Len(Tail(victims))
        /\ (req.fd = c => Finished)'
    BY <1>7 DEF Owed, Finished, Evict
  <2>7. Len(victims) \in Nat \ {0} /\ Len(Tail(victims)) = Len(victims) - 1
    BY <1>0, <2>1
  <2>8. Owed(c) \in Nat /\ Owed(c)' \in Nat /\ Owed(c)' + 1 = Owed(c)
    BY <2>6, <2>7
  <2>9. <<i>> \in Seq(Items) /\ Len(<<i>>) = 1 /\ <<i>>[1] = i
    OBVIOUS
  <2> QED BY <1>2, <2>4, <2>5, <2>6, <2>8, <2>9 DEF Growth
<1> QED BY <1>3, <1>5, <1>6, <1>7

\* What a step of the server sends of a request that has no status yet: nothing,
\* or the status and the items that the call will look for; LOCKS may end with
\* nothing sent.
Answers(c, op, items) ==
    \/ items = <<>> /\ Unanswered' /\ UNCHANGED req /\ phase # "done"
    \/ items = <<>> /\ phase = "done" /\ req' = NoRequest
    \/ /\ items # <<>> /\ UNCHANGED req /\ phase # "done"
       /\ Head(items).kind = "status" /\ Head(items).op = op
       /\ \/ Unread(items) # "none"
          \/ After(c, Follows(op, Head(items).val), 1, Tail(items))'

LEMMA Answering ==
    ASSUME StoreTyped, Step, Unanswered, NEW c \in Clients, req \in Asked(c),
           NEW S \in BucketsSent, NEW torn \in BOOLEAN,
           NEW op, op = req.op, NEW items, items = NewStatus \o Content(S, torn)
    PROVE  Answers(c, op, items)
<1>0. /\ answer = <<>> /\ phase \in {"begun", "expel", "written", "append", "removed", "done"}
      /\ op # "O_CRLK" /\ op \in AllOps /\ req.fd = c /\ req.size \in Nat
      /\ op \notin {"READN", "CLOSECONNECTION"} => req.path \in Paths
  BY DEF Unanswered, Asked, AnyRequest
<1>1. Content(S, torn) \in Seq(Items)
  BY ContentTyped
\* A status s, and what follows it.
<1>2. ASSUME NEW s \in Statuses, NEW next, Reply(s, next), NEW x, x = Content(S, torn)
      PROVE  /\ answer' = <<s>> /\ UNCHANGED <<req, victims>> /\ phase' = next
             /\ items # <<>> /\ Head(items).kind = "status" /\ Head(items).op = op
             /\ Head(items).val = s /\ Tail(items) = x /\ Len(items) = 1 + Len(x)
  <2>1. answer' = <<s>> /\ UNCHANGED <<req, victims>> /\ phase' = next
    BY <1>0, <1>2 DEF Reply
  <2>2. NewStatus = <<Status(s)>>
    BY <1>0, <2>1 DEF NewStatus
  <2>3. PICK i \in Items : i = Status(s)
    BY <1>0 DEF Status, Items
  <2>4. PICK r \in Seq(Items) : r = x
    BY <1>1, <1>2
  <2>5. /\ <<i>> \o r # <<>> /\ Head(<<i>> \o r) = i /\ Tail(<<i>> \o r) = r
        /\ Len(<<i>> \o r) = 1 + Len(r)
    OBVIOUS
  <2>6. items = <<i>> \o r
    BY <1>2, <2>2, <2>3, <2>4
  <2>7. i.kind = "status" /\ i.op = op /\ i.val = s
    BY <2>3 DEF Status
  <2> QED BY <2>1, <2>4, <2>5, <2>6, <2>7
\* A status that nothing follows.
<1>4. ASSUME NEW s \in Statuses, NEW next \in {"done", "closing"}, Reply(s, next),
             Follows(op, s) = "none", phase \notin {"expel", "done"}
      PROVE  Answers(c, op, items)
  <2>1. PICK x : x = Content(S, torn)
    OBVIOUS
  <2>2. /\ answer' = <<s>> /\ UNCHANGED req /\ phase' = next
        /\ items # <<>> /\ Head(items).kind = "status" /\ Head(items).op = op
        /\ Head(items).val = s /\ Tail(items) = x
    BY <1>2, <1>4, <2>1
  <2>3. x = <<>>
    <3>1. answer' = <<"SUCCESS">> => s = "SUCCESS"
      BY <2>2
    <3>2. ~(answer' = <<"SUCCESS">> /\ req.op \in {"READ", "READN"})
      BY <1>4, <3>1 DEF Follows
    <3> QED BY <1>0, <1>4, <2>1, <3>2 DEF Content
  <2>4. After(c, Follows(op, Head(items).val), 1, Tail(items))'
    <3>1. Rest(c, <<>>, 0)'
      BY <2>2 DEF Rest, Owed, Finished
    <3> QED BY <1>4, <2>2, <2>3, <3>1 DEF After
  <2> QED BY <1>4, <2>2, <2>4 DEF Answers
\* Nothing is sent yet.
<1>5. ASSUME NEW next, Silently(next), Unanswered', phase \notin {"expel", "done"}
      PROVE  Answers(c, op, items)
  <2>1. NewStatus = <<>>
    BY <1>0, <1>5 DEF Silently, NewStatus
  <2>2. Content(S, torn) = <<>>
    BY <1>0, <1>5 DEF Content, Silently
  <2>3. items = <<>>
    BY <2>1, <2>2
  <2> QED BY <1>5, <2>3 DEF Answers, Silently
<1> HIDE DEF Answers
<1>6. /\ \A s : op \in {"O_LOCK", "O_OPEN", "LOCKS", "UNLOCKS", "CLOSE", "REMOVE",
                        "CLOSECONNECTION"} => Follows(op, s) = "none"
      /\ \A s : op \notin {"READ", "READN"} /\ s = "SUCCESS" => Follows(op, s) = "none"
      /\ \A s : s \in {"YESCONTAIN", "NOTPRESENT", "NOTOPEN", "NOTPERMISSION", "NOTLOCKED", "EMPTY"}
                => Follows(op, s) = "none"
  BY DEF Follows
<1>7. /\ \A s \in {"SUCCESS", "YESCONTAIN", "NOTPRESENT", "NOTOPEN", "NOTPERMISSION",
                    "NOTLOCKED", "TOMUCHFILE", "SERVERFULL", "EMPTY"} : s \in Statuses
      /\ "done" \in {"done", "closing"} /\ "closing" \in {"done", "closing"}
  BY DEF Statuses
<1>10. Create => Answers(c, op, items)
  <2> SUFFICES ASSUME Create PROVE Answers(c, op, items)
    OBVIOUS
  <2>1. phase = "begun" /\ op = "O_CREATE"
    BY <1>0 DEF Create
  <2>2. Silently("expel") => Unanswered'
    BY <1>0, <2>1 DEF Unanswered, Silently
  <2> QED BY <1>4, <1>5, <1>6, <1>7, <2>1, <2>2 DEF Create
<1>11. ASSUME NEW p \in Paths, Expel(p) PROVE Answers(c, op, items)
  <2>1. phase = "expel" /\ op = "O_CREATE" /\ Reply("TOMUCHFILE", "done")
    BY <1>11 DEF Unanswered, Expel
  <2>2. PICK x : x = Content(S, torn)
    OBVIOUS
  <2>3. PICK i : i = FromFifo
    OBVIOUS
  <2>4. x = <<i>> /\ i.kind \in {"file", "torn"}
    BY <2>1, <2>2, <2>3 DEF Content, FromFifo, Item
  <2>5. /\ answer' = <<"TOMUCHFILE">> /\ UNCHANGED req /\ phase' = "done"
        /\ items # <<>> /\ Head(items).kind = "status" /\ Head(items).op = op
        /\ Head(items).val = "TOMUCHFILE" /\ Tail(items) = x
    BY <1>2, <1>7, <2>1, <2>2
  <2>6. Rest(c, x, 1)'
    <3>1. Len(x) = 1 /\ x[1] = i
      BY <2>4
    <3> QED BY <2>4, <2>5, <3>1 DEF Rest, Owed, Finished
  <2>7. Follows(op, Head(items).val) = "file"
    BY <2>1, <2>5 DEF Follows
  <2>8. After(c, Follows(op, Head(items).val), 1, Tail(items))'
    <3>1. After(c, "file", 1, x)'
      <4>1. 1 > 0
        OBVIOUS
      <4> QED BY <2>6, <4>1, Zenon DEF After
    <3> QED BY <2>5, <2>7, <3>1
  <2> QED BY <2>1, <2>5, <2>8 DEF Answers
<1>12. Missing => Answers(c, op, items)
  BY <1>4, <1>6, <1>7 DEF Missing
<1>13. /\ Open => Answers(c, op, items)
       /\ OpenLocked => Answers(c, op, items)
       /\ UnlockFile => Answers(c, op, items)
       /\ CloseFile => Answers(c, op, items)
       /\ CloseConnection => Answers(c, op, items)
  BY <1>4, <1>6, <1>7 DEF Open, OpenLocked, UnlockFile, CloseFile, CloseConnection, Serving
<1>14. LockFile => Answers(c, op, items)
  <2> SUFFICES ASSUME LockFile PROVE Answers(c, op, items)
    OBVIOUS
  <2>1. phase = "begun" /\ op = "LOCKS"
    BY DEF LockFile, Serving
  <2>2. Silently("done") => Unanswered'
    BY <1>0, <2>1 DEF Unanswered, Silently
  <2> QED BY <1>4, <1>5, <1>6, <1>7, <2>1, <2>2 DEF LockFile
<1>15. Write => Answers(c, op, items)
  <2> SUFFICES ASSUME Write PROVE Answers(c, op, items)
    OBVIOUS
  <2>1. phase = "begun" /\ op = "WRITE"
    BY DEF Write, Serving
  <2>2. Silently("written") => Unanswered'
    BY <1>0, <2>1 DEF Unanswered, Silently
  <2> QED BY <1>4, <1>5, <1>6, <1>7, <2>1, <2>2 DEF Write
<1>16. RemoveFile => Answers(c, op, items)
  <2> SUFFICES ASSUME RemoveFile PROVE Answers(c, op, items)
    OBVIOUS
  <2>1. phase = "begun" /\ op = "REMOVE"
    BY DEF RemoveFile, Serving
  <2>2. Silently("removed") => Unanswered'
    BY <1>0, <2>1 DEF Unanswered, Silently
  <2> QED BY <1>4, <1>5, <1>6, <1>7, <2>1, <2>2 DEF RemoveFile
<1>17. Removed => Answers(c, op, items)
  BY <1>4, <1>6, <1>7 DEF Removed, Unanswered
<1>18. Count => Answers(c, op, items)
  <2> SUFFICES ASSUME Count PROVE Answers(c, op, items)
    OBVIOUS
  <2>1. phase = "written" /\ op = "WRITE"
    BY DEF Count, Unanswered
  <2>2. CASE Reply("SUCCESS", "done")
    BY <1>4, <1>6, <1>7, <2>1, <2>2
  <2>3. CASE Reply("SERVERFULL", "full")
    <3>1. PICK x : x = Content(S, torn)
      OBVIOUS
    <3>2. /\ answer' = <<"SERVERFULL">> /\ UNCHANGED req /\ phase' = "full"
          /\ items # <<>> /\ Head(items).kind = "status" /\ Head(items).op = op
          /\ Head(items).val = "SERVERFULL" /\ Tail(items) = x
      BY <1>2, <1>7, <2>3, <3>1
    <3>3. x = <<>>
      BY <2>1, <3>1 DEF Content
    <3>4. NumberNext(c, x)'
      BY <1>0, <2>1, <3>2, <3>3 DEF NumberNext, Full
    <3>5. Follows(op, Head(items).val) = "number"
      BY <2>1, <3>2 DEF Follows
    <3>6. After(c, Follows(op, Head(items).val), 1, Tail(items))'
      BY <3>2, <3>4, <3>5 DEF After
    <3> QED BY <2>1, <3>2, <3>6 DEF Answers
  <2> QED BY <2>2, <2>3 DEF Count
<1>19. AppendBegin => Answers(c, op, items)
  <2> SUFFICES ASSUME AppendBegin PROVE Answers(c, op, items)
    OBVIOUS
  <2>1. phase = "begun" /\ op = "APPEND"
    BY DEF AppendBegin, Serving
  <2>2. Silently("append") => Unanswered'
    BY <1>0, <2>1 DEF Unanswered, Silently
  <2>3. CASE Reply("SERVERFULL", "full")
    <3>1. PICK x : x = Content(S, torn)
      OBVIOUS
    <3>2. /\ answer' = <<"SERVERFULL">> /\ UNCHANGED req
          /\ items # <<>> /\ Head(items).kind = "status" /\ Head(items).op = op
      BY <1>2, <1>7, <2>3, <3>1
    <3>3. Unread(items) = "append"
      BY <2>1, <3>2 DEF Unread
    <3> QED BY <2>1, <3>2, <3>3 DEF Answers
  <2> QED BY <1>4, <1>5, <1>6, <1>7, <2>1, <2>2, <2>3 DEF AppendBegin
<1>20. AppendEnd => Answers(c, op, items)
  BY <1>4, <1>6, <1>7 DEF AppendEnd, Unanswered
<1>21. Read => Answers(c, op, items)
  <2> SUFFICES ASSUME Read PROVE Answers(c, op, items)
    OBVIOUS
  <2>1. phase = "begun" /\ op = "READ"
    BY DEF Read, Serving
  <2>2. \/ Reply("NOTOPEN", "done") \/ Reply("NOTPERMISSION", "done")
        \/ Reply("SUCCESS", "done")
    <3>1. LET s == CASE file.isopen = 0                -> "NOTOPEN"
                     [] file.isopen = 1 /\ ~Permitted -> "NOTPERMISSION"
                     [] OTHER                       -> "SUCCESS"
          IN  s \in {"NOTOPEN", "NOTPERMISSION", "SUCCESS"}
      BY DEF Read
    <3> QED BY <3>1 DEF Read
  <2>3. CASE Reply("SUCCESS", "done")
    <3>1. PICK x : x = Content(S, torn)
      OBVIOUS
    <3>2. PICK i : i = Sending("body", file, torn)
      OBVIOUS
    <3>3. /\ answer' = <<"SUCCESS">> /\ UNCHANGED req /\ phase' = "done"
          /\ items # <<>> /\ Head(items).kind = "status" /\ Head(items).op = op
          /\ Head(items).val = "SUCCESS" /\ Tail(items) = x
      BY <1>2, <1>7, <2>3, <3>1
    <3>4. x = <<i>> /\ i.kind \in {"body", "torn"}
      BY <2>1, <3>1, <3>2, <3>3 DEF Content, Sending, Item
    <3>5. Rest(c, <<>>, 0)'
      BY <3>3 DEF Rest, Owed, Finished
    <3>6. BodyNext(c, x)'
      BY <3>4, <3>5 DEF BodyNext
    <3>7. Follows(op, Head(items).val) = "body"
      BY <2>1, <3>3 DEF Follows
    <3>8. After(c, Follows(op, Head(items).val), 1, Tail(items))'
      BY <3>3, <3>6, <3>7 DEF After
    <3> QED BY <2>1, <3>3, <3>8 DEF Answers
  <2> QED BY <1>4, <1>6, <1>7, <2>1, <2>2, <2>3
<1>22. ReadN => Answers(c, op, items)
  <2> SUFFICES ASSUME ReadN PROVE Answers(c, op, items)
    OBVIOUS
  <2>1. phase = "begun" /\ op = "READN"
    BY DEF ReadN
  <2>2. CASE Reply("SUCCESS", "done")
    <3>1. PICK x : x = Content(S, torn)
      OBVIOUS
    <3>2. /\ answer' = <<"SUCCESS">> /\ UNCHANGED req /\ phase' = "done"
          /\ items # <<>> /\ Head(items).kind = "status" /\ Head(items).op = op
          /\ Head(items).val = "SUCCESS" /\ Tail(items) = x /\ Len(items) = 1 + Len(x)
      BY <1>2, <1>7, <2>2, <3>1
    <3>3. x = Download(S, torn)
      BY <2>1, <3>1, <3>2 DEF Content
    <3>4. PICK n \in Nat, a \in Nat : n = Cardinality(S) /\ a = Announced /\ n >= a
      BY <1>0, Listed, AnnouncedNat DEF BucketsSent
    <3>5. /\ Len(x) = 1 + n /\ Head(x) = Item("number", Announced) /\ x \in Seq(Items)
          /\ Tail(x) \in Seq(Items) /\ Len(Tail(x)) = n
          /\ \A i \in 1 .. n : \E g \in StoredFile : Tail(x)[i] = Sending("file", g, torn)
      BY <1>0, <3>3, <3>4, DownloadTyped DEF BucketsSent
    <3>6. CASE n > a
      <4>1. Unread(items) = "buckets"
        BY <2>1, <3>2, <3>4, <3>5, <3>6 DEF Unread
      <4> QED BY <2>1, <3>2, <4>1 DEF Answers
    <3>7. CASE n = a
      <4>1. x # <<>> /\ Head(x).kind = "number" /\ Head(x).val = n
        BY <3>4, <3>5, <3>7 DEF Item
      <4>2. \A i \in 1 .. Len(Tail(x)) : Tail(x)[i].kind \in {"file", "torn"}
        <5> SUFFICES ASSUME NEW i \in 1 .. n PROVE Tail(x)[i].kind \in {"file", "torn"}
          BY <3>5
        <5>1. PICK g \in StoredFile : Tail(x)[i] = Sending("file", g, torn)
          BY <3>5
        <5>2. Sending("file", g, torn).kind \in {"file", "torn"}
          BY DEF Sending, Item
        <5> QED BY <5>1, <5>2
      <4>3. Rest(c, Tail(x), n)'
        <5>1. Owed(c)' = 0 /\ Finished'
          BY <3>2 DEF Owed, Finished
        <5>2. PICK y : y = Tail(x)
          OBVIOUS
        <5>3. Len(y) + 0 = n
          BY <3>4, <3>5, <5>2
        <5>4. \A i \in 1 .. Len(y) : y[i].kind \in {"file", "torn"}
          BY <4>2, <5>2
        <5>5. Rest(c, y, n)'
          BY <5>1, <5>3, <5>4 DEF Rest
        <5> QED BY <5>2, <5>5
      <4>4. NumberNext(c, x)'
        BY <4>1, <4>3 DEF NumberNext
      <4>5. Follows(op, Head(items).val) = "number"
        BY <2>1, <3>2 DEF Follows
      <4>6. After(c, Follows(op, Head(items).val), 1, Tail(items))'
        BY <3>2, <4>4, <4>5 DEF After
      <4> QED BY <2>1, <3>2, <4>6 DEF Answers
    <3> QED BY <3>4, <3>6, <3>7
  <2> QED BY <1>4, <1>6, <1>7, <2>1, <2>2 DEF ReadN
<1>23. Finish => Answers(c, op, items)
  <2> SUFFICES ASSUME Finish PROVE Answers(c, op, items)
    OBVIOUS
  <2>1. phase = "done" /\ Ready
    BY <1>0 DEF Finish
  <2>2. NewStatus = <<>>
    BY <1>0, <2>1 DEF NewStatus, Ready
  <2>3. Content(S, torn) = <<>>
    BY <2>1 DEF Content
  <2> QED BY <2>1, <2>2, <2>3 DEF Answers, Ready
<1>24. ~Evict /\ ~Evicted /\ \A p \in Paths : ~Release(p)
  BY <1>0 DEF Evict, Evicted, Release
<1> QED BY <1>10, <1>11, <1>12, <1>13, <1>14, <1>15, <1>16, <1>17, <1>18, <1>19, <1>20, <1>21,
           <1>22, <1>23, <1>24 DEF Step

LEMMA ServeOrder == ASSUME Typed, Order, Serve PROVE Order'
<1> SUFFICES ASSUME NEW d \in Clients PROVE InOrder(d)'
  BY DEF Order
<1>0. /\ Step /\ StoreTyped /\ phase # "idle" /\ outbox = <<>>
      /\ UNCHANGED <<sock, conn, call, fault>>
  BY StepTyped DEF Serve, Live, Typed
<1>1. PICK c \in Clients : req \in Asked(c)
  BY <1>0 DEF StoreTyped, Hand
<1>2. req.fd = c /\ c # NONE
  BY <1>1, StoreAssumption DEF Asked
<1>3. PICK S \in BucketsSent, torn \in BOOLEAN :
         /\ outbox' = NewStatus \o Content(S, torn)
         /\ cause' = [cause EXCEPT ![c] = Unread(NewStatus \o Content(S, torn))]
  BY <1>2 DEF Serve
<1>4. PICK items \in Seq(Items) : items = NewStatus \o Content(S, torn)
  <2>1. PICK a \in Seq(Items), b \in Seq(Items) : a = NewStatus /\ b = Content(S, torn)
    BY <1>0, ContentTyped
  <2>2. a \o b \in Seq(Items)
    OBVIOUS
  <2> QED BY <2>1, <2>2
<1>5. sent' = IF phase = "done" /\ answer = <<>> THEN [sent EXCEPT ![c] = <<req>> \o @] ELSE sent
  BY <1>2 DEF Serve
<1>6. UNCHANGED req \/ Ready
  BY <1>0 DEF Step, Create, Expel, Missing, Open, OpenLocked, LockFile, UnlockFile, CloseFile,
       Read, Write, Count, Evict, Evicted, AppendBegin, AppendEnd, RemoveFile, Removed, ReadN,
       CloseConnection, Release, Finish, Reply, Silently
<1>7. CASE d # c
  <2>1. req.fd # d /\ req'.fd # d
    BY <1>2, <1>6, <1>7, StoreAssumption DEF Ready, NoRequest
  <2>2. sent'[d] = sent[d] /\ cause'[d] = cause[d]
    BY <1>3, <1>5, <1>7 DEF Typed, SocketTyped
  <2> QED BY <1>0, <2>1, <2>2, Elsewhere
<1>8. CASE d = c
  <2> SUFFICES ASSUME fault' = "none", conn'[c] # "ended", cause'[c] = "none"
               PROVE  Ordered(c, Coming(c), sent[c], call[c])'
    BY <1>8 DEF InOrder
  <2>1. Unread(items) = "none" /\ cause[c] = "none"
    BY <1>2, <1>3, <1>4 DEF Unread, Typed, SocketTyped
  <2>2. PICK s \in Seq(Items), q \in Seq(Asked(c)), k \in Call :
              s = sock[c] /\ q = sent[c] /\ k = call[c]
    BY DEF Typed, SocketTyped
  <2>3. Coming(c) = s
    BY <1>0, <2>2 DEF Coming
  <2>4. Ordered(c, s, q, k)
    BY <1>0, <2>1, <2>2, <2>3 DEF Order, InOrder
  <2>5. Coming(c)' = s \o (IF req'.fd = c THEN items ELSE <<>>)
    BY <1>0, <1>3, <1>4, <2>2 DEF Coming
  <2>6. call'[c] = k
    BY <1>0, <2>2
  <2>7. CASE Finished
    <3>1. Growth(c, items)
      BY <1>0, <1>2, <1>4, <2>7, FinishedGrows
    <3>2. sent'[c] = q
      BY <1>5, <2>2, <2>7 DEF Finished
    <3>3. Coming(c)' = s \o items
      <4>1. CASE Ready
        <5>1. req'.fd # c
          BY <1>2, <4>1 DEF Ready, NoRequest
        <5>2. phase' = "idle"
          BY <4>1 DEF Ready
        <5>3. outbox' = <<>>
          BY <5>2, ServeTyped DEF Idle, Typed
        <5> QED BY <1>3, <1>4, <2>5, <5>1, <5>3
      <4>2. CASE UNCHANGED req
        BY <1>2, <2>5, <4>2
      <4> QED BY <1>6, <4>1, <4>2
    <3>4. ~Unanswered
      BY <2>7 DEF Finished, Unanswered
    <3>5. Ordered(c, s \o items, q, k)'
      BY <2>4, <3>1, <3>4, OrderGrown
    <3> QED BY <2>6, <3>2, <3>3, <3>5
  <2>8. CASE Unanswered
    <3>1. PICK op : op = req.op
      OBVIOUS
    <3>2. Answers(c, op, items)
      BY <1>0, <1>1, <1>4, <2>8, <3>1, Answering
    <3>3. ~Finished /\ ~Full
      BY <2>8 DEF Finished, Full, Unanswered
    <3>4. /\ k.phase = "status" /\ s = <<>> /\ q = <<>> /\ k.op = op
      BY <1>2, <2>4, <3>1, <3>3
         DEF Ordered, Waiting, Answered, After, NumberNext, BodyNext, Rest
    <3>5. <<>> \o items = items
      OBVIOUS
    <3>6. CASE items = <<>> /\ Unanswered' /\ UNCHANGED req /\ phase # "done"
      <4>1. Coming(c)' = <<>> /\ sent'[c] = <<>>
        BY <1>2, <1>5, <2>2, <2>5, <3>4, <3>5, <3>6
      <4> QED BY <1>2, <2>6, <3>1, <3>4, <3>6, <4>1 DEF Ordered, Waiting
    <3>7. CASE items = <<>> /\ phase = "done" /\ req' = NoRequest
      <4>1. Coming(c)' = <<>> /\ req'.fd # c
        BY <1>2, <2>5, <3>4, <3>7 DEF NoRequest
      <4>2. sent'[c] = <<req>> \o <<>>
        BY <1>5, <2>2, <2>8, <3>4, <3>7 DEF Unanswered, Typed, SocketTyped
      <4>3. Len(sent'[c]) = 1 /\ sent'[c][1] = req
        <5>1. <<req>> \in Seq(Asked(c)) /\ <<req>> \o <<>> = <<req>>
          BY <1>1
        <5> QED BY <4>2, <5>1
      <4>4. Rest(c, <<>>, 0)'
        BY <4>1 DEF Rest, Owed
      <4> QED BY <2>6, <3>1, <3>4, <4>1, <4>3, <4>4 DEF Ordered, Waiting
    <3>8. CASE /\ items # <<>> /\ UNCHANGED req /\ phase # "done"
               /\ Head(items).kind = "status" /\ Head(items).op = op
               /\ After(c, Follows(op, Head(items).val), 1, Tail(items))'
      <4>1. Coming(c)' = items /\ sent'[c] = <<>>
        BY <1>2, <1>5, <2>2, <2>5, <3>4, <3>5, <3>8
      <4>2. Ordered(c, items, <<>>, k)'
        BY <3>4, <3>8 DEF Ordered, Answered
      <4> QED BY <2>6, <4>1, <4>2
    <3> QED BY <2>1, <3>2, <3>6, <3>7, <3>8 DEF Answers
  <2>9. CASE Full
    BY <1>0, <2>9 DEF Full, Step, Create, Expel, Missing, Open, OpenLocked, LockFile, UnlockFile,
         CloseFile, Read, Write, Count, Evict, Evicted, AppendBegin, AppendEnd, RemoveFile,
         Removed, ReadN, CloseConnection, Release, Finish, Serving
  <2> QED BY <1>2, <2>4, <2>7, <2>8, <2>9, Holding
<1> QED BY <1>7, <1>8

LEMMA OrderNext == ASSUME Typed, Order, [Next]_vars PROVE Order'
<1>1. CASE UNCHANGED vars
  <2> SUFFICES ASSUME NEW d \in Clients PROVE InOrder(d)'
    BY DEF Order
  <2> QED BY <1>1, Untouched DEF vars, apivars, svars
<1>2. CASE ServerStep /\ UNCHANGED prog
  <2>1. CASE ServerStart \/ ServerGone
    <3> SUFFICES ASSUME NEW d \in Clients PROVE InOrder(d)'
      BY DEF Order
    <3> QED BY <2>1, Untouched DEF ServerStart, ServerGone, svars
  <2> QED BY <1>2, <2>1, ServeOrder, ServeFullOrder, PushOrder DEF ServerStep
<1>3. ASSUME NEW c \in Clients, Take(c) \/ ApiStep(c) PROVE Order'
  BY <1>3, TakeOrder, ConnectOrder, ReadsOrder DEF ApiStep
<1>4. ASSUME NEW c \in Clients, Main(c) PROVE Order'
  <2>1. CallStep(c) /\ Free(c)
    BY <1>4, MainStep DEF ProgStep, Typed
  <2> QED BY <2>1, CallOrder
<1> QED BY <1>1, <1>2, <1>3, <1>4 DEF Next

\* The answers and the requests of a client stay in step until one of the three
\* causes puts them out of step, whatever the command lines of all the clients,
\* the files that go to make room, the size of the socket and the moment at
\* which the server or another client ends.
THEOREM KeptInStep == Spec => []InStep
<1>1. Init => Typed /\ Order
  BY InitTyped, InitOrder
<1>2. Typed /\ Order /\ [Next]_vars => (Typed /\ Order)'
  BY TypedNext, OrderNext
<1>3. Typed /\ Order => InStep
  BY OrderIsInStep
<1> QED BY <1>1, <1>2, <1>3, PTL DEF Spec

-----------------------------------------------------------------------------
(* The faults *)

\* A connection fails only at the deadline. The buffer of letturaFiles() has been
\* freed only where a file of -r -d has been saved before the ones that are left.
Failed(c) == conn[c] = "failed" => now[c] = Deadline
Buffer(g) ==
    /\ g.at = "option" => g.buf # "freed"
    /\ g.opts # <<>> /\ Head(g.opts).opt = "r" /\ g.at # "option" =>
          Len(g.files) <= Len(Head(g.opts).args)
    /\ g.buf = "freed" => /\ g.cmd.d = "dir" /\ g.opts # <<>> /\ Head(g.opts).opt = "r"
                          /\ Len(g.files) < Len(Head(g.opts).args)
Sound == \A c \in Clients : Failed(c) /\ Buffer(prog[c])

LEMMA InitSound == ASSUME Init PROVE Sound /\ FaultsKnown
<1>1. FaultsKnown
  BY DEF Init, ApiInit, FaultsKnown
<1>2. PICK s \in Scripts : prog = [c \in Clients |-> Program(s[c])]
  BY DEF Init
<1>3. ASSUME NEW c \in Clients PROVE Buffer(prog[c])
  BY <1>2 DEF Program, Buffer
<1>4. ASSUME NEW c \in Clients PROVE Failed(c)
  BY DEF Init, ApiInit, Failed
<1> QED BY <1>1, <1>3, <1>4 DEF Sound

LEMMA Buffers ==
    ASSUME NEW f \in Programs, Buffer(f)
    PROVE  /\ \A at \in Labels \ {"option"} : f.at # "option" => Buffer([f EXCEPT !.at = at])
           /\ f.at # "option" /\ f.files # <<>> =>
                 /\ Buffer([f EXCEPT !.at = "open", !.files = Tail(@)])
                 /\ \A r : Buffer([f EXCEPT !.at = "open", !.result2 = r, !.files = Tail(@)])
                 /\ f.cmd.d = "dir" /\ f.opts # <<>> /\ Head(f.opts).opt = "r" =>
                       Buffer([f EXCEPT !.at = "open", !.files = Tail(@), !.buf = "freed"])
           /\ Buffer([f EXCEPT !.at = "option", !.opts = Tail(@), !.files = <<>>,
                              !.result2 = 0, !.buf = "none"])
           /\ f.at # "option" => Buffer([f EXCEPT !.at = "got", !.result2 = 1, !.buf = "held"])
<1>1. f.files \in Seq(Paths) /\ Len(f.files) \in Nat
  BY DEF Programs
<1>2. f.files # <<>> => Len(Tail(f.files)) \in Nat /\ Len(f.files) = Len(Tail(f.files)) + 1
  BY <1>1
<1>3. f.opts # <<>> => Len(Head(f.opts).args) \in Nat
  <2>1. f.opts # <<>> => Head(f.opts) \in Option
    BY DEF Programs
  <2> QED BY <2>1 DEF Option
<1>4. ASSUME NEW g, g.cmd = f.cmd, g.opts = f.opts, g.buf = f.buf, g.at # "option",
             f.at # "option",
             g.files = f.files \/ (f.files # <<>> /\ g.files = Tail(f.files))
      PROVE  Buffer(g)
  <2>1. Len(g.files) \in Nat /\ Len(g.files) <= Len(f.files)
    <3>1. CASE g.files = f.files
      BY <1>1, <3>1
    <3>2. CASE f.files # <<>> /\ g.files = Tail(f.files)
      BY <1>1, <1>2, <3>2
    <3> QED BY <1>4, <3>1, <3>2
  <2>2. ASSUME g.opts # <<>>, Head(g.opts).opt = "r"
        PROVE  Len(g.files) <= Len(Head(g.opts).args)
    <3>1. Len(f.files) <= Len(Head(f.opts).args)
      BY <1>4, <2>2 DEF Buffer
    <3>2. Len(Head(f.opts).args) \in Nat /\ g.opts = f.opts
      BY <1>3, <1>4, <2>2
    <3> QED BY <1>1, <2>1, <3>1, <3>2
  <2>3. ASSUME g.buf = "freed"
        PROVE  /\ g.cmd.d = "dir" /\ g.opts # <<>> /\ Head(g.opts).opt = "r"
               /\ Len(g.files) < Len(Head(g.opts).args)
    <3>1. /\ f.cmd.d = "dir" /\ f.opts # <<>> /\ Head(f.opts).opt = "r"
          /\ Len(f.files) < Len(Head(f.opts).args)
      BY <1>4, <2>3 DEF Buffer
    <3>2. Len(Head(f.opts).args) \in Nat /\ g.opts = f.opts
      BY <1>3, <1>4, <3>1
    <3>3. Len(g.files) < Len(Head(g.opts).args)
      BY <1>1, <2>1, <3>1, <3>2
    <3> QED BY <1>4, <3>1, <3>3
  <2> QED BY <1>4, <2>2, <2>3 DEF Buffer
<1>5. ASSUME NEW at \in Labels \ {"option"}, f.at # "option"
      PROVE  Buffer([f EXCEPT !.at = at])
  <2>1. PICK g : g = [f EXCEPT !.at = at]
    OBVIOUS
  <2>2. /\ g.cmd = f.cmd /\ g.opts = f.opts /\ g.buf = f.buf /\ g.at # "option"
        /\ g.files = f.files
    BY <2>1 DEF Programs
  <2> QED BY <1>4, <1>5, <2>1, <2>2
<1>6. ASSUME f.at # "option", f.files # <<>>
      PROVE  Buffer([f EXCEPT !.at = "open", !.files = Tail(@)])
  <2>1. PICK g : g = [f EXCEPT !.at = "open", !.files = Tail(@)]
    OBVIOUS
  <2>2. /\ g.cmd = f.cmd /\ g.opts = f.opts /\ g.buf = f.buf /\ g.at # "option"
        /\ g.files = Tail(f.files)
    BY <2>1 DEF Programs
  <2> QED BY <1>4, <1>6, <2>1, <2>2
<1>7. ASSUME NEW r, f.at # "option", f.files # <<>>
      PROVE  Buffer([f EXCEPT !.at = "open", !.result2 = r, !.files = Tail(@)])
  <2>1. PICK g : g = [f EXCEPT !.at = "open", !.result2 = r, !.files = Tail(@)]
    OBVIOUS
  <2>2. /\ g.cmd = f.cmd /\ g.opts = f.opts /\ g.buf = f.buf /\ g.at # "option"
        /\ g.files = Tail(f.files)
    BY <2>1 DEF Programs
  <2> QED BY <1>4, <1>7, <2>1, <2>2
<1>8. ASSUME f.at # "option", f.files # <<>>, f.cmd.d = "dir", f.opts # <<>>,
             Head(f.opts).opt = "r"
      PROVE  Buffer([f EXCEPT !.at = "open", !.files = Tail(@), !.buf = "freed"])
  <2>1. PICK g : g = [f EXCEPT !.at = "open", !.files = Tail(@), !.buf = "freed"]
    OBVIOUS
  <2>2. /\ g.cmd = f.cmd /\ g.opts = f.opts /\ g.at = "open" /\ g.files = Tail(f.files)
    BY <2>1 DEF Programs
  <2>3. Len(f.files) <= Len(Head(f.opts).args)
    BY <1>8 DEF Buffer
  <2>4. Len(g.files) < Len(Head(g.opts).args) /\ Len(g.files) <= Len(Head(g.opts).args)
    BY <1>1, <1>2, <1>3, <1>8, <2>2, <2>3
  <2> QED BY <1>8, <2>1, <2>2, <2>4 DEF Buffer
<1>9. Buffer([f EXCEPT !.at = "option", !.opts = Tail(@), !.files = <<>>,
                       !.result2 = 0, !.buf = "none"])
  <2>1. PICK g : g = [f EXCEPT !.at = "option", !.opts = Tail(@), !.files = <<>>,
                               !.result2 = 0, !.buf = "none"]
    OBVIOUS
  <2>2. g.at = "option" /\ g.buf = "none"
    BY <2>1 DEF Programs
  <2> QED BY <2>1, <2>2 DEF Buffer
<1>10. ASSUME f.at # "option" PROVE Buffer([f EXCEPT !.at = "got", !.result2 = 1, !.buf = "held"])
  <2>1. PICK g : g = [f EXCEPT !.at = "got", !.result2 = 1, !.buf = "held"]
    OBVIOUS
  <2>2. g.opts = f.opts /\ g.at = "got" /\ g.buf = "held" /\ g.files = f.files
    BY <2>1 DEF Programs
  <2> QED BY <1>10, <2>1, <2>2 DEF Buffer
<1> QED BY <1>5, <1>6, <1>7, <1>8, <1>9, <1>10

\* A step of the program keeps its buffer in order.
Moved(c) == UNCHANGED prog \/ \E g : Now(c, g) /\ Buffer(g)

LEMMA MainBuffer ==
    ASSUME Typed, Sound, NEW c \in Clients, Main(c)
    PROVE  Moved(c)
<1>1. PICK f \in Programs : f = prog[c] /\ Buffer(f)
  BY DEF Sound, Typed, ProgTyped
<1>2. \A g : Now(c, g) /\ Buffer(g) => Moved(c)
  BY DEF Moved
<1>3. UNCHANGED prog => Moved(c)
  BY DEF Moved
<1>4. \A at \in Labels \ {"option"} : f.at # "option" /\ Goto(c, at) => Moved(c)
  BY <1>1, <1>2, Buffers DEF Goto
<1>5. f.at # "option" /\ f.files # <<>> /\ NextFile(c) => Moved(c)
  BY <1>1, <1>2, Buffers DEF NextFile
<1>6. NextOption(c) => Moved(c)
  BY <1>1, <1>2, Buffers DEF NextOption
<1>7. /\ "open" \in Labels \ {"option"} /\ "opened" \in Labels \ {"option"}
      /\ "used" \in Labels \ {"option"} /\ "got" \in Labels \ {"option"}
      /\ "walk" \in Labels \ {"option"} /\ "ended" \in Labels \ {"option"}
  BY DEF Labels
<1>10. GiveUp(c) \/ ParseBreaks(c) \/ Return(c) => Moved(c)
  BY <1>3 DEF GiveUp, ParseBreaks, Return, Stop, Breaks
<1>11. BeginFiles(c) => Moved(c)
  <2> SUFFICES ASSUME BeginFiles(c) PROVE Moved(c)
    OBVIOUS
  <2>1. PICK g : g = [f EXCEPT !.at = "open", !.files = Head(f.opts).args]
    OBVIOUS
  <2>2. /\ g.opts = f.opts /\ g.files = Head(f.opts).args /\ g.buf = f.buf /\ f.at = "option"
        /\ f.opts # <<>> /\ Now(c, g)
    BY <1>1, <2>1 DEF BeginFiles, At, Programs
  <2>3. Len(g.files) <= Len(Head(g.opts).args)
    <3>1. Head(f.opts).args \in Seq(Paths)
      BY <1>1, <2>2, InProgram DEF Typed
    <3>2. Len(Head(f.opts).args) \in Nat
      BY <3>1
    <3> QED BY <2>2, <3>2
  <2>4. g.buf # "freed" /\ g.at = "open"
    BY <1>1, <2>1, <2>2 DEF Buffer, Programs
  <2>5. Buffer(g)
    BY <2>3, <2>4 DEF Buffer
  <2> QED BY <1>2, <2>2, <2>5

<1>12. ASSUME NEW g, g.opts = f.opts, g.buf = f.buf, g.at # "option", f.opts # <<>>,
              Head(f.opts).opt # "r"
       PROVE  Buffer(g)
  BY <1>1, <1>12 DEF Buffer
<1>13. BeginAppend(c) => Moved(c)
  <2> SUFFICES ASSUME BeginAppend(c) PROVE Moved(c)
    OBVIOUS
  <2>1. f.opts # <<>> /\ Head(f.opts).opt = "a"
    BY <1>1 DEF BeginAppend, At, opt
  <2>2. ASSUME NEW p, Now(c, [f EXCEPT !.at = "open", !.files = <<p>>]) PROVE Moved(c)
    <3>1. PICK g : g = [f EXCEPT !.at = "open", !.files = <<p>>]
      OBVIOUS
    <3>2. g.opts = f.opts /\ g.buf = f.buf /\ g.at = "open"
      BY <3>1 DEF Programs
    <3>3. Buffer(g)
      BY <1>12, <2>1, <3>2
    <3> QED BY <1>2, <2>2, <3>1, <3>3
  <2>3. Breaks("wild") => Moved(c)
    BY <1>3 DEF Breaks
  <2> QED BY <1>1, <1>6, <2>2, <2>3 DEF BeginAppend
<1>14. BeginWalk(c) => Moved(c)
  <2> SUFFICES ASSUME BeginWalk(c) PROVE Moved(c)
    OBVIOUS
  <2>1. f.opts # <<>> /\ Head(f.opts).opt = "w"
    BY <1>1 DEF BeginWalk, At, opt
  <2>2. ASSUME NEW w, NEW n,
               Now(c, [f EXCEPT !.at = "walk", !.walk = w, !.nvisit = n, !.offered = <<>>])
        PROVE  Moved(c)
    <3>1. PICK g : g = [f EXCEPT !.at = "walk", !.walk = w, !.nvisit = n, !.offered = <<>>]
      OBVIOUS
    <3>2. g.opts = f.opts /\ g.buf = f.buf /\ g.at = "walk"
      BY <3>1 DEF Programs
    <3>3. Buffer(g)
      BY <1>12, <2>1, <3>2
    <3> QED BY <1>2, <2>2, <3>1, <3>3
  <2>3. Stop(c) => Moved(c)
    BY <1>3 DEF Stop
  <2> QED BY <1>1, <2>2, <2>3 DEF BeginWalk
<1>15. visitaDir(c) => Moved(c)
  <2> SUFFICES ASSUME visitaDir(c) PROVE Moved(c)
    OBVIOUS
  <2>1. f.opts # <<>> /\ Head(f.opts).opt = "w" /\ f.at = "walk"
    BY <1>1 DEF visitaDir, At, opt
  <2>2. ASSUME NEW w, Now(c, [f EXCEPT !.walk = w]) PROVE Moved(c)
    <3>1. PICK g : g = [f EXCEPT !.walk = w]
      OBVIOUS
    <3>2. g.opts = f.opts /\ g.buf = f.buf /\ g.at = "walk"
      BY <2>1, <3>1 DEF Programs
    <3>3. Buffer(g)
      BY <1>12, <2>1, <3>2
    <3> QED BY <1>2, <2>2, <3>1, <3>3
  <2>3. ASSUME NEW w, NEW e,
               Now(c, [f EXCEPT !.walk = w, !.nvisit = @ - 1, !.files = <<e>>,
                                !.at = "open", !.offered = Append(@, e)])
        PROVE  Moved(c)
    <3>1. PICK g : g = [f EXCEPT !.walk = w, !.nvisit = @ - 1, !.files = <<e>>,
                                 !.at = "open", !.offered = Append(@, e)]
      OBVIOUS
    <3>2. g.opts = f.opts /\ g.buf = f.buf /\ g.at = "open"
      BY <3>1 DEF Programs
    <3>3. Buffer(g)
      BY <1>12, <2>1, <3>2
    <3> QED BY <1>2, <2>3, <3>1, <3>3
  <2> QED BY <1>1, <1>6, <2>2, <2>3 DEF visitaDir
<1>16. EndFiles(c) => Moved(c)
  BY <1>1, <1>4, <1>6, <1>7 DEF EndFiles, At
<1>17. CreateWrite(c) => Moved(c)
  BY <1>1, <1>4, <1>5, <1>7 DEF CreateWrite, AtFile, At
<1>18. append(c) => Moved(c)
  BY <1>1, <1>4, <1>5, <1>7 DEF append, AtFile, At
<1>19. LockFiles(c) => Moved(c)
  BY <1>1, <1>4, <1>5, <1>7 DEF LockFiles, AtFile, At
<1>20. RemoveFiles(c) \/ letturaRandom(c) => Moved(c)
  BY <1>1, <1>5, <1>6, <1>7 DEF RemoveFiles, letturaRandom, AtFile, At
<1>21. letturaFiles(c) => Moved(c)
  <2> SUFFICES ASSUME letturaFiles(c) PROVE Moved(c)
    OBVIOUS
  <2>1. f.files # <<>> /\ f.at # "option"
    BY <1>1 DEF letturaFiles, AtFile, At
  <2>2. Now(c, [f EXCEPT !.at = "got", !.result2 = 1, !.buf = "held"]) => Moved(c)
    BY <1>1, <1>2, <2>1, Buffers
  <2>3. Now(c, [f EXCEPT !.at = "open", !.result2 = -1, !.files = Tail(@)]) => Moved(c)
    BY <1>1, <1>2, <2>1, Buffers
  <2> QED BY <1>1, <1>4, <1>5, <1>7, <2>1, <2>2, <2>3 DEF letturaFiles
<1>22. saveFile(c) => Moved(c)
  <2> SUFFICES ASSUME saveFile(c) PROVE Moved(c)
    OBVIOUS
  <2>1. /\ f.files # <<>> /\ f.at # "option" /\ f.opts # <<>>
        /\ Head(f.opts).opt = "r"
    BY <1>1 DEF saveFile, AtFile, At, opt
  <2>2. ASSUME f.cmd.d = "dir",
               Now(c, [f EXCEPT !.at = "open", !.files = Tail(@), !.buf = "freed"])
        PROVE  Moved(c)
    BY <1>1, <1>2, <2>1, <2>2, Buffers
  <2>3. Breaks("freed") => Moved(c)
    BY <1>3 DEF Breaks
  <2> QED BY <1>1, <1>5, <1>6, <2>1, <2>2, <2>3 DEF saveFile
<1>23. CloseDown(c) => Moved(c)
  <2> SUFFICES ASSUME CloseDown(c) PROVE Moved(c)
    OBVIOUS
  <2>1. PICK g : g = [f EXCEPT !.at = "ended"]
    OBVIOUS
  <2>2. g.opts = <<>> /\ g.buf = f.buf /\ f.at = "option" /\ Now(c, g) /\ g.at = "ended"
    BY <1>1, <2>1 DEF CloseDown, Goto, Programs
  <2>3. Buffer(g)
    BY <1>1, <2>2 DEF Buffer
  <2> QED BY <1>2, <2>2, <2>3
<1> QED BY <1>10, <1>11, <1>13, <1>14, <1>15, <1>16, <1>17, <1>18, <1>19, <1>20, <1>21,
           <1>22, <1>23 DEF Main

LEMMA BufferNext ==
    ASSUME Typed, Sound, [Next]_vars, NEW d \in Clients
    PROVE  Buffer(prog[d])'
<1>1. Buffer(prog[d])
  BY DEF Sound
<1>2. CASE UNCHANGED prog
  BY <1>1, <1>2 DEF Buffer
<1>3. ASSUME NEW c \in Clients, Main(c) PROVE Buffer(prog[d])'
  <2>1. Moved(c)
    BY <1>3, MainBuffer
  <2>2. ASSUME NEW g, Now(c, g), Buffer(g) PROVE Buffer(prog[d])'
    <3>1. prog' = [prog EXCEPT ![c] = g] /\ prog \in [Clients -> Programs]
      BY <2>2 DEF Now, Typed, ProgTyped
    <3>2. prog'[d] = g \/ prog'[d] = prog[d]
      BY <3>1
    <3>3. ASSUME prog'[d] = g PROVE Buffer(prog[d])'
      BY <2>2, <3>3 DEF Buffer
    <3>4. ASSUME prog'[d] = prog[d] PROVE Buffer(prog[d])'
      BY <1>1, <3>4 DEF Buffer
    <3> QED BY <3>2, <3>3, <3>4
  <2> QED BY <1>2, <2>1, <2>2 DEF Moved
<1> QED BY <1>2, <1>3 DEF Next, vars

LEMMA FailedNext ==
    ASSUME Typed, Sound, [Next]_vars, NEW d \in Clients
    PROVE  Failed(d)'
<1>1. /\ Failed(d) /\ now[d] \in 0 .. Deadline /\ Deadline \in Nat
      /\ conn \in [Clients -> {"none", "up", "failed", "ended"}]
      /\ now \in [Clients -> 0 .. Deadline]
  BY ApiAssumption DEF Sound, Typed, SocketTyped
<1>2. CASE UNCHANGED <<conn, now>>
  BY <1>1, <1>2 DEF Failed
<1>3. ASSUME NEW c \in Clients, Exit(c), UNCHANGED now PROVE Failed(d)'
  BY <1>1, <1>3 DEF Exit, Failed
<1>4. ASSUME NEW c \in Clients, openConnection(c) PROVE Failed(d)'
  BY <1>1, <1>4 DEF openConnection, Failed
<1>5. ASSUME NEW c \in Clients, Reads(c) PROVE Failed(d)'
  <2>1. UNCHANGED <<conn, now>> \/ (Exit(c) /\ UNCHANGED now)
    BY <1>5 DEF Reads, readStatus, readNumber, readAFile, readBody, Garbled, EndOfFile, Consumed
  <2> QED BY <1>2, <1>3, <2>1
<1>6. ASSUME NEW c \in Clients, Main(c) PROVE Failed(d)'
  <2>1. CallStep(c)
    BY <1>6, MainStep DEF ProgStep, Typed
  <2>2. UNCHANGED <<conn, now>> \/ (Exit(c) /\ UNCHANGED now)
    BY <2>1 DEF CallStep, Sends, Request, Refused, Leaves, Fails, apivars
  <2> QED BY <1>2, <1>3, <2>2
<1>7. ServerStep \/ (\E c \in Clients : Take(c)) => UNCHANGED <<conn, now>>
  BY DEF ServerStep, ServerStart, ServerGone, Serve, ServeFull, Push, Take
<1> QED BY <1>2, <1>4, <1>5, <1>6, <1>7 DEF Next, vars, apivars, ApiStep

\* Only three actions of the program break it by themselves.
LEMMA CallsLast ==
    ASSUME NEW c \in Clients, fault = "none"
    PROVE  /\ \A op, p, n, d : Request(c, op, p, n, d) => fault' \in {"none", "uninit"}
           /\ \A flag, p : openFile(c, flag, p) => fault' \in {"none", "uninit"}
           /\ \A p, d : writeFile(c, p, d) => fault' \in {"none", "uninit"}
<1>1. ASSUME NEW op, NEW p, NEW n, NEW d, Request(c, op, p, n, d)
      PROVE  fault' \in {"none", "uninit"}
  BY <1>1 DEF Request
<1>2. Refused(c) => fault' \in {"none", "uninit"}
  BY DEF Refused
<1> QED BY <1>1, <1>2 DEF openFile, writeFile

LEMMA Breaking ==
    ASSUME NEW c \in Clients, fault = "none", Main(c), fault' \notin {"none", "uninit"}
    PROVE  ParseBreaks(c) \/ BeginAppend(c) \/ saveFile(c)
<1>1. Quietly \/ Stop(c) => fault' = "none"
  BY DEF Quietly, apivars, Stop
<1>2. ~(GiveUp(c) \/ BeginFiles(c) \/ BeginWalk(c) \/ visitaDir(c) \/ EndFiles(c) \/ Return(c))
  BY <1>1 DEF GiveUp, BeginFiles, BeginWalk, visitaDir, EndFiles, Return
<1>3. ~(CreateWrite(c) \/ letturaFiles(c) \/ append(c) \/ LockFiles(c))
  BY <1>1, CallsLast DEF CreateWrite, letturaFiles, append, LockFiles, closeFile, readFile,
     appendToFile, lockFile, unlockFile
<1>4. ~(RemoveFiles(c) \/ letturaRandom(c) \/ CloseDown(c))
  BY CallsLast DEF RemoveFiles, letturaRandom, CloseDown, removeFile, readNFiles, closeConnection
<1> QED BY <1>2, <1>3, <1>4 DEF Main

LEMMA Broken ==
    ASSUME Typed, Sound, FaultsKnown, fault = "none", NEW c \in Clients, Main(c)
    PROVE  FaultsKnown'
<1>1. /\ prog[c] \in Programs /\ prog[c].opts \in Seq(Option) /\ prog[c].files \in Seq(Paths)
      /\ Failed(c) /\ Buffer(prog[c])
  BY DEF Typed, ProgTyped, Programs, Sound
<1>2. PICK o : o = Head(prog[c].opts)
  OBVIOUS
<1>3. prog[c].opts # <<>> => o \in ToSet(prog[c].opts) /\ o.args \in Seq(Paths)
  <2> SUFFICES ASSUME prog[c].opts # <<>>
               PROVE  o \in ToSet(prog[c].opts) /\ o.args \in Seq(Paths)
    OBVIOUS
  <2>1. PICK s \in Seq(Option) : s = prog[c].opts /\ s # <<>>
    BY <1>1
  <2>2. s[1] \in Option /\ 1 \in DOMAIN s /\ Head(s) = s[1]
    BY <2>1
  <2>3. o \in ToSet(s)
    BY <1>2, <2>1, <2>2 DEF ToSet
  <2>4. o.args \in Seq(Paths)
    BY <1>2, <2>1, <2>2 DEF Option
  <2> QED BY <2>1, <2>3, <2>4
<1>4. CASE fault' = "none"
  BY <1>4 DEF FaultsKnown
<1>5. CASE fault' = "uninit"
  <2>1. CallStep(c)
    BY MainStep DEF ProgStep, Typed
  <2>2. conn[c] = "failed" /\ now' = now
    BY <1>5, <2>1 DEF CallStep, Sends, Request, Refused, Leaves, Fails, apivars
  <2>3. now'[c] = Deadline
    BY <1>1, <2>2 DEF Failed
  <2> QED BY <1>5, <2>3 DEF FaultsKnown
<1>6. ASSUME fault' \notin {"none", "uninit"}, ParseBreaks(c) PROVE FaultsKnown'
  <2>1. /\ prog' = prog /\ fault' = "wild" /\ prog[c].opts # <<>>
        /\ Len(o.args) >= ParseMax
    BY <1>2, <1>6 DEF ParseBreaks, Breaks, At
  <2>2. o \in ToSet(prog'[c].opts)
    BY <1>3, <2>1
  <2> QED BY <2>1, <2>2 DEF FaultsKnown
<1>7. ASSUME fault' \notin {"none", "uninit"}, BeginAppend(c) PROVE FaultsKnown'
  <2>1. /\ prog' = prog /\ fault' = "wild" /\ prog[c].opts # <<>>
        /\ o.opt = "a" /\ Len(o.args) < 2
    BY <1>2, <1>7 DEF BeginAppend, Breaks, At, opt, Quietly, apivars
  <2>2. o \in ToSet(prog'[c].opts)
    BY <1>3, <2>1
  <2> QED BY <2>1, <2>2 DEF FaultsKnown
<1>8. ASSUME fault' \notin {"none", "uninit"}, saveFile(c) PROVE FaultsKnown'
  <2>1. /\ prog' = prog /\ fault' = "freed" /\ prog[c].opts # <<>> /\ prog[c].files # <<>>
        /\ o.opt = "r" /\ prog[c].cmd.d = "dir" /\ prog[c].buf = "freed"
    BY <1>2, <1>8, CallsLast
       DEF saveFile, Breaks, AtFile, At, opt, Quietly, apivars, closeFile
  <2>2. Len(prog[c].files) < Len(o.args)
    BY <1>1, <1>2, <2>1 DEF Buffer
  <2>3. Len(o.args) > 1
    <3>1. Len(prog[c].files) \in Nat /\ Len(prog[c].files) > 0 /\ Len(o.args) \in Nat
      BY <1>1, <1>3, <2>1
    <3> QED BY <2>2, <3>1
  <2>4. o \in ToSet(prog'[c].opts) /\ prog'[c].cmd.d = "dir"
    BY <1>3, <2>1
  <2> QED BY <2>1, <2>3, <2>4 DEF FaultsKnown
<1> QED BY <1>4, <1>5, <1>6, <1>7, <1>8, Breaking

\* Where no cause has come, what a read cannot make sense of is a file that was
\* never written.
LEMMA GarbledKnown ==
    ASSUME Typed, Order, fault = "none", NEW c \in Clients, Garbled(c)
    PROVE  FaultsKnown'
<1>1. PICK ph \in {"status", "number", "file", "body"} :
         Reading(c, ph) /\ Head(sock[c]).kind \notin Expected(ph)
  BY DEF Garbled
<1>2. /\ fault' = "garbled" /\ sock' = sock /\ cause' = cause
  BY DEF Garbled
<1>3. /\ conn[c] = "up" /\ call[c].phase = ph /\ sock[c] # <<>>
  BY <1>1 DEF Reading
<1>4. CASE cause[c] # "none"
  BY <1>2, <1>4 DEF FaultsKnown
<1>5. CASE cause[c] = "none"
  <2>1. PICK s : s = Coming(c)
    OBVIOUS
  <2>2. s \in Seq(Items) /\ s # <<>> /\ Head(s) = Head(sock[c])
    BY <1>3, <2>1, FirstComing
  <2>3. Ordered(c, s, sent[c], call[c])
    BY <1>3, <1>5, <2>1 DEF Order, InOrder
  <2>4. ph # "status"
    BY <1>1, <1>3, <2>2, <2>3 DEF Ordered, Waiting, Answered, Expected
  <2>5. After(c, ph, call[c].left, s)
    BY <1>3, <2>3, <2>4 DEF Ordered
  <2>6. Head(s) = s[1] /\ Len(s) \in Nat /\ 1 \in 1 .. Len(s)
    BY <2>2
  <2>7. Head(s).kind = "torn"
    BY <1>1, <1>3, <2>2, <2>4, <2>5, <2>6
       DEF After, Rest, NumberNext, BodyNext, Expected
  <2>8. sock[c] \in Seq(Items) /\ Head(sock[c]) = sock[c][1] /\ 1 \in 1 .. Len(sock[c])
    BY <1>3 DEF Typed, SocketTyped
  <2> QED BY <1>2, <2>2, <2>7, <2>8 DEF FaultsKnown
<1> QED BY <1>4, <1>5

LEMMA FaultsNext ==
    ASSUME Typed, Order, Sound, FaultsKnown, [Next]_vars
    PROVE  FaultsKnown'
<1>1. CASE UNCHANGED vars
  BY <1>1 DEF vars, apivars, FaultsKnown
<1>2. CASE fault # "none" /\ Next
  <2>1. \A c \in Clients : ~Main(c)
    <3>1. ASSUME NEW c \in Clients, Main(c) PROVE FALSE
      BY <1>2, <3>1, MainStep DEF Free, Typed
    <3> QED BY <3>1
  <2>2. \A c \in Clients : ~Take(c) /\ ~ApiStep(c)
    BY <1>2 DEF Take, Live, ApiStep, openConnection, Reads, readStatus, readNumber, readAFile,
       readBody, Garbled, EndOfFile, Reading
  <2>3. ServerStart /\ UNCHANGED prog
    BY <1>2, <2>1, <2>2 DEF Next, ServerStep, Serve, ServeFull, Push, ServerGone, Live
  <2> QED BY <2>3 DEF ServerStart, FaultsKnown
<1>3. CASE fault = "none" /\ Next
  <2>1. CASE fault' = "none"
    BY <2>1 DEF FaultsKnown
  <2>2. ASSUME NEW c \in Clients, Main(c) PROVE FaultsKnown'
    BY <1>3, <2>2, Broken
  <2>3. ASSUME NEW c \in Clients, Garbled(c) PROVE FaultsKnown'
    BY <1>3, <2>3, GarbledKnown
  <2>4. ASSUME NEW c \in Clients, EndOfFile(c) PROVE FaultsKnown'
    BY <2>4 DEF EndOfFile, server, FaultsKnown
  <2>5. ASSUME NEW c \in Clients, Take(c) \/ ApiStep(c), ~Garbled(c), ~EndOfFile(c)
        PROVE  fault' = "none"
    BY <1>3, <2>5 DEF Take, ApiStep, openConnection, Reads, readStatus, readNumber, readAFile,
       readBody, Consumed
  <2>6. ServerStep => fault' = "none"
    BY <1>3 DEF ServerStep, ServerStart, ServerGone, Serve, ServeFull, Push
  <2> QED BY <1>3, <2>1, <2>2, <2>3, <2>4, <2>5, <2>6 DEF Next
<1> QED BY <1>1, <1>2, <1>3

\* Undefined behaviour of a client has one of the causes that FaultsKnown lists,
\* whatever the command lines, the files and the moment at which the server ends:
\* where it stays and no cause is met, every read finds the bytes meant for it.
THEOREM NoOtherFault == Spec => []FaultsKnown
<1>1. Init => Typed /\ Order /\ Sound /\ FaultsKnown
  BY InitTyped, InitOrder, InitSound
<1>2. Typed /\ Sound /\ [Next]_vars => Sound'
  BY BufferNext, FailedNext DEF Sound
<1>3. /\ Typed /\ Order /\ Sound /\ FaultsKnown /\ [Next]_vars
      => (Typed /\ Order /\ Sound /\ FaultsKnown)'
  BY <1>2, TypedNext, OrderNext, FaultsNext
<1> QED BY <1>1, <1>3, PTL DEF Spec

-----------------------------------------------------------------------------
(* What a client has opened *)

\* The names of a command line: Named(c) is those of the line of client c.
Listings == UNION {ToSet(Entries[d]) : d \in DOMAIN Entries}
WithFolder(m) == \E o \in ToSet(m.opts) : o.dir # NONE
NamesOf(m) == (UNION {ToSet(o.args) : o \in ToSet(m.opts)})
              \cup (IF WithFolder(m) THEN Listings ELSE {})

\* A program treats no file but those that its command line names,
Own(g) == /\ g.opts \in Seq(ToSet(g.cmd.opts))
          /\ g.files \in Seq(NamesOf(g.cmd))
          /\ g.walk \in Seq(Seq(Listings))
          /\ g.walk # <<>> => WithFolder(g.cmd)

\* and asks for no other.
Theirs == \A c \in Clients :
    /\ Own(prog[c])
    /\ \A i \in 1 .. Len(sent[c]) : sent[c][i].path \in Named(c) \cup {NONE}
    /\ phase # "idle" /\ req.fd = c => req.path \in Named(c) \cup {NONE}

\* What has been opened, and still exists, is open.
KeptOpen(p) == store[p] # Absent => store[p].isopen = 1

\* Client c waits for its file to be opened, or has it open.
Pending(c, p) ==
    /\ sent[c] # <<>> => Head(sent[c]).path = p
    /\ req.fd = c /\ Unanswered => req.path = p /\ (phase = "expel" => KeptOpen(p))
    /\ Coming(c) # <<>> /\ Returns(call[c].op, Head(Coming(c)).val) = 1 => KeptOpen(p)
Opening(c, p) ==
    /\ call[c].op \in {"O_CREATE", "O_OPEN", NONE}
    /\ call[c].op = NONE => call[c].phase = "none" /\ call[c].ret # 1
    /\ call[c].phase # "status" /\ call[c].ret = 1 => KeptOpen(p)
    /\ call[c].phase = "status" => Pending(c, p)
Closing(c) == call[c].op = "CLOSE" /\ call[c].phase = "status"
Using(c, p) == ~Closing(c) /\ KeptOpen(p)
Holds(c, p) ==
    /\ prog[c].at = "opened" => Opening(c, p)
    /\ prog[c].at = "used" => Using(c, p)
    /\ prog[c].at = "got" /\ call[c].op = "READ" => call[c].phase = "none" /\ KeptOpen(p)

Alone(c, p) == \A o \in Clients \ {c} : p \notin Named(o)
InTune(c) == fault = "none" /\ conn[c] # "ended" /\ cause[c] = "none"
Keeps(c) == InTune(c) /\ prog[c].files # <<>> /\ Alone(c, name(c)) => Holds(c, name(c))
Held == \A c \in Clients : Keeps(c)

LEMMA NamedIs == ASSUME NEW c \in Clients PROVE Named(c) = NamesOf(prog[c].cmd)
BY DEF Named, NamesOf, WithFolder, Listings

LEMMA SeqOver == ASSUME NEW T, NEW s \in Seq(T) PROVE s \in Seq(ToSet(s))
<1>1. \A i \in 1 .. Len(s) : s[i] \in ToSet(s)
  BY DEF ToSet
<1> QED BY <1>1

LEMMA SeqWithin == ASSUME NEW S, NEW T, S \subseteq T, NEW s \in Seq(S) PROVE s \in Seq(T)
OBVIOUS

LEMMA InitTheirs == ASSUME Init PROVE Theirs /\ Held
<1>1. PICK s \in Scripts : prog = [c \in Clients |-> Program(s[c])]
  BY DEF Init
<1>2. ASSUME NEW c \in Clients PROVE Own(prog[c]) /\ prog[c].files = <<>>
  <2>1. PICK m \in Command : m = s[c]
    BY ClientAssumption
  <2>2. prog[c] = Program(m)
    BY <1>1, <2>1
  <2>3. m.opts \in Seq(ToSet(m.opts))
    BY SeqOver DEF Command
  <2>4. Own(Program(m)) /\ Program(m).files = <<>>
    BY <2>3 DEF Program, Own
  <2> QED BY <2>2, <2>4
<1>3. ASSUME NEW c \in Clients PROVE sent[c] = <<>>
  BY DEF Init, ApiInit
<1>4. phase = "idle"
  BY DEF Init, ApiInit, StoreInit
<1>5. Theirs
  BY <1>2, <1>3, <1>4 DEF Theirs
<1>6. Held
  BY <1>2 DEF Held, Keeps
<1> QED BY <1>5, <1>6

\* A program that goes on with what it had, or with less of it.
LEMMA OwnLess ==
    ASSUME NEW f \in Programs, Own(f), NEW g, g.cmd = f.cmd, g.walk = f.walk,
           g.opts = f.opts \/ (f.opts # <<>> /\ g.opts = Tail(f.opts)),
           \/ g.files = f.files \/ g.files = <<>>
           \/ f.files # <<>> /\ g.files = Tail(f.files)
    PROVE  Own(g)
<1>1. PICK O, N : O = ToSet(f.cmd.opts) /\ N = NamesOf(f.cmd)
  OBVIOUS
<1>2. f.opts \in Seq(O) /\ f.files \in Seq(N)
  BY <1>1 DEF Own
<1>3. f.opts # <<>> => Tail(f.opts) \in Seq(O)
  BY <1>2
<1>4. f.files # <<>> => Tail(f.files) \in Seq(N)
  BY <1>2
<1>5. <<>> \in Seq(N)
  OBVIOUS
<1>6. g.opts \in Seq(O) /\ g.files \in Seq(N)
  BY <1>2, <1>3, <1>4, <1>5
<1> QED BY <1>1, <1>6 DEF Own

\* A program takes up files that its command line names.
LEMMA OwnFiles ==
    ASSUME NEW f \in Programs, Own(f), NEW g, g.cmd = f.cmd, g.opts = f.opts,
           g.files \in Seq(NamesOf(f.cmd)), g.walk \in Seq(Seq(Listings)),
           g.walk # <<>> => WithFolder(f.cmd)
    PROVE  Own(g)
BY DEF Own

LEMMA OwnOption ==
    ASSUME NEW f \in Programs, Own(f), f.opts # <<>>
    PROVE  /\ Head(f.opts) \in ToSet(f.cmd.opts) /\ Head(f.opts) \in Option
           /\ Head(f.opts).args \in Seq(NamesOf(f.cmd))
           /\ Head(f.opts).dir # NONE => WithFolder(f.cmd)
<1>1. PICK O : O = ToSet(f.cmd.opts)
  OBVIOUS
<1>2. f.opts \in Seq(O) /\ f.opts \in Seq(Option)
  BY <1>1 DEF Own, Programs
<1>3. PICK o : o = Head(f.opts)
  OBVIOUS
<1>4. o \in O /\ o \in Option
  BY <1>2, <1>3
<1>5. o.args \in Seq(ToSet(o.args))
  BY <1>4, SeqOver DEF Option
<1>6. ToSet(o.args) \subseteq NamesOf(f.cmd)
  BY <1>1, <1>4 DEF NamesOf
<1>7. o.args \in Seq(NamesOf(f.cmd))
  BY <1>5, <1>6, SeqWithin
<1> QED BY <1>1, <1>3, <1>4, <1>7 DEF WithFolder

LEMMA ListingSeq == ASSUME NEW d \in DOMAIN Entries PROVE Entries[d] \in Seq(Listings)
<1>1. Entries[d] \in Seq(Paths \cup DOMAIN Entries)
  BY ClientAssumption
<1>2. Entries[d] \in Seq(ToSet(Entries[d]))
  BY <1>1, SeqOver
<1>3. ToSet(Entries[d]) \subseteq Listings
  BY DEF Listings
<1> QED BY <1>2, <1>3, SeqWithin

\* A step of the program.
Kept(c) == UNCHANGED prog
           \/ \E g : Now(c, g) /\ g.cmd = prog[c].cmd /\ Own(g)

LEMMA WalkOwn ==
    ASSUME Typed, Theirs, NEW c \in Clients, visitaDir(c)
    PROVE  Kept(c)
<1>1. PICK f \in Programs : f = prog[c] /\ Own(f)
  BY DEF Theirs, Typed, ProgTyped
<1>2. \A g : Now(c, g) /\ g.cmd = f.cmd /\ Own(g) => Kept(c)
  BY <1>1 DEF Kept
<1>3. f.opts # <<>>
  BY <1>1 DEF visitaDir, At
<1>4. PICK w \in Seq(Seq(Listings)) : w = f.walk
  BY <1>1 DEF Own
<1>5. w # <<>> => WithFolder(f.cmd)
  BY <1>1, <1>4 DEF Own
<1>6. PICK e : e = Head(Head(w))
  OBVIOUS
<1>7. PICK rest : rest = <<Tail(Head(w))>> \o Tail(w)
  OBVIOUS
<1>8. ASSUME NEW v \in Seq(Seq(Listings)), v # <<>> => WithFolder(f.cmd),
             Now(c, [f EXCEPT !.walk = v])
      PROVE  Kept(c)
  <2>1. PICK g : g = [f EXCEPT !.walk = v]
    OBVIOUS
  <2>2. g.cmd = f.cmd /\ g.opts = f.opts /\ g.files = f.files /\ g.walk = v
    BY <2>1 DEF Programs
  <2>3. Own(g)
    BY <1>1, <1>8, <2>2 DEF Own
  <2> QED BY <1>2, <1>8, <2>1, <2>2, <2>3
<1>9. CASE w = <<>> /\ NextOption(c)
  <2>1. PICK g : g = [f EXCEPT !.at = "option", !.opts = Tail(@), !.files = <<>>,
                               !.result2 = 0, !.buf = "none"]
    OBVIOUS
  <2>2. /\ Now(c, g) /\ g.cmd = f.cmd /\ g.opts = Tail(f.opts) /\ g.files = <<>>
        /\ g.walk = f.walk
    BY <1>1, <1>9, <2>1 DEF NextOption, Programs
  <2>3. Own(g)
    BY <1>1, <1>3, <2>2, OwnLess
  <2> QED BY <1>2, <2>2, <2>3
<1>10. CASE w # <<>> /\ Now(c, [f EXCEPT !.walk = Tail(w)])
  <2>1. Tail(w) \in Seq(Seq(Listings))
    BY <1>10
  <2> QED BY <1>5, <1>8, <1>10, <2>1
<1>11. CASE /\ w # <<>> /\ Head(w) # <<>>
            /\ Now(c, IF e \notin DOMAIN Entries
                      THEN [f EXCEPT !.walk = rest, !.nvisit = @ - 1, !.files = <<e>>,
                                     !.at = "open", !.offered = Append(@, e)]
                      ELSE IF e \in Hidden THEN [f EXCEPT !.walk = rest]
                      ELSE [f EXCEPT !.walk = <<Entries[e]>> \o rest])
  <2>1. Head(w) \in Seq(Listings) /\ Tail(w) \in Seq(Seq(Listings))
    BY <1>11
  <2>2. e \in Listings /\ Tail(Head(w)) \in Seq(Listings)
    BY <1>6, <1>11, <2>1
  <2>3. <<Tail(Head(w))>> \in Seq(Seq(Listings))
    BY <2>2
  <2>4. rest \in Seq(Seq(Listings))
    BY <1>7, <2>1, <2>3
  <2>5. CASE e \notin DOMAIN Entries
    <3>1. PICK g : g = [f EXCEPT !.walk = rest, !.nvisit = @ - 1, !.files = <<e>>,
                                 !.at = "open", !.offered = Append(@, e)]
      OBVIOUS
    <3>2. g.cmd = f.cmd /\ g.opts = f.opts /\ g.files = <<e>> /\ g.walk = rest /\ Now(c, g)
      BY <1>11, <2>5, <3>1 DEF Programs
    <3>3. e \in NamesOf(f.cmd)
      <4>1. PICK m : m = f.cmd
        OBVIOUS
      <4>2. WithFolder(m)
        BY <1>5, <1>11, <4>1
      <4>3. Listings \subseteq NamesOf(m)
        BY <4>2, Zenon DEF NamesOf
      <4> QED BY <2>2, <4>1, <4>3
    <3>4. <<e>> \in Seq(NamesOf(f.cmd))
      BY <3>3
    <3>5. Own(g)
      BY <1>1, <1>5, <1>11, <2>4, <3>2, <3>4, OwnFiles
    <3> QED BY <1>2, <3>2, <3>5
  <2>6. CASE e \in DOMAIN Entries /\ e \in Hidden
    BY <1>5, <1>8, <1>11, <2>4, <2>6
  <2>7. CASE e \in DOMAIN Entries /\ e \notin Hidden
    <3>1. <<Entries[e]>> \in Seq(Seq(Listings))
      BY <2>7, ListingSeq
    <3>2. <<Entries[e]>> \o rest \in Seq(Seq(Listings))
      BY <2>4, <3>1
    <3> QED BY <1>5, <1>8, <1>11, <2>7, <3>2
  <2> QED BY <2>5, <2>6, <2>7
<1> QED BY <1>1, <1>4, <1>6, <1>7, <1>9, <1>10, <1>11 DEF visitaDir

LEMMA MainOwn ==
    ASSUME Typed, Theirs, NEW c \in Clients, Main(c)
    PROVE  Kept(c)
<1>1. PICK f \in Programs : f = prog[c] /\ Own(f)
  BY DEF Theirs, Typed, ProgTyped
<1>2. \A g : Now(c, g) /\ g.cmd = f.cmd /\ Own(g) => Kept(c)
  BY <1>1 DEF Kept
<1>3. UNCHANGED prog => Kept(c)
  BY DEF Kept
<1>4. ASSUME NEW g, Now(c, g), g.cmd = f.cmd, g.walk = f.walk,
             g.opts = f.opts \/ (f.opts # <<>> /\ g.opts = Tail(f.opts)),
             \/ g.files = f.files \/ g.files = <<>>
             \/ f.files # <<>> /\ g.files = Tail(f.files)
      PROVE  Kept(c)
  BY <1>1, <1>2, <1>4, OwnLess
<1>5. \A at : Goto(c, at) => Kept(c)
  <2> SUFFICES ASSUME NEW at, Goto(c, at) PROVE Kept(c)
    OBVIOUS
  <2>1. PICK g : g = [f EXCEPT !.at = at]
    OBVIOUS
  <2>2. /\ Now(c, g) /\ g.cmd = f.cmd /\ g.walk = f.walk /\ g.opts = f.opts
        /\ g.files = f.files
    BY <1>1, <2>1 DEF Goto, Programs
  <2> QED BY <1>4, <2>2
<1>6. f.files # <<>> /\ NextFile(c) => Kept(c)
  <2> SUFFICES ASSUME f.files # <<>>, NextFile(c) PROVE Kept(c)
    OBVIOUS
  <2>1. PICK g : g = [f EXCEPT !.at = "open", !.files = Tail(@)]
    OBVIOUS
  <2>2. /\ Now(c, g) /\ g.cmd = f.cmd /\ g.walk = f.walk /\ g.opts = f.opts
        /\ g.files = Tail(f.files)
    BY <1>1, <2>1 DEF NextFile, Programs
  <2> QED BY <1>4, <2>2
<1>7. f.opts # <<>> /\ NextOption(c) => Kept(c)
  <2> SUFFICES ASSUME f.opts # <<>>, NextOption(c) PROVE Kept(c)
    OBVIOUS
  <2>1. PICK g : g = [f EXCEPT !.at = "option", !.opts = Tail(@), !.files = <<>>,
                               !.result2 = 0, !.buf = "none"]
    OBVIOUS
  <2>2. /\ Now(c, g) /\ g.cmd = f.cmd /\ g.walk = f.walk /\ g.opts = Tail(f.opts)
        /\ g.files = <<>>
    BY <1>1, <2>1 DEF NextOption, Programs
  <2> QED BY <1>4, <2>2
<1>8. ASSUME NEW g, Now(c, g), g.cmd = f.cmd, g.opts = f.opts, g.walk = f.walk,
             g.files \in Seq(NamesOf(f.cmd))
      PROVE  Kept(c)
  <2>1. Own(g)
    BY <1>1, <1>8 DEF Own
  <2> QED BY <1>2, <1>8, <2>1
<1>10. GiveUp(c) \/ ParseBreaks(c) \/ Return(c) => Kept(c)
  BY <1>3 DEF GiveUp, ParseBreaks, Return, Stop, Breaks
<1>11. BeginFiles(c) => Kept(c)
  <2> SUFFICES ASSUME BeginFiles(c) PROVE Kept(c)
    OBVIOUS
  <2>1. /\ f.opts # <<>>
        /\ Now(c, [f EXCEPT !.at = "open", !.files = Head(f.opts).args])
    BY <1>1 DEF BeginFiles, At
  <2>2. Head(f.opts).args \in Seq(NamesOf(f.cmd))
    BY <1>1, <2>1, OwnOption
  <2>3. PICK g : g = [f EXCEPT !.at = "open", !.files = Head(f.opts).args]
    OBVIOUS
  <2>4. /\ Now(c, g) /\ g.cmd = f.cmd /\ g.walk = f.walk /\ g.opts = f.opts
        /\ g.files = Head(f.opts).args
    BY <2>1, <2>3 DEF Programs
  <2> QED BY <1>8, <2>2, <2>4
<1>12. BeginAppend(c) => Kept(c)
  <2> SUFFICES ASSUME BeginAppend(c) PROVE Kept(c)
    OBVIOUS
  <2>1. f.opts # <<>>
    BY <1>1 DEF BeginAppend, At
  <2>2. PICK args \in Seq(NamesOf(f.cmd)) : args = Head(f.opts).args
    BY <1>1, <2>1, OwnOption
  <2>3. Len(args) = 2 => <<args[1]>> \in Seq(NamesOf(f.cmd))
    BY <2>2
  <2>4. Breaks("wild") => Kept(c)
    BY <1>3 DEF Breaks
  <2>5. ASSUME Len(args) = 2, Now(c, [f EXCEPT !.at = "open", !.files = <<args[1]>>])
        PROVE  Kept(c)
    <3>1. PICK g : g = [f EXCEPT !.at = "open", !.files = <<args[1]>>]
      OBVIOUS
    <3>2. /\ Now(c, g) /\ g.cmd = f.cmd /\ g.walk = f.walk /\ g.opts = f.opts
          /\ g.files = <<args[1]>>
      BY <2>5, <3>1 DEF Programs
    <3> QED BY <1>8, <2>3, <2>5, <3>2
  <2> QED BY <1>1, <1>7, <2>1, <2>2, <2>4, <2>5 DEF BeginAppend
<1>13. BeginWalk(c) => Kept(c)
  <2> SUFFICES ASSUME BeginWalk(c) PROVE Kept(c)
    OBVIOUS
  <2>1. f.opts # <<>>
    BY <1>1 DEF BeginWalk, At
  <2>2. PICK o \in Option : o = Head(f.opts) /\ (o.dir # NONE => WithFolder(f.cmd))
    BY <1>1, <2>1, OwnOption
  <2>4. Stop(c) => Kept(c)
    BY <1>3 DEF Stop
  <2>5. ASSUME o.dir # NONE,
               Now(c, [f EXCEPT !.at = "walk", !.walk = <<Entries[o.dir]>>,
                                !.nvisit = IF o.n = 0 THEN -1 ELSE o.n, !.offered = <<>>])
        PROVE  Kept(c)
    <3>1. Entries[o.dir] \in Seq(Listings)
      BY <2>2, <2>5, ListingSeq DEF Option
    <3>2. <<Entries[o.dir]>> \in Seq(Seq(Listings))
      <4>1. PICK x \in Seq(Listings) : x = Entries[o.dir]
        BY <3>1
      <4>2. <<x>> \in Seq(Seq(Listings))
        OBVIOUS
      <4> QED BY <4>1, <4>2
    <3>3. PICK g : g = [f EXCEPT !.at = "walk", !.walk = <<Entries[o.dir]>>,
                                 !.nvisit = IF o.n = 0 THEN -1 ELSE o.n, !.offered = <<>>]
      OBVIOUS
    <3>4. /\ g.cmd = f.cmd /\ g.opts = f.opts /\ g.files = f.files
          /\ g.walk = <<Entries[o.dir]>> /\ Now(c, g)
      BY <2>5, <3>3 DEF Programs
    <3>5. Own(g)
      BY <1>1, <2>2, <2>5, <3>2, <3>4 DEF Own
    <3> QED BY <1>2, <3>4, <3>5
  <2> QED BY <1>1, <2>2, <2>4, <2>5 DEF BeginWalk
<1>14. EndFiles(c) => Kept(c)
  BY <1>1, <1>5, <1>7 DEF EndFiles, At
<1>15. CreateWrite(c) \/ append(c) \/ LockFiles(c) \/ RemoveFiles(c) => Kept(c)
  BY <1>1, <1>5, <1>6 DEF CreateWrite, append, LockFiles, RemoveFiles, AtFile, At
<1>16. letturaRandom(c) \/ CloseDown(c) => Kept(c)
  BY <1>1, <1>5, <1>7 DEF letturaRandom, CloseDown, At
<1>17. letturaFiles(c) => Kept(c)
  <2> SUFFICES ASSUME letturaFiles(c) PROVE Kept(c)
    OBVIOUS
  <2>1. f.files # <<>>
    BY <1>1 DEF letturaFiles, AtFile
  <2>2. ASSUME Now(c, [f EXCEPT !.at = "got", !.result2 = 1, !.buf = "held"]) PROVE Kept(c)
    <3>1. PICK g : g = [f EXCEPT !.at = "got", !.result2 = 1, !.buf = "held"]
      OBVIOUS
    <3>2. /\ Now(c, g) /\ g.cmd = f.cmd /\ g.walk = f.walk /\ g.opts = f.opts
          /\ g.files = f.files
      BY <2>2, <3>1 DEF Programs
    <3> QED BY <1>4, <3>2
  <2>3. ASSUME Now(c, [f EXCEPT !.at = "open", !.result2 = -1, !.files = Tail(@)])
        PROVE  Kept(c)
    <3>1. PICK g : g = [f EXCEPT !.at = "open", !.result2 = -1, !.files = Tail(@)]
      OBVIOUS
    <3>2. /\ Now(c, g) /\ g.cmd = f.cmd /\ g.walk = f.walk /\ g.opts = f.opts
          /\ g.files = Tail(f.files)
      BY <2>3, <3>1 DEF Programs
    <3> QED BY <1>4, <2>1, <3>2
  <2> QED BY <1>1, <1>5, <1>6, <2>1, <2>2, <2>3 DEF letturaFiles
<1>18. saveFile(c) => Kept(c)
  <2> SUFFICES ASSUME saveFile(c) PROVE Kept(c)
    OBVIOUS
  <2>1. f.files # <<>> /\ f.opts # <<>>
    BY <1>1 DEF saveFile, AtFile, At
  <2>2. ASSUME Now(c, [f EXCEPT !.at = "open", !.files = Tail(@), !.buf = "freed"])
        PROVE  Kept(c)
    <3>1. PICK g : g = [f EXCEPT !.at = "open", !.files = Tail(@), !.buf = "freed"]
      OBVIOUS
    <3>2. /\ Now(c, g) /\ g.cmd = f.cmd /\ g.walk = f.walk /\ g.opts = f.opts
          /\ g.files = Tail(f.files)
      BY <2>2, <3>1 DEF Programs
    <3> QED BY <1>4, <2>1, <3>2
  <2>3. Breaks("freed") => Kept(c)
    BY <1>3 DEF Breaks
  <2> QED BY <1>1, <1>6, <1>7, <2>1, <2>2, <2>3 DEF saveFile
<1> QED BY <1>10, <1>11, <1>12, <1>13, <1>14, <1>15, <1>16, <1>17, <1>18, WalkOwn DEF Main

\* Client c sends nothing, or one request about p.
Says(c, p) ==
    \/ UNCHANGED sent
    \/ \E op, n : sent' = [sent EXCEPT ![c] =
          Append(@, [op |-> op, path |-> p, size |-> n, fd |-> c])]

LEMMA CallSays ==
    ASSUME NEW c, NEW p
    PROVE  /\ \A op, n, d : Request(c, op, p, n, d) => Says(c, p)
           /\ \A flag : openFile(c, flag, p) => Says(c, p)
           /\ \A d : writeFile(c, p, d) => Says(c, p)
           /\ appendToFile(c, p) => Says(c, p)
<1>1. ASSUME NEW op, NEW n, NEW d, Request(c, op, p, n, d) PROVE Says(c, p)
  BY <1>1 DEF Request, Says
<1>2. Refused(c) => Says(c, p)
  BY DEF Refused, Says
<1> QED BY <1>1, <1>2 DEF openFile, writeFile, appendToFile

LEMMA Speaking ==
    ASSUME NEW c, Main(c)
    PROVE  Says(c, NONE) \/ (prog[c].files # <<>> /\ Says(c, name(c)))
<1> DEFINE Goal == Says(c, NONE) \/ (prog[c].files # <<>> /\ Says(c, name(c)))
<1>1. UNCHANGED sent => Says(c, NONE)
  BY DEF Says
<1>2. Quietly \/ Stop(c) \/ (\E f : Breaks(f)) => Says(c, NONE)
  BY <1>1 DEF Quietly, apivars, Stop, Breaks
<1>3. /\ readFile(c, name(c)) => Says(c, name(c))
      /\ lockFile(c, name(c)) => Says(c, name(c))
      /\ unlockFile(c, name(c)) => Says(c, name(c))
      /\ closeFile(c, name(c)) => Says(c, name(c))
      /\ removeFile(c, name(c)) => Says(c, name(c))
  BY CallSays DEF readFile, lockFile, unlockFile, closeFile, removeFile
<1>4. /\ \A n, d : readNFiles(c, n, d) => Says(c, NONE)
      /\ closeConnection(c) => Says(c, NONE)
  BY CallSays DEF readNFiles, closeConnection
<1>5. GiveUp(c) \/ ParseBreaks(c) \/ BeginFiles(c) \/ BeginAppend(c) \/ BeginWalk(c) => Goal
  BY <1>2 DEF GiveUp, ParseBreaks, BeginFiles, BeginAppend, BeginWalk
<1>6. visitaDir(c) \/ EndFiles(c) \/ Return(c) => Goal
  BY <1>2 DEF visitaDir, EndFiles, Return
<1>7. CreateWrite(c) => Goal
  BY <1>2, <1>3, CallSays DEF CreateWrite, AtFile
<1>8. letturaFiles(c) => Goal
  BY <1>2, <1>3, CallSays DEF letturaFiles, AtFile
<1>9. saveFile(c) => Goal
  BY <1>2, <1>3 DEF saveFile, AtFile
<1>10. append(c) => Goal
  BY <1>3, CallSays DEF append, AtFile
<1>11. LockFiles(c) => Goal
  BY <1>2, <1>3, CallSays DEF LockFiles, AtFile
<1>12. RemoveFiles(c) => Goal
  BY <1>3 DEF RemoveFiles, AtFile
<1>13. letturaRandom(c) \/ CloseDown(c) => Goal
  BY <1>4 DEF letturaRandom, CloseDown
<1> QED BY <1>5, <1>6, <1>7, <1>8, <1>9, <1>10, <1>11, <1>12, <1>13 DEF Main

\* The names of a command line stay those that it has.
LEMMA NamesKept ==
    ASSUME Typed, NEW c \in Clients, Kept(c)
    PROVE  \A d \in Clients : prog'[d].cmd = prog[d].cmd /\ Named(d)' = Named(d)
<1> SUFFICES ASSUME NEW d \in Clients
             PROVE  prog'[d].cmd = prog[d].cmd /\ Named(d)' = Named(d)
  OBVIOUS
<1>1. prog'[d].cmd = prog[d].cmd
  <2>1. CASE UNCHANGED prog
    BY <2>1
  <2>2. ASSUME NEW g, Now(c, g), g.cmd = prog[c].cmd PROVE prog'[d].cmd = prog[d].cmd
    BY <2>2 DEF Now, Typed, ProgTyped
  <2> QED BY <2>1, <2>2 DEF Kept
<1> QED BY <1>1 DEF Named

LEMMA MainTheirs ==
    ASSUME Typed, Theirs, NEW c \in Clients, Main(c)
    PROVE  Theirs'
<1>1. Kept(c)
  BY MainOwn
<1>2. \A d \in Clients : Named(d)' = Named(d)
  BY <1>1, NamesKept
<1>3. UNCHANGED <<phase, req>>
  <2>1. CallStep(c)
    BY MainStep DEF ProgStep, Typed
  <2> QED BY <2>1, CallServer DEF server, svars
<1>4. ASSUME NEW d \in Clients PROVE Own(prog[d])'
  <2>1. Own(prog[d])
    BY DEF Theirs
  <2>2. CASE prog'[d] = prog[d]
    <3>1. PICK g : g = prog[d]
      OBVIOUS
    <3>2. Own(g)' <=> Own(g)
      BY DEF Own
    <3> QED BY <2>1, <2>2, <3>1, <3>2 DEF Own
  <2>3. ASSUME NEW g, Now(c, g), Own(g) PROVE Own(prog[d])'
    <3>1. prog'[d] = g \/ prog'[d] = prog[d]
      BY <2>3 DEF Now, Typed, ProgTyped
    <3>2. prog'[d] = g => Own(prog[d])'
      BY <2>3 DEF Own
    <3> QED BY <2>2, <3>1, <3>2
  <2> QED BY <1>1, <2>2, <2>3 DEF Kept
<1>5. ASSUME NEW d \in Clients
      PROVE  \A i \in 1 .. Len(sent'[d]) : sent'[d][i].path \in Named(d) \cup {NONE}
  <2>1. \A i \in 1 .. Len(sent[d]) : sent[d][i].path \in Named(d) \cup {NONE}
    BY DEF Theirs
  <2>2. ASSUME NEW p \in Named(c) \cup {NONE}, Says(c, p)
        PROVE  \A i \in 1 .. Len(sent'[d]) : sent'[d][i].path \in Named(d) \cup {NONE}
    <3>1. CASE sent'[d] = sent[d]
      BY <2>1, <3>1
    <3>2. CASE d = c /\ sent'[d] # sent[d]
      <4>1. PICK r : sent'[c] = Append(sent[c], r) /\ r.path = p
        <5>1. PICK op, n : sent' = [sent EXCEPT ![c] =
                 Append(@, [op |-> op, path |-> p, size |-> n, fd |-> c])]
          BY <2>2, <3>2 DEF Says
        <5>2. sent'[c] = Append(sent[c], [op |-> op, path |-> p, size |-> n, fd |-> c])
          BY <5>1 DEF Typed, SocketTyped
        <5> QED BY <5>2
      <4>2. sent[c] \in Seq(AnyRequest)
        BY DEF Typed, SocketTyped
      <4>3. /\ Len(sent'[c]) = Len(sent[c]) + 1 /\ Len(sent[c]) \in Nat
            /\ \A i \in 1 .. Len(sent[c]) : sent'[c][i] = sent[c][i]
            /\ sent'[c][Len(sent[c]) + 1] = r
        BY <4>1, <4>2
      <4>4. \A i \in 1 .. Len(sent[c]) + 1 : i \in 1 .. Len(sent[c]) \/ i = Len(sent[c]) + 1
        BY <4>3
      <4> QED BY <2>1, <2>2, <3>2, <4>1, <4>3, <4>4
    <3>3. CASE d # c
      BY <2>2, <3>1, <3>3 DEF Says, Typed, SocketTyped
    <3> QED BY <3>1, <3>2, <3>3
  <2>3. prog[c].files # <<>> => name(c) \in Named(c)
    <3>1. prog[c].files \in Seq(NamesOf(prog[c].cmd))
      BY DEF Theirs, Own
    <3>2. prog[c].files # <<>> => name(c) \in NamesOf(prog[c].cmd)
      BY <3>1 DEF name
    <3> QED BY <3>2, NamedIs
  <2> QED BY <2>2, <2>3, Speaking
<1>6. ASSUME NEW d \in Clients, phase' # "idle", req'.fd = d
      PROVE  req'.path \in Named(d) \cup {NONE}
  BY <1>3, <1>6 DEF Theirs
<1> QED BY <1>2, <1>4, <1>5, <1>6 DEF Theirs

\* A step that is not of a program moves requests, and makes none.
LEMMA ServerTheirs ==
    ASSUME Typed, Theirs, UNCHANGED prog,
           \A d \in Clients : \A i \in 1 .. Len(sent'[d]) :
              \/ \E j \in 1 .. Len(sent[d]) : sent'[d][i] = sent[d][j]
              \/ phase # "idle" /\ sent'[d][i] = req /\ req.fd = d,
           \/ phase' = "idle"
           \/ UNCHANGED req /\ phase # "idle"
           \/ \E d \in Clients : req'.fd = d /\ \E j \in 1 .. Len(sent[d]) : req' = sent[d][j]
    PROVE  Theirs'
<1>1. \A x : Named(x)' = Named(x)
  BY DEF Named
<1>2. ASSUME NEW d \in Clients PROVE Own(prog[d])'
  BY DEF Theirs, Own
<1>3. ASSUME NEW d \in Clients, NEW i \in 1 .. Len(sent'[d])
      PROVE  sent'[d][i].path \in Named(d) \cup {NONE}
  BY DEF Theirs
<1>4. ASSUME NEW d \in Clients, phase' # "idle", req'.fd = d
      PROVE  req'.path \in Named(d) \cup {NONE}
  BY <1>4 DEF Theirs
<1> QED BY <1>1, <1>2, <1>3, <1>4 DEF Theirs

LEMMA TheirsNext == ASSUME Typed, Theirs, [Next]_vars PROVE Theirs'
<1>1. ASSUME UNCHANGED <<prog, sent>>, phase' = "idle" \/ (UNCHANGED req /\ phase # "idle")
      PROVE  Theirs'
  BY <1>1, ServerTheirs
<1>2. ASSUME UNCHANGED <<prog, sent, phase, req>> PROVE Theirs'
  BY <1>1, <1>2
<1>3. CASE UNCHANGED vars
  BY <1>2, <1>3 DEF vars, apivars, svars
<1>4. CASE (ServerStart \/ ServerGone \/ Push) /\ UNCHANGED prog
  BY <1>2, <1>4 DEF ServerStart, ServerGone, Push, svars
<1>5. ASSUME NEW c \in Clients, ApiStep(c), UNCHANGED prog PROVE Theirs'
  BY <1>2, <1>5 DEF ApiStep, openConnection, Reads, readStatus, readNumber, readAFile, readBody,
                    Garbled, EndOfFile, Consumed, server, svars
<1>6. CASE ServeFull /\ UNCHANGED prog
  BY <1>1, <1>6 DEF ServeFull, MakeRoom
<1>7. CASE Serve /\ UNCHANGED prog
  <2>1. Step /\ StoreTyped /\ phase # "idle"
    BY <1>7, StepTyped DEF Serve, Typed
  <2>2. UNCHANGED req \/ phase' = "idle"
    BY <2>1 DEF Step, Create, Expel, Missing, Open, OpenLocked, LockFile, UnlockFile, CloseFile,
         Read, Write, Count, Evict, Evicted, AppendBegin, AppendEnd, RemoveFile, Removed, ReadN,
         CloseConnection, Release, Finish, Reply, Silently, Ready
  <2>3. CASE UNCHANGED sent
    BY <1>1, <1>7, <2>1, <2>2, <2>3
  <2>4. CASE sent' = [sent EXCEPT ![req.fd] = <<req>> \o @]
    <3>1. PICK c \in Clients : req \in Asked(c) /\ req.fd = c
      BY <2>1 DEF StoreTyped, Hand, Asked
    <3>2. PICK q \in Seq(Asked(c)) : q = sent[c]
      BY DEF Typed, SocketTyped
    <3>3. sent'[c] = <<req>> \o q /\ \A d \in Clients \ {c} : sent'[d] = sent[d]
      BY <2>4, <3>1, <3>2 DEF Typed, SocketTyped
    <3>4. ASSUME NEW i \in 1 .. Len(<<req>> \o q)
          PROVE  (<<req>> \o q)[i] = req \/ \E j \in 1 .. Len(q) : (<<req>> \o q)[i] = q[j]
      <4>1. CASE i = 1
        BY <4>1
      <4>2. CASE i # 1
        <5>1. i - 1 \in 1 .. Len(q) /\ (<<req>> \o q)[i] = q[i - 1]
          BY <3>1, <4>2
        <5> QED BY <5>1
      <4> QED BY <4>1, <4>2
    <3>5. ASSUME NEW d \in Clients, NEW i \in 1 .. Len(sent'[d])
          PROVE  \/ \E j \in 1 .. Len(sent[d]) : sent'[d][i] = sent[d][j]
                 \/ phase # "idle" /\ sent'[d][i] = req /\ req.fd = d
      BY <2>1, <3>1, <3>2, <3>3, <3>4
    <3> QED BY <1>7, <2>1, <2>2, <3>5, ServerTheirs
  <2> QED BY <1>7, <2>3, <2>4 DEF Serve
<1>8. ASSUME NEW c \in Clients, Take(c), UNCHANGED prog PROVE Theirs'
  <2>1. PICK q \in Seq(Asked(c)) : q = sent[c] /\ q # <<>>
    BY <1>8 DEF Take, Typed, SocketTyped
  <2>2. /\ Head(q) = q[1] /\ 1 \in 1 .. Len(q) /\ q[1] \in Asked(c)
        /\ \A i \in 1 .. Len(Tail(q)) : i + 1 \in 1 .. Len(q) /\ Tail(q)[i] = q[i + 1]
    BY <2>1
  <2>3. /\ req' = q[1] /\ q[1].fd = c /\ sent'[c] = Tail(q)
        /\ \A d \in Clients \ {c} : sent'[d] = sent[d]
    BY <1>8, <2>1, <2>2 DEF Take, Receive, Typed, SocketTyped, Asked
  <2>4. ASSUME NEW d \in Clients, NEW i \in 1 .. Len(sent'[d])
        PROVE  \E j \in 1 .. Len(sent[d]) : sent'[d][i] = sent[d][j]
    <3>1. CASE d = c
      <4>1. i \in 1 .. Len(Tail(q)) /\ sent'[d][i] = Tail(q)[i]
        BY <2>3, <2>4, <3>1
      <4> QED BY <2>1, <2>2, <3>1, <4>1
    <3>2. CASE d # c
      BY <2>3, <2>4, <3>2
    <3> QED BY <3>1, <3>2
  <2>5. req'.fd = c /\ \E j \in 1 .. Len(sent[c]) : req' = sent[c][j]
    BY <2>1, <2>2, <2>3
  <2> QED BY <1>8, <2>4, <2>5, ServerTheirs
<1>9. ASSUME NEW c \in Clients, Main(c) PROVE Theirs'
  BY <1>9, MainTheirs
<1> QED BY <1>3, <1>4, <1>5, <1>6, <1>7, <1>8, <1>9 DEF Next, ServerStep

\* Only a CLOSE of its path leaves a file stored and not open.
LEMMA StoreKeeps ==
    ASSUME StoreTyped, Step, NEW p \in Paths, KeptOpen(p),
           ~(phase = "begun" /\ req.op = "CLOSE" /\ req.path = p)
    PROVE  KeptOpen(p)'
<1>1. UNCHANGED store => KeptOpen(p)'
  BY DEF KeptOpen
<1>2. ASSUME NEW x, NEW g, store' = [store EXCEPT ![x] = g],
             x = p => \/ g = Absent \/ g.isopen = 1
                      \/ store[p] # Absent /\ g.isopen = store[p].isopen
      PROVE  KeptOpen(p)'
  BY <1>2 DEF KeptOpen, StoreTyped
<1>3. store[p] \in StoredFile
  BY DEF StoreTyped
<1>4. CASE Create
  BY <1>1, <1>2, <1>4 DEF Create, Unchanged, Becomes
<1>5. CASE \E x \in Paths : Expel(x)
  BY <1>2, <1>5 DEF Expel
<1>6. CASE Missing \/ Read \/ Count \/ Evicted \/ AppendBegin \/ Removed \/ ReadN
           \/ CloseConnection \/ Finish
  BY <1>1, <1>6 DEF Missing, Read, Count, Evicted, AppendBegin, Removed, ReadN, CloseConnection,
     Finish, Ready, Unchanged
<1>7. CASE Open \/ OpenLocked
  BY <1>2, <1>3, <1>7 DEF Open, OpenLocked, Becomes, file, StoredFile
<1>8. CASE LockFile \/ UnlockFile \/ Write
  <2>1. req.path \in stored
    BY <1>8 DEF LockFile, UnlockFile, Write, Serving
  <2>2. req.path = p => store[p] # Absent
    BY <2>1 DEF stored
  <2>3. \/ UNCHANGED store
        \/ \E g : /\ store' = [store EXCEPT ![req.path] = g]
                  /\ req.path = p => g.isopen = store[p].isopen
    BY <1>3, <1>8 DEF LockFile, UnlockFile, Write, Unchanged, Becomes, file, StoredFile
  <2> QED BY <1>1, <1>2, <2>2, <2>3
<1>9. CASE CloseFile
  BY <1>2, <1>9 DEF CloseFile, Serving, Becomes
<1>10. CASE Evict
  BY <1>2, <1>10 DEF Evict
<1>11. CASE AppendEnd
  <2>1. req.path = p /\ req.path \in stored => store[p] # Absent
    BY DEF stored
  <2>2. \/ UNCHANGED store
        \/ /\ req.path \in stored
           /\ \E g : /\ store' = [store EXCEPT ![req.path] = g]
                     /\ req.path = p => g.isopen = store[p].isopen
    BY <1>3, <1>11 DEF AppendEnd, Unchanged, Becomes, file, StoredFile
  <2> QED BY <1>1, <1>2, <2>1, <2>2
<1>12. CASE RemoveFile
  BY <1>1, <1>2, <1>12 DEF RemoveFile, Unchanged, Becomes
<1>13. ASSUME NEW x \in Paths, Release(x) PROVE KeptOpen(p)'
  <2>1. phase # "idle" /\ store[x].fd = req.fd
    BY <1>13 DEF Release
  <2>2. req.fd # NONE
    BY <2>1, StoreAssumption DEF StoreTyped, Hand, Asked
  <2>3. store[x] # Absent
    BY <2>1, <2>2 DEF Absent
  <2>4. PICK g : g = [store[x] EXCEPT !.lock = 0]
    OBVIOUS
  <2>5. store' = [store EXCEPT ![x] = g] /\ (x = p => g.isopen = store[p].isopen)
    BY <1>3, <1>13, <2>4 DEF Release, StoreTyped, StoredFile
  <2> QED BY <1>2, <2>3, <2>5
<1> QED BY <1>4, <1>5, <1>6, <1>7, <1>8, <1>9, <1>10, <1>11, <1>12, <1>13 DEF Step

\* A request to open p leaves it open, or is answered that it is not.
LEMMA OpenServed ==
    ASSUME StoreTyped, Step, Unanswered, NEW p \in Paths, req.path = p,
           req.op \in {"O_CREATE", "O_OPEN"}, phase = "expel" => KeptOpen(p)
    PROVE  \/ /\ phase = "begun" /\ phase' = "expel" /\ answer' = answer /\ UNCHANGED req
              /\ KeptOpen(p)'
           \/ /\ phase' = "done" /\ UNCHANGED req
              /\ \E s \in Statuses : /\ answer' = <<s>>
                                     /\ Returns(req.op, s) = 1 => KeptOpen(p)'
<1>1. answer = <<>> /\ (phase = "begun" \/ (phase = "expel" /\ req.op = "O_CREATE"))
  BY DEF Unanswered
<1>2. /\ Create \/ Missing \/ Open \/ (\E x \in Paths : Expel(x))
  BY <1>1 DEF Step, OpenLocked, LockFile, UnlockFile, CloseFile, Read, Write, Count, Evict,
         Evicted, AppendBegin, AppendEnd, RemoveFile, Removed, ReadN, CloseConnection, Release,
         Finish, Serving
<1>3. ASSUME NEW s \in Statuses, Reply(s, "done"), Returns(req.op, s) = 1 => KeptOpen(p)'
      PROVE  /\ phase' = "done" /\ UNCHANGED req
             /\ \E t \in Statuses : /\ answer' = <<t>>
                                    /\ Returns(req.op, t) = 1 => KeptOpen(p)'
  BY <1>1, <1>3 DEF Reply
<1>4. /\ \A s \in {"SUCCESS", "YESCONTAIN", "NOTPRESENT", "TOMUCHFILE"} : s \in Statuses
      /\ Returns(req.op, "YESCONTAIN") # 1 /\ Returns(req.op, "NOTPRESENT") # 1
  BY DEF Statuses, Returns
<1>5. CASE Create
  <2>1. CASE Reply("YESCONTAIN", "done")
    BY <1>3, <1>4, <2>1
  <2>2. ASSUME NEW l, Becomes([isopen |-> 1, lock |-> l, fd |-> req.fd, dim |-> 0,
                               written |-> FALSE])
        PROVE  KeptOpen(p)'
    BY <2>2 DEF Becomes, KeptOpen, StoreTyped
  <2>3. CASE KeptOpen(p)' /\ Reply("SUCCESS", "done")
    BY <1>3, <1>4, <2>3
  <2>4. CASE KeptOpen(p)' /\ Silently("expel")
    BY <1>5, <2>4 DEF Silently, Create
  <2> QED BY <1>5, <2>1, <2>2, <2>3, <2>4 DEF Create
<1>6. CASE Missing
  BY <1>3, <1>4, <1>6 DEF Missing
<1>7. CASE Open
  <2>1. KeptOpen(p)'
    BY <1>7 DEF Open, Becomes, file, KeptOpen, StoreTyped, StoredFile
  <2> QED BY <1>3, <1>4, <1>7, <2>1 DEF Open
<1>8. ASSUME NEW x \in Paths, Expel(x)
      PROVE  /\ phase' = "done" /\ UNCHANGED req
             /\ \E t \in Statuses : /\ answer' = <<t>>
                                    /\ Returns(req.op, t) = 1 => KeptOpen(p)'
  <2>1. phase = "expel" /\ Reply("TOMUCHFILE", "done")
    BY <1>8 DEF Expel
  <2>2. KeptOpen(p)'
    BY <2>1, StoreKeeps
  <2> QED BY <1>3, <1>4, <2>1, <2>2
<1> QED BY <1>2, <1>5, <1>6, <1>7, <1>8

\* The call of the request in hand, while it has no status.
LEMMA OwnCall ==
    ASSUME Order, NEW c \in Clients, InTune(c), req.fd = c, Unanswered
    PROVE  /\ call[c].phase = "status" /\ call[c].op = req.op
           /\ Coming(c) = <<>> /\ sent[c] = <<>>
<1>1. Ordered(c, Coming(c), sent[c], call[c])
  BY DEF Order, InOrder, InTune
<1>2. ~Finished /\ ~Full
  BY DEF Finished, Full, Unanswered
<1> QED BY <1>1, <1>2
       DEF Ordered, Waiting, Answered, After, NumberNext, BodyNext, Rest

\* No CLOSE in hand is of a file that client c keeps open.
LEMMA NotClosed ==
    ASSUME Typed, Order, Theirs, NEW c \in Clients, InTune(c), NEW p \in Paths,
           Alone(c, p), ~Closing(c)
    PROVE  ~(phase = "begun" /\ req.op = "CLOSE" /\ req.path = p)
<1> SUFFICES ASSUME phase = "begun", req.op = "CLOSE", req.path = p PROVE FALSE
  OBVIOUS
<1>1. PICK d \in Clients : req.fd = d /\ p \in Named(d)
  <2>1. PICK d \in Clients : req \in Asked(d)
    BY DEF Typed, StoreTyped, Hand
  <2>2. req.fd = d /\ p # NONE
    BY <2>1, StoreAssumption DEF Asked
  <2> QED BY <2>2 DEF Theirs
<1>2. d = c
  BY <1>1 DEF Alone
<1>3. Ordered(c, Coming(c), sent[c], call[c])
  BY DEF Order, InOrder, InTune
<1>4. Unanswered
  BY <1>1, <1>2, <1>3, Holding DEF Full, Finished
<1> QED BY <1>1, <1>2, <1>4, OwnCall DEF Closing

LEMMA ServeKeeps ==
    ASSUME Typed, Order, Theirs, Serve, NEW c \in Clients, InTune(c), NEW p \in Paths,
           Alone(c, p), ~Closing(c), KeptOpen(p)
    PROVE  KeptOpen(p)'
BY NotClosed, StoreKeeps DEF Serve, Typed

\* A step in which client c does nothing: what it keeps open has to stay open, and
\* what it waits for has to stay what it asked for.
LEMMA Frame ==
    ASSUME Typed, Held, NEW c \in Clients, InTune(c)' => InTune(c),
           call'[c] = call[c], prog'[c] = prog[c], \A d \in Clients : Named(d)' = Named(d),
           \A p \in Paths : InTune(c) /\ InTune(c)' /\ Alone(c, p) =>
              /\ ~Closing(c) /\ KeptOpen(p) => KeptOpen(p)'
              /\ call[c].phase = "status" /\ Opening(c, p) => Pending(c, p)'
    PROVE  Keeps(c)'
<1> SUFFICES ASSUME InTune(c)', prog'[c].files # <<>>, Alone(c, name(c))'
             PROVE  Holds(c, name(c))'
  BY DEF Keeps
<1>1. PICK p \in Paths : p = name(c) /\ name(c)' = p
  BY InProgram DEF name, Typed
<1>2. Alone(c, p)
  BY <1>1 DEF Alone
<1>3. Holds(c, p)
  BY <1>1, <1>2 DEF Held, Keeps
<1>4. /\ ~Closing(c) /\ KeptOpen(p) => KeptOpen(p)'
      /\ call[c].phase = "status" /\ Opening(c, p) => Pending(c, p)'
  BY <1>2
<1>5. ASSUME prog[c].at = "opened" PROVE Opening(c, p)'
  <2>1. Opening(c, p)
    BY <1>3, <1>5 DEF Holds
  <2>2. KeptOpen(p) => KeptOpen(p)'
    BY <1>4, <2>1 DEF Opening, Closing
  <2> QED BY <1>4, <2>1, <2>2 DEF Opening
<1>6. ASSUME prog[c].at = "used" PROVE Using(c, p)'
  BY <1>3, <1>4, <1>6 DEF Holds, Using, Closing
<1>7. ASSUME prog[c].at = "got", call[c].op = "READ"
      PROVE  call'[c].phase = "none" /\ KeptOpen(p)'
  BY <1>3, <1>4, <1>7 DEF Holds, Closing
<1>8. Holds(c, p)'
  BY <1>5, <1>6, <1>7 DEF Holds
<1> QED BY <1>1, <1>8 DEF Holds, Opening, Pending, Using, KeptOpen

\* A client that is left out of a step.
LEMMA Beside ==
    ASSUME Typed, Held, NEW c \in Clients, InTune(c)' => InTune(c), sent'[c] = sent[c],
           call'[c] = call[c], prog'[c] = prog[c], \A d \in Clients : Named(d)' = Named(d),
           InTune(c)' => Coming(c)' = Coming(c),
           req'.fd # c \/ UNCHANGED <<phase, req, answer>>,
           \A p \in Paths : InTune(c) /\ InTune(c)' /\ Alone(c, p) /\ ~Closing(c) /\ KeptOpen(p)
                            => KeptOpen(p)'
    PROVE  Keeps(c)'
<1>1. ASSUME NEW p \in Paths, InTune(c), InTune(c)', Alone(c, p), call[c].phase = "status",
             Opening(c, p)
      PROVE  Pending(c, p)'
  <2>1. Pending(c, p) /\ ~Closing(c) /\ (KeptOpen(p) => KeptOpen(p)')
    BY <1>1 DEF Opening, Closing
  <2>2. req'.fd = c /\ Unanswered' =>
           req'.path = req.path /\ phase' = phase /\ req.fd = c /\ Unanswered
    BY DEF Unanswered
  <2>3. PICK s, k : s = Coming(c) /\ k = call[c]
    OBVIOUS
  <2>4. Coming(c)' = s /\ call'[c] = k
    BY <1>1, <2>3
  <2> QED BY <2>1, <2>2, <2>3, <2>4 DEF Pending
<1> QED BY <1>1, Frame

LEMMA TakeHeld ==
    ASSUME Typed, Order, Held, NEW d \in Clients, Take(d), UNCHANGED prog, NEW c \in Clients
    PROVE  Keeps(c)'
<1>0. /\ outbox = <<>> /\ UNCHANGED <<store, outbox, sock, conn, call, cause, fault>>
      /\ sent \in [Clients -> Seq(AnyRequest)] /\ sent[d] \in Seq(Asked(d)) /\ sent[d] # <<>>
  BY DEF Take, Live, Receive, Typed, SocketTyped
<1>1. /\ req' = Head(sent[d]) /\ Head(sent[d]) = sent[d][1] /\ sent[d][1] \in Asked(d)
      /\ phase' = "begun" /\ sent' = [sent EXCEPT ![d] = Tail(@)]
  BY <1>0 DEF Take, Receive
<1>2. req'.fd = d
  BY <1>1 DEF Asked
<1>3. /\ InTune(c)' <=> InTune(c)
      /\ \A x \in Clients : Named(x)' = Named(x)
      /\ \A p : KeptOpen(p)' <=> KeptOpen(p)
      /\ Coming(c)' = Coming(c)
  BY <1>0 DEF InTune, Named, KeptOpen, Coming
<1>4. CASE d # c
  BY <1>0, <1>1, <1>2, <1>3, <1>4, Beside
<1>5. CASE d = c
  <2>1. ASSUME NEW p \in Paths, InTune(c), call[c].phase = "status", Opening(c, p)
        PROVE  Pending(c, p)'
    <3>1. Ordered(c, Coming(c), sent[c], call[c])
      BY <2>1 DEF Order, InOrder, InTune
    <3>2. Coming(c) = <<>> /\ Len(sent[c]) = 1
      BY <1>0, <1>5, <2>1, <3>1 DEF Ordered, Waiting, Answered
    <3>3. PICK s \in Seq(Asked(c)) : s = sent[c]
      BY <1>0, <1>5
    <3>4. sent'[c] = <<>>
      BY <1>0, <1>1, <1>5, <3>2, <3>3, Single
    <3>5. req'.path = p
      BY <1>0, <1>1, <1>5, <2>1 DEF Opening, Pending
    <3> QED BY <1>1, <1>3, <3>2, <3>4, <3>5 DEF Pending
  <2> QED BY <1>0, <1>3, <2>1, Frame
<1> QED BY <1>4, <1>5

LEMMA ServeFullHeld ==
    ASSUME Typed, Order, Held, ServeFull, UNCHANGED prog, NEW c \in Clients
    PROVE  Keeps(c)'
<1>1. PICK ps \in SeqOf(Paths, MaxVictims) :
         MakeRoom(ps) /\ outbox' = <<Item("number", Len(ps))>>
  BY DEF ServeFull
<1>2. /\ phase = "full" /\ phase' = "evict" /\ outbox = <<>>
      /\ UNCHANGED <<store, req, answer, sent, sock, call, conn, cause, fault>>
  BY <1>1 DEF MakeRoom, ServeFull, Live
<1>3. /\ InTune(c)' <=> InTune(c)
      /\ \A x \in Clients : Named(x)' = Named(x)
      /\ \A p : KeptOpen(p)' <=> KeptOpen(p)
  BY <1>2 DEF InTune, Named, KeptOpen
<1>4. CASE req.fd # c
  <2>1. Coming(c)' = Coming(c)
    BY <1>2, <1>4 DEF Coming
  <2> QED BY <1>2, <1>3, <1>4, <2>1, Beside
<1>5. CASE req.fd = c
  <2>1. ASSUME NEW p \in Paths, InTune(c), call[c].phase = "status", Opening(c, p)
        PROVE  Pending(c, p)'
    <3>1. Ordered(c, Coming(c), sent[c], call[c])
      BY <2>1 DEF Order, InOrder, InTune
    <3>2. ~Finished /\ ~Unanswered /\ ~Unanswered'
      BY <1>2 DEF Finished, Unanswered
    <3>3. Coming(c) # <<>>
      BY <1>5, <2>1, <3>1, <3>2 DEF Ordered, Waiting, Answered, Rest
    <3>4. PICK s \in Seq(Items) : s = sock[c]
      BY DEF Typed, SocketTyped
    <3>5. Coming(c) = s
      BY <1>2, <3>4 DEF Coming
    <3>6. Coming(c)' = s \o <<Item("number", Len(ps))>>
      BY <1>1, <1>2, <1>5, <3>4 DEF Coming
    <3>7. PICK i : i = Item("number", Len(ps))
      OBVIOUS
    <3>8. Head(s \o <<i>>) = Head(s)
      BY <3>3, <3>5
    <3>9. Pending(c, p)
      BY <2>1 DEF Opening
    <3>10. Head(Coming(c)') = Head(Coming(c))
      BY <3>5, <3>6, <3>7, <3>8
    <3> QED BY <1>2, <1>3, <3>2, <3>3, <3>9, <3>10 DEF Pending
  <2> QED BY <1>2, <1>3, <2>1, Frame
<1> QED BY <1>4, <1>5

\* The server answers the request to open a file.
LEMMA OpenAnswered ==
    ASSUME Typed, Order, Theirs, Held, Serve, NEW c \in Clients, req.fd = c, InTune(c),
           NEW p \in Paths, call[c].phase = "status", Opening(c, p), Unanswered
    PROVE  Pending(c, p)'
<1>0. /\ Step /\ StoreTyped /\ outbox = <<>> /\ phase # "idle"
      /\ UNCHANGED <<sock, call>>
  BY StepTyped DEF Serve, Live, Typed
<1>1. /\ call[c].op = req.op /\ Coming(c) = <<>> /\ sent[c] = <<>>
  BY OwnCall
<1>2. req.op \in {"O_CREATE", "O_OPEN"} /\ req.path = p /\ (phase = "expel" => KeptOpen(p))
  BY <1>1 DEF Opening, Pending
<1>3. sock[c] = <<>>
  <2>1. PICK s \in Seq(Items) : s = sock[c]
    BY DEF Typed, SocketTyped
  <2>2. s \o <<>> = s
    OBVIOUS
  <2> QED BY <1>0, <1>1, <2>1, <2>2 DEF Coming
<1>4. phase # "done"
  BY <1>2 DEF Unanswered
<1>5. sent'[c] = <<>>
  BY <1>1, <1>4 DEF Serve
<1>6. PICK S \in BucketsSent, torn \in BOOLEAN : outbox' = NewStatus \o Content(S, torn)
  BY DEF Serve
<1>7. PICK y \in Seq(Items) : y = Content(S, torn)
  BY <1>0, ContentTyped
<1>8. <<>> \o outbox' = outbox'
  BY <1>0, <1>6, ContentTyped, ServeTyped DEF Typed, SocketTyped
<1>9. req' = req => Coming(c)' = outbox'
  BY <1>0, <1>3, <1>8 DEF Coming
<1>10. answer = <<>>
  BY DEF Unanswered
<1>11. CASE /\ phase = "begun" /\ phase' = "expel" /\ answer' = answer /\ UNCHANGED req
            /\ KeptOpen(p)'
  <2>1. NewStatus = <<>>
    BY <1>10, <1>11 DEF NewStatus
  <2>2. Content(S, torn) = <<>>
    BY <1>2, <1>11 DEF Content
  <2>3. Coming(c)' = <<>>
    BY <1>6, <1>9, <1>11, <2>1, <2>2
  <2> QED BY <1>2, <1>5, <1>11, <2>3 DEF Pending
<1>12. ASSUME NEW s \in Statuses, phase' = "done", UNCHANGED req, answer' = <<s>>,
              Returns(req.op, s) = 1 => KeptOpen(p)'
       PROVE  Pending(c, p)'
  <2>1. NewStatus = <<Status(s)>>
    BY <1>10, <1>12 DEF NewStatus
  <2>2. PICK i : i = Status(s)
    OBVIOUS
  <2>3. outbox' = <<i>> \o y /\ i.val = s
    BY <1>6, <1>7, <2>1, <2>2 DEF Status
  <2>4. Head(<<i>> \o y) = i
    BY <1>7
  <2>5. ~Unanswered'
    BY <1>12 DEF Unanswered
  <2>6. Head(Coming(c)').val = s
    BY <1>9, <1>12, <2>3, <2>4
  <2> QED BY <1>0, <1>1, <1>5, <1>12, <2>5, <2>6 DEF Pending
<1> QED BY <1>0, <1>2, <1>11, <1>12, OpenServed

LEMMA OpenFinished ==
    ASSUME Typed, Order, Theirs, Held, Serve, NEW c \in Clients, req.fd = c, InTune(c),
           NEW p \in Paths, Alone(c, p), call[c].phase = "status", Opening(c, p), Finished
    PROVE  Pending(c, p)'
<1>0. /\ Step /\ StoreTyped /\ outbox = <<>> /\ phase # "idle"
      /\ UNCHANGED <<sock, call>>
  BY StepTyped DEF Serve, Live, Typed
<1>1. Pending(c, p) /\ ~Closing(c)
  BY DEF Opening, Closing
<1>2. KeptOpen(p) => KeptOpen(p)'
  BY <1>1, ServeKeeps
<1>3. PICK S \in BucketsSent, torn \in BOOLEAN : outbox' = NewStatus \o Content(S, torn)
  BY DEF Serve
<1>4. Growth(c, NewStatus \o Content(S, torn))
  BY <1>0, FinishedGrows
<1>5. PICK items \in Seq(Items) : items = outbox' /\ Growth(c, items)
  BY <1>3, <1>4 DEF Growth
<1>6. sent'[c] = sent[c]
  BY DEF Serve, Finished
<1>7. req'.fd = c => ~Unanswered'
  BY <1>5 DEF Growth, Finished, Unanswered
<1>8. PICK s \in Seq(Items) : s = sock[c]
  BY DEF Typed, SocketTyped
<1>9. Coming(c) = s
  BY <1>0, <1>8 DEF Coming
<1>10. Coming(c)' = s \/ Coming(c)' = s \o items
  <2>1. PICK o : o = IF req'.fd = c THEN items ELSE <<>>
    OBVIOUS
  <2>2. Coming(c)' = s \o o
    BY <1>0, <1>5, <1>8, <2>1 DEF Coming
  <2>3. s \o <<>> = s
    OBVIOUS
  <2> QED BY <2>1, <2>2, <2>3
<1>11. CASE s = <<>>
  <2>1. Ordered(c, s, sent[c], call[c])
    BY <1>9 DEF Order, InOrder, InTune
  <2>2. Rest(c, <<>>, 0)
    BY <1>11, <2>1 DEF Ordered, Waiting, Answered, Unanswered, Finished
  <2>3. items = <<>>
    BY <1>5, <2>2 DEF Growth, Rest
  <2>4. Coming(c)' = <<>>
    BY <1>10, <1>11, <2>3
  <2> QED BY <1>1, <1>6, <1>7, <2>4 DEF Pending
<1>12. CASE s # <<>>
  <2>1. Head(s \o items) = Head(s)
    BY <1>12
  <2>2. Head(Coming(c)') = Head(Coming(c)) /\ Coming(c) # <<>>
    BY <1>9, <1>10, <1>12, <2>1
  <2> QED BY <1>0, <1>1, <1>2, <1>6, <1>7, <2>2 DEF Pending
<1> QED BY <1>11, <1>12

LEMMA ServeHeld ==
    ASSUME Typed, Order, Theirs, Held, Serve, UNCHANGED prog, NEW c \in Clients
    PROVE  Keeps(c)'
<1>0. /\ Step /\ StoreTyped /\ phase # "idle" /\ outbox = <<>>
      /\ UNCHANGED <<sock, conn, call, fault>>
  BY StepTyped DEF Serve, Live, Typed
<1>1. PICK d \in Clients : req.fd = d /\ d # NONE
  BY <1>0, StoreAssumption DEF StoreTyped, Hand, Asked
<1>2. PICK items : cause' = [cause EXCEPT ![d] = Unread(items)]
  BY <1>1 DEF Serve
<1>3. cause'[c] = "none" => cause[c] = "none"
  BY <1>1, <1>2 DEF Unread, Typed, SocketTyped
<1>4. /\ InTune(c)' => InTune(c)
      /\ \A x \in Clients : Named(x)' = Named(x)
  BY <1>0, <1>3 DEF InTune, Named
<1>5. \A p \in Paths : InTune(c) /\ Alone(c, p) /\ ~Closing(c) /\ KeptOpen(p) => KeptOpen(p)'
  BY ServeKeeps
<1>6. CASE d # c
  <2>1. UNCHANGED req \/ Ready
    BY <1>0 DEF Step, Create, Expel, Missing, Open, OpenLocked, LockFile, UnlockFile, CloseFile,
         Read, Write, Count, Evict, Evicted, AppendBegin, AppendEnd, RemoveFile, Removed, ReadN,
         CloseConnection, Release, Finish, Reply, Silently
  <2>2. req.fd # c /\ req'.fd # c
    BY <1>1, <1>6, <2>1, StoreAssumption DEF Ready, NoRequest
  <2>3. Coming(c)' = Coming(c)
    BY <1>0, <2>2 DEF Coming
  <2>4. sent'[c] = sent[c]
    BY <1>1, <1>6 DEF Serve, Typed, SocketTyped
  <2> QED BY <1>0, <1>4, <1>5, <2>2, <2>3, <2>4, Beside
<1>7. CASE d = c
  <2>1. ASSUME NEW p \in Paths, InTune(c), Alone(c, p), call[c].phase = "status", Opening(c, p)
        PROVE  Pending(c, p)'
    <3>1. Ordered(c, Coming(c), sent[c], call[c])
      BY <2>1 DEF Order, InOrder, InTune
    <3>2. ~Full
      BY <1>0 DEF Full, Step, Create, Expel, Missing, Open, OpenLocked, LockFile, UnlockFile,
           CloseFile, Read, Write, Count, Evict, Evicted, AppendBegin, AppendEnd, RemoveFile,
           Removed, ReadN, CloseConnection, Release, Finish, Serving
    <3>3. Unanswered \/ Finished
      BY <1>1, <1>7, <3>1, <3>2, Holding
    <3> QED BY <1>1, <1>7, <2>1, <3>3, OpenAnswered, OpenFinished
  <2> QED BY <1>0, <1>4, <1>5, <2>1, Frame
<1> QED BY <1>6, <1>7

\* What a read makes of a call that stays in tune.
LEMMA ReadMoves ==
    ASSUME Typed, NEW c \in Clients, Reads(c), InTune(c)'
    PROVE  /\ InTune(c) /\ UNCHANGED <<store, sent>>
           /\ call[c].phase # "none"
           /\ call'[c].op = call[c].op /\ call'[c].phase # "status"
           /\ call'[c].ret = 1 =>
                 \/ call[c].phase # "status" /\ call[c].ret = 1
                 \/ /\ call[c].phase = "status" /\ sock[c] # <<>>
                    /\ Returns(call[c].op, Head(sock[c]).val) = 1
<1>1. call \in [Clients -> Call] /\ conn \in [Clients -> {"none", "up", "failed", "ended"}]
      /\ cause \in [Clients -> {"none", "append", "buckets", "folder"}]
  BY DEF Typed, SocketTyped
<1>2. ~Garbled(c) /\ ~EndOfFile(c)
  BY DEF Garbled, EndOfFile, InTune
<1>3. UNCHANGED <<store, sent>>
  BY DEF Reads, readStatus, readNumber, readAFile, readBody, Garbled, EndOfFile, Consumed, server,
         svars
<1>4. InTune(c) /\ call[c].phase # "none"
  BY <1>1, <1>2 DEF InTune, Reads, readStatus, readNumber, readAFile, readBody, Reading, Exit
<1>5. ASSUME NEW ph, NEW left, NEW ret, NEW n, Goes(c, ph, left, ret, n)
      PROVE  call'[c].op = call[c].op /\ call'[c].phase = ph /\ call'[c].ret = ret
  BY <1>1, <1>5 DEF Goes, Call
<1>6. CASE readStatus(c)
  <2>1. \A op, s : Follows(op, s) # "status"
    BY DEF Follows
  <2>2. PICK i : i = Head(sock[c])
    OBVIOUS
  <2>3. CASE Goes(c, Follows(call[c].op, i.val),
                  IF Follows(call[c].op, i.val) = "file" THEN 1 ELSE 0,
                  Returns(call[c].op, i.val), 0)
    BY <1>3, <1>4, <1>5, <1>6, <2>1, <2>2, <2>3 DEF readStatus, Reading
  <2>4. CASE Goes(c, "none", 0, -1, 0)
    BY <1>3, <1>4, <1>5, <2>4
  <2> QED BY <1>6, <2>2, <2>3, <2>4 DEF readStatus
<1>7. CASE readNumber(c)
  <2>1. PICK ph \in {"none", "file"} : \E n : Goes(c, ph, n, call[c].ret, 0)
    BY <1>7 DEF readNumber
  <2> QED BY <1>3, <1>4, <1>5, <1>7, <2>1 DEF readNumber, Reading
<1>8. CASE readAFile(c)
  <2>1. conn'[c] # "ended"
    BY DEF InTune
  <2>2. PICK ph \in {"none", "file"}, ret \in {call[c].ret, -1} : \E n : Goes(c, ph, n, ret, 0)
    <3>1. PICK l : l = call[c].left - 1
      OBVIOUS
    <3>2. ~Exit(c)
      BY <1>1, <2>1 DEF Exit
    <3>3. \/ Goes(c, IF l = 0 THEN "none" ELSE "file", l, call[c].ret, 0)
          \/ Goes(c, "none", 0, -1, 0)
      BY <1>8, <3>1, <3>2 DEF readAFile
    <3> QED BY <3>3
  <2> QED BY <1>3, <1>4, <1>5, <1>8, <2>2 DEF readAFile, Reading
<1>9. CASE readBody(c)
  BY <1>3, <1>4, <1>5, <1>9 DEF readBody, Reading
<1> QED BY <1>2, <1>6, <1>7, <1>8, <1>9 DEF Reads

LEMMA ReadsHeld ==
    ASSUME Typed, Order, Held, NEW d \in Clients, Reads(d), UNCHANGED prog, NEW c \in Clients
    PROVE  Keeps(c)'
<1>0. UNCHANGED <<store, phase, req, answer, outbox>>
  BY DEF Reads, readStatus, readNumber, readAFile, readBody, Garbled, EndOfFile, Consumed, server,
         svars
<1>1. \A x \in Clients : Named(x)' = Named(x)
  BY DEF Named
<1>2. \A p : KeptOpen(p)' <=> KeptOpen(p)
  BY <1>0 DEF KeptOpen
<1>3. CASE d # c
  <2>1. /\ sent'[c] = sent[c] /\ sock'[c] = sock[c] /\ conn'[c] = conn[c]
        /\ call'[c] = call[c] /\ cause'[c] = cause[c] /\ (fault' = "none" => fault = "none")
    BY <1>3 DEF Reads, readStatus, readNumber, readAFile, readBody, Garbled, EndOfFile, Consumed,
         Goes, Exit, Typed, SocketTyped
  <2>2. (InTune(c)' => InTune(c)) /\ Coming(c)' = Coming(c)
    BY <1>0, <2>1 DEF InTune, Coming
  <2> QED BY <1>0, <1>1, <1>2, <2>1, <2>2, Beside
<1>4. CASE d = c
  <2> SUFFICES ASSUME InTune(c)', prog[c].files # <<>>, Alone(c, name(c))'
               PROVE  Holds(c, name(c))'
    BY DEF Keeps
  <2>1. PICK p \in Paths : p = name(c) /\ name(c)' = p
    BY InProgram DEF name, Typed
  <2>2. /\ InTune(c) /\ call[c].phase # "none"
        /\ call'[c].op = call[c].op /\ call'[c].phase # "status"
        /\ call'[c].ret = 1 =>
              \/ call[c].phase # "status" /\ call[c].ret = 1
              \/ /\ call[c].phase = "status" /\ sock[c] # <<>>
                 /\ Returns(call[c].op, Head(sock[c]).val) = 1
    BY <1>4, ReadMoves
  <2>3. Alone(c, p)
    BY <1>1, <2>1 DEF Alone
  <2>4. Holds(c, p)
    BY <2>1, <2>2, <2>3 DEF Held, Keeps
  <2>5. ASSUME prog[c].at = "opened" PROVE Opening(c, p)'
    <3>1. Opening(c, p)
      BY <2>4, <2>5 DEF Holds
    <3>2. call'[c].ret = 1 => KeptOpen(p)
      <4> SUFFICES ASSUME call[c].phase = "status", sock[c] # <<>>,
                          Returns(call[c].op, Head(sock[c]).val) = 1
                   PROVE  KeptOpen(p)
        BY <2>2, <3>1 DEF Opening
      <4>1. Coming(c) # <<>> /\ Head(Coming(c)) = Head(sock[c])
        BY FirstComing
      <4> QED BY <3>1, <4>1 DEF Opening, Pending
    <3> QED BY <1>2, <2>2, <3>1, <3>2 DEF Opening
  <2>6. ASSUME prog[c].at = "used" PROVE Using(c, p)'
    BY <1>2, <2>2, <2>4, <2>6 DEF Holds, Using, Closing
  <2>7. ASSUME prog[c].at = "got", call[c].op = "READ" PROVE FALSE
    BY <2>2, <2>4, <2>7 DEF Holds
  <2>8. Holds(c, p)'
    BY <2>2, <2>5, <2>6, <2>7 DEF Holds
  <2> QED BY <2>1, <2>8 DEF Holds, Opening, Pending, Using, KeptOpen
<1> QED BY <1>3, <1>4

\* Where a step of the program leads it, as far as it concerns a file that is open.
Opens(c) == /\ prog'[c].at = "opened"
            /\ \E flag \in {"O_CREATE", "O_OPEN"} : openFile(c, flag, name(c))
Uses(c) == /\ prog[c].at = "opened" /\ result(c) = 1 /\ prog'[c].at = "used"
           /\ \/ Refused(c)
              \/ \E op \in AllOps \ {"CLOSE"} : \E n, d : Request(c, op, name(c), n, d)
Skips(c) == /\ prog[c].at = "opened" /\ result(c) # 1 /\ prog'[c].at = "got" /\ Quietly
Gets(c) == prog[c].at = "used" /\ prog'[c].at = "got" /\ Quietly
Passes(c) == /\ prog'[c].files = prog[c].files
             /\ Opens(c) \/ Uses(c) \/ Skips(c) \/ Gets(c)

LEMMA MainMoves ==
    ASSUME Typed, NEW c \in Clients, Main(c)
    PROVE  \/ fault' # "none" \/ conn'[c] = "ended"
           \/ prog'[c].at \notin {"opened", "used", "got"}
           \/ Passes(c)
<1> DEFINE Goal == \/ fault' # "none" \/ conn'[c] = "ended"
                   \/ prog'[c].at \notin {"opened", "used", "got"}
                   \/ Passes(c)
<1>1. PICK f \in Programs : f = prog[c]
  BY DEF Typed, ProgTyped
<1>2. \A g : Now(c, g) => prog'[c] = g
  BY DEF Now, Typed, ProgTyped
<1>3. \A at : Goto(c, at) => prog'[c].at = at /\ prog'[c].files = prog[c].files
  BY <1>1, <1>2 DEF Goto, Programs
<1>4. NextFile(c) \/ NextOption(c) => Goal
  BY <1>1, <1>2 DEF NextFile, NextOption, Programs
<1>5. Stop(c) \/ Breaks("wild") \/ Breaks("freed") => Goal
  BY DEF Stop, Breaks, Exit, Typed, SocketTyped
<1>6. GiveUp(c) \/ ParseBreaks(c) \/ Return(c) => Goal
  BY <1>5 DEF GiveUp, ParseBreaks, Return
<1>7. BeginFiles(c) => Goal
  BY <1>1, <1>2 DEF BeginFiles, Programs
<1>8. BeginAppend(c) => Goal
  BY <1>1, <1>2, <1>4, <1>5 DEF BeginAppend, Programs
<1>9. BeginWalk(c) => Goal
  BY <1>1, <1>2, <1>5 DEF BeginWalk, Programs
<1>10. visitaDir(c) => Goal
  <2> SUFFICES ASSUME visitaDir(c) PROVE Goal
    OBVIOUS
  <2>1. PICK w, e, rest : /\ w = prog[c].walk /\ e = Head(Head(w))
                          /\ rest = <<Tail(Head(w))>> \o Tail(w)
    OBVIOUS
  <2>2. prog[c].at = "walk"
    BY DEF visitaDir, At
  <2>3. ASSUME NEW v, Now(c, [prog[c] EXCEPT !.walk = v]) PROVE Goal
    BY <1>1, <1>2, <2>2, <2>3 DEF Programs
  <2>4. CASE Now(c, [prog[c] EXCEPT !.walk = rest, !.nvisit = @ - 1, !.files = <<e>>,
                                    !.at = "open", !.offered = Append(@, e)])
    BY <1>1, <1>2, <2>4 DEF Programs
  <2>5. \/ NextOption(c)
        \/ \E v : Now(c, [prog[c] EXCEPT !.walk = v])
        \/ Now(c, [prog[c] EXCEPT !.walk = rest, !.nvisit = @ - 1, !.files = <<e>>,
                                  !.at = "open", !.offered = Append(@, e)])
    <3>1. \/ NextOption(c) \/ Now(c, [prog[c] EXCEPT !.walk = Tail(w)])
          \/ Now(c, IF e \notin DOMAIN Entries
                    THEN [prog[c] EXCEPT !.walk = rest, !.nvisit = @ - 1, !.files = <<e>>,
                                         !.at = "open", !.offered = Append(@, e)]
                    ELSE IF e \in Hidden THEN [prog[c] EXCEPT !.walk = rest]
                    ELSE [prog[c] EXCEPT !.walk = <<Entries[e]>> \o rest])
      BY <2>1, Zenon DEF visitaDir
    <3> QED BY <3>1, Zenon
  <2> QED BY <1>4, <2>3, <2>4, <2>5
<1>11. EndFiles(c) => Goal
  BY <1>3, <1>4 DEF EndFiles
<1>12. letturaRandom(c) \/ RemoveFiles(c) \/ CloseDown(c) => Goal
  BY <1>3, <1>4 DEF letturaRandom, RemoveFiles, CloseDown
<1>13. \A flag \in {"O_CREATE", "O_OPEN"} :
          openFile(c, flag, name(c)) /\ Goto(c, "opened") => Goal
  BY <1>3 DEF Passes, Opens
<1>14. ASSUME prog[c].at = "opened", result(c) = 1, Goto(c, "used"),
              \/ writeFile(c, name(c), prog[c].cmd.D) \/ readFile(c, name(c))
              \/ appendToFile(c, name(c)) \/ lockFile(c, name(c)) \/ unlockFile(c, name(c))
       PROVE  Goal
  <2>1. {"WRITE", "READ", "APPEND", "LOCKS", "UNLOCKS"} \subseteq AllOps \ {"CLOSE"}
    BY DEF AllOps
  <2>2. Refused(c) \/ \E op \in AllOps \ {"CLOSE"} : \E n, d : Request(c, op, name(c), n, d)
    BY <1>14, <2>1 DEF writeFile, readFile, appendToFile, lockFile, unlockFile
  <2>3. prog'[c].at = "used" /\ prog'[c].files = prog[c].files
    BY <1>3, <1>14
  <2> QED BY <1>14, <2>2, <2>3 DEF Passes, Uses
<1>15. CreateWrite(c) => Goal
  BY <1>4, <1>13, <1>14 DEF CreateWrite, AtFile, At
<1>16. append(c) => Goal
  BY <1>4, <1>13, <1>14 DEF append, AtFile, At
<1>17. LockFiles(c) => Goal
  BY <1>4, <1>13, <1>14 DEF LockFiles, AtFile, At
<1>18. saveFile(c) => Goal
  BY <1>1, <1>2, <1>4, <1>5 DEF saveFile, Programs
<1>19. letturaFiles(c) => Goal
  <2> SUFFICES ASSUME letturaFiles(c) PROVE Goal
    OBVIOUS
  <2>1. CASE prog[c].at = "opened" /\ result(c) # 1 /\ Goto(c, "got") /\ Quietly
    BY <1>3, <2>1 DEF Passes, Skips
  <2>2. CASE /\ prog[c].at = "used" /\ Quietly
             /\ Now(c, [f EXCEPT !.at = "got", !.result2 = 1, !.buf = "held"])
    <3>1. prog'[c].at = "got" /\ prog'[c].files = f.files
      BY <1>2, <2>2 DEF Programs
    <3> QED BY <1>1, <2>2, <3>1 DEF Passes, Gets
  <2>3. CASE Now(c, [f EXCEPT !.at = "open", !.result2 = -1, !.files = Tail(@)])
    BY <1>2, <2>3 DEF Programs
  <2> QED BY <1>1, <1>4, <1>13, <1>14, <2>1, <2>2, <2>3 DEF letturaFiles, AtFile, At
<1> QED BY <1>6, <1>7, <1>8, <1>9, <1>10, <1>11, <1>12, <1>15, <1>16, <1>17, <1>18, <1>19 DEF Main

\* A call that is made in tune, of its own request or of none.
LEMMA Made ==
    ASSUME Typed, Order, NEW c \in Clients, Free(c), InTune(c)', cause'[c] = cause[c], NEW p
    PROVE  /\ InTune(c)
           /\ Refused(c) => /\ call'[c].op = NONE /\ call'[c].phase = "none"
                            /\ call'[c].ret = -1 /\ UNCHANGED <<phase, req, answer>>
           /\ \A op, n, d : Request(c, op, p, n, d) =>
                 /\ call'[c].op = op /\ call'[c].phase = "status" /\ call'[c].ret # 1
                 /\ Pending(c, p)'
<1>1. InTune(c)
  BY DEF Free, InTune
<1>2. Refused(c) => /\ call'[c].op = NONE /\ call'[c].phase = "none"
                    /\ call'[c].ret = -1 /\ UNCHANGED <<phase, req, answer>>
  BY DEF Refused, NoCall, server, svars, Typed, SocketTyped
<1>3. ASSUME NEW op, NEW n, NEW d, Request(c, op, p, n, d)
      PROVE  /\ call'[c].op = op /\ call'[c].phase = "status" /\ call'[c].ret # 1
             /\ Pending(c, p)'
  <2>1. PICK r, k : /\ r = [op |-> op, path |-> p, size |-> n, fd |-> c]
                    /\ k = [NoCall EXCEPT !.op = op, !.phase = "status", !.folder = d]
    OBVIOUS
  <2>2. /\ sent' = [sent EXCEPT ![c] = Append(@, r)] /\ call' = [call EXCEPT ![c] = k]
        /\ UNCHANGED <<sock, phase, req, answer, outbox>>
    BY <1>3, <2>1 DEF Request, Exit, InTune, server, svars, Typed, SocketTyped
  <2>3. call'[c] = k /\ k.op = op /\ k.phase = "status" /\ k.ret # 1
    BY <2>1, <2>2 DEF NoCall, Typed, SocketTyped
  <2>4. Ordered(c, Coming(c), sent[c], call[c])
    BY <1>1 DEF Order, InOrder, InTune
  <2>5. sent[c] = <<>> /\ Rest(c, Coming(c), 0)
    BY <2>4 DEF Free, Ordered, After
  <2>6. Coming(c) = <<>>
    <3>1. Coming(c) \in Seq(Items)
      BY Joined DEF Coming, Typed, SocketTyped
    <3>2. Owed(c) \in Nat
      BY DEF Owed, Typed, StoreTyped, Hand
    <3> QED BY <2>5, <3>1, <3>2 DEF Rest
  <2>7. Coming(c)' = <<>>
    BY <2>2, <2>6 DEF Coming
  <2>8. sent'[c] = Append(<<>>, r)
    BY <2>2, <2>5 DEF Typed, SocketTyped
  <2>9. Head(sent'[c]).path = p
    BY <2>1, <2>8
  <2>10. req.fd = c => ~Unanswered /\ ~Unanswered'
    BY <2>2, <2>5 DEF Rest, Finished, Unanswered
  <2> QED BY <2>2, <2>3, <2>7, <2>9, <2>10 DEF Pending
<1> QED BY <1>1, <1>2, <1>3

\* What a call of client d leaves alone.
LEMMA CallAside ==
    ASSUME Typed, NEW d \in Clients, CallStep(d), NEW c \in Clients
    PROVE  /\ cause' = cause /\ (fault' = "none" => fault = "none" \/ ~Free(d))
           /\ c # d => /\ sent'[c] = sent[c] /\ sock'[c] = sock[c]
                       /\ conn'[c] = conn[c] /\ call'[c] = call[c]
<1>1. CASE UNCHANGED apivars
  BY <1>1 DEF apivars
<1>2. CASE Sends(d)
  BY <1>2 DEF Sends, Request, Exit, Free, Typed, SocketTyped
<1>3. CASE Refused(d) \/ Fails
  BY <1>3 DEF Refused, Fails, Free, Typed, SocketTyped
<1>4. CASE Leaves(d)
  BY <1>4 DEF Leaves, Exit, Typed, SocketTyped
<1> QED BY <1>1, <1>2, <1>3, <1>4 DEF CallStep

\* A client goes on in its program.
LEMMA MainHeld ==
    ASSUME Typed, Order, Theirs, Held, NEW d \in Clients, Main(d), NEW c \in Clients
    PROVE  Keeps(c)'
<1>1. CallStep(d) /\ Free(d)
  BY MainStep DEF ProgStep, Typed
<1>2. UNCHANGED <<store, phase, req, answer, outbox>>
  BY <1>1, CallServer DEF server, svars
<1>3. \A x \in Clients : Named(x)' = Named(x)
  BY MainOwn, NamesKept
<1>4. cause' = cause
  BY <1>1, CallAside
<1>5. \A p : KeptOpen(p)' <=> KeptOpen(p)
  BY <1>2 DEF KeptOpen
<1>6. CASE d # c
  <2>1. /\ sent'[c] = sent[c] /\ sock'[c] = sock[c] /\ conn'[c] = conn[c]
        /\ call'[c] = call[c] /\ (fault' = "none" => fault = "none")
    BY <1>1, <1>6, CallAside
  <2>2. (InTune(c)' => InTune(c)) /\ Coming(c)' = Coming(c)
    BY <1>2, <1>4, <2>1 DEF InTune, Coming
  <2>3. prog'[c] = prog[c]
    BY <1>6, MainOwn DEF Kept, Now, Typed, ProgTyped
  <2> QED BY <1>2, <1>3, <1>5, <2>1, <2>2, <2>3, Beside
<1>7. CASE d = c
  <2> SUFFICES ASSUME InTune(c)', prog'[c].files # <<>>, Alone(c, name(c))', Passes(c)
               PROVE  Holds(c, name(c))'
    BY <1>7, MainMoves DEF Keeps, InTune, Holds
  <2>1. PICK p : p = name(c) /\ name(c)' = p
    BY DEF name, Passes
  <2>2. InTune(c) /\ Alone(c, p) /\ prog[c].files # <<>> /\ call[c].phase = "none"
    BY <1>1, <1>3, <1>4, <1>7, <2>1 DEF Alone, Free, InTune, Passes
  <2>3. Holds(c, p)
    BY <2>1, <2>2 DEF Held, Keeps, InTune
  <2>4. /\ Refused(c) => /\ call'[c].op = NONE /\ call'[c].phase = "none"
                         /\ call'[c].ret = -1
        /\ \A op, n, e : Request(c, op, p, n, e) =>
              /\ call'[c].op = op /\ call'[c].phase = "status" /\ call'[c].ret # 1
              /\ Pending(c, p)'
    BY <1>1, <1>4, <1>7, Made
  <2>5. CASE Opens(c)
    <3>1. PICK flag \in {"O_CREATE", "O_OPEN"} : openFile(c, flag, p)
      BY <2>1, <2>5 DEF Opens
    <3>2. Refused(c) \/ Request(c, flag, p, 0, "none")
      BY <3>1 DEF openFile
    <3>3. Opening(c, p)'
      BY <2>4, <3>2, ApiAssumption DEF Opening, AllOps
    <3>4. prog'[c].at = "opened"
      BY <2>5 DEF Opens
    <3> QED BY <2>1, <3>3, <3>4 DEF Holds, Opening, Pending, KeptOpen
  <2>6. CASE Uses(c)
    <3>1. KeptOpen(p)
      BY <2>2, <2>3, <2>6 DEF Uses, Holds, Opening, result
    <3>2. call'[c].op # "CLOSE"
      BY <2>1, <2>4, <2>6, ApiAssumption DEF Uses, AllOps
    <3>3. Using(c, p)' /\ prog'[c].at = "used"
      BY <1>5, <2>6, <3>1, <3>2 DEF Uses, Using, Closing
    <3> QED BY <2>1, <3>3 DEF Holds, Using, KeptOpen
  <2>7. CASE Skips(c)
    <3>1. call'[c] = call[c] /\ prog'[c].at = "got"
      BY <2>7 DEF Skips, Quietly, apivars
    <3>2. call[c].op # "READ"
      BY <2>3, <2>7, ApiAssumption DEF Skips, Holds, Opening, AllOps
    <3> QED BY <2>1, <3>1, <3>2 DEF Holds
  <2>8. CASE Gets(c)
    <3>1. call'[c] = call[c] /\ prog'[c].at = "got" /\ KeptOpen(p)'
      BY <1>5, <2>3, <2>8 DEF Gets, Quietly, apivars, Holds, Using
    <3> QED BY <2>1, <2>2, <3>1 DEF Holds, KeptOpen
  <2> QED BY <2>5, <2>6, <2>7, <2>8 DEF Passes
<1> QED BY <1>6, <1>7

LEMMA HeldNext == ASSUME Typed, Order, Theirs, Held, [Next]_vars PROVE Held'
<1> SUFFICES ASSUME NEW c \in Clients PROVE Keeps(c)'
  BY DEF Held
<1>1. ASSUME UNCHANGED <<store, phase, req, answer, sent, call, cause, prog>>,
             InTune(c)' => InTune(c), InTune(c)' => Coming(c)' = Coming(c)
      PROVE  Keeps(c)'
  <2>1. /\ \A x \in Clients : Named(x)' = Named(x)
        /\ \A p : KeptOpen(p)' <=> KeptOpen(p)
    BY <1>1 DEF Named, KeptOpen
  <2> QED BY <1>1, <2>1, Beside
<1>2. CASE \/ UNCHANGED vars
           \/ (ServerStart \/ ServerGone) /\ UNCHANGED prog
           \/ \E d \in Clients : openConnection(d) /\ UNCHANGED prog
  <2>1. UNCHANGED <<store, phase, req, answer, outbox, sent, sock, call, cause, fault, prog>>
    BY <1>2 DEF vars, apivars, svars, ServerStart, ServerGone, openConnection, server
  <2>2. conn'[c] = "ended" \/ conn[c] # "ended"
    BY <1>2 DEF vars, apivars, ServerStart, ServerGone, openConnection, Typed, SocketTyped
  <2>3. Coming(c)' = Coming(c) /\ (InTune(c)' => InTune(c))
    BY <2>1, <2>2 DEF Coming, InTune
  <2> QED BY <1>1, <2>1, <2>3
<1>3. CASE Push /\ UNCHANGED prog
  <2>1. UNCHANGED <<store, phase, req, answer, sent, conn, call, cause, fault, prog>>
    BY <1>3 DEF Push, svars
  <2>2. InTune(c)' => InTune(c) /\ Coming(c)' = Coming(c)
    BY <1>3, <2>1, PushComing DEF InTune
  <2> QED BY <1>1, <2>1, <2>2
<1>4. CASE (Serve \/ ServeFull) /\ UNCHANGED prog
  BY <1>4, ServeHeld, ServeFullHeld
<1>5. ASSUME NEW d \in Clients, Take(d) \/ Reads(d), UNCHANGED prog PROVE Keeps(c)'
  BY <1>5, TakeHeld, ReadsHeld
<1>6. ASSUME NEW d \in Clients, Main(d) PROVE Keeps(c)'
  BY <1>6, MainHeld
<1> QED BY <1>2, <1>3, <1>4, <1>5, <1>6 DEF Next, ServerStep, ApiStep

LEMMA HeldIsOpen == ASSUME Typed, Order, Held PROVE OpenUntilClosed
<1> SUFFICES ASSUME NEW c \in Clients,
                    fault = "none", cause[c] = "none", Free(c), conn[c] = "up",
                    prog[c].at \in {"opened", "used", "got"}, prog[c].files # <<>>,
                    prog[c].at = "opened" => result(c) = 1,
                    prog[c].at = "got" => call[c].op = "READ",
                    name(c) \in stored, Alone(c, name(c))
             PROVE  store[name(c)].isopen = 1
  BY DEF OpenUntilClosed, Alone
<1>1. Holds(c, name(c))
  BY DEF Held, Keeps, InTune
<1>2. KeptOpen(name(c))
  BY <1>1 DEF Holds, Opening, Using, result, Free
<1> QED BY <1>2 DEF KeptOpen, stored

\* What a client has opened stays open for its write, read or close, for any
\* number of clients with any command lines: until it is expelled or removed, or
\* unless the command line of another client names it too, isopen being one for
\* all (server.c:703).
THEOREM StaysOpen == Spec => []OpenUntilClosed
<1>1. Init => Typed /\ Order /\ Theirs /\ Held
  BY InitTyped, InitOrder, InitTheirs
<1>2. Typed /\ Order /\ Theirs /\ Held /\ [Next]_vars => (Typed /\ Order /\ Theirs /\ Held)'
  BY TypedNext, OrderNext, TheirsNext, HeldNext
<1>3. Typed /\ Order /\ Theirs /\ Held => OpenUntilClosed
  BY HeldIsOpen
<1> QED BY <1>1, <1>2, <1>3, PTL DEF Spec

-----------------------------------------------------------------------------
(* The walk of -w: what FlattenSeq() returns *)

LEMMA Smallest ==
    ASSUME NEW T, T \subseteq Nat, T # {}
    PROVE  \E n \in T : \A m \in T : n <= m
<1>1. PICK n \in T : \A m \in T : ~(<<m, n>> \in OpToRel(<, Nat))
  BY NatLessThanWellFounded, WFMin
<1>2. \A m \in T : ~(m < n)
  BY <1>1 DEF OpToRel
<1> QED BY <1>2

\* f is the recursion by which FlattenSeq() joins the sequences of s.
Joins(f, s) == f = [i \in 1 .. Len(s) |-> IF i = 1 THEN s[i] ELSE f[i - 1] \o s[i]]

LEMMA JoinsLast ==
    ASSUME NEW s, s # <<>>, Len(s) # 0
    PROVE  FlattenSeq(s) = (CHOOSE f : Joins(f, s))[Len(s)]
BY DEF FlattenSeq, Joins

LEMMA JoinsType ==
    ASSUME NEW S, NEW s \in Seq(Seq(S)), NEW f, Joins(f, s)
    PROVE  /\ \A i \in 1 .. Len(s) : f[i] = IF i = 1 THEN s[i] ELSE f[i - 1] \o s[i]
           /\ \A i \in 1 .. Len(s) : f[i] \in Seq(S)
<1>1. \A i \in 1 .. Len(s) : f[i] = IF i = 1 THEN s[i] ELSE f[i - 1] \o s[i]
  BY DEF Joins
<1> DEFINE Bad == {i \in 1 .. Len(s) : f[i] \notin Seq(S)}
<1>2. Bad = {}
  <2> SUFFICES ASSUME Bad # {} PROVE FALSE
    OBVIOUS
  <2>1. Bad \subseteq Nat
    OBVIOUS
  <2>2. PICK b \in Bad : \A m \in Bad : b <= m
    <3> HIDE DEF Bad
    <3> QED BY <2>1, Smallest
  <2>3. b \in 1 .. Len(s) /\ s[b] \in Seq(S)
    OBVIOUS
  <2>4. b # 1
    BY <1>1, <2>3
  <2>5. b - 1 \in 1 .. Len(s) /\ b - 1 \notin Bad
    BY <2>2, <2>3, <2>4
  <2>6. f[b - 1] \in Seq(S)
    BY <2>5
  <2>7. f[b] = f[b - 1] \o s[b]
    BY <1>1, <2>3, <2>4
  <2>8. f[b] \in Seq(S)
    BY <2>3, <2>6, <2>7, ConcatProperties
  <2> QED BY <2>8
<1> QED BY <1>1, <1>2

LEMMA JoinsUnique ==
    ASSUME NEW s, Len(s) \in Nat, NEW f, NEW g, Joins(f, s), Joins(g, s)
    PROVE  f = g
<1>1. \A i \in 1 .. Len(s) : /\ f[i] = IF i = 1 THEN s[i] ELSE f[i - 1] \o s[i]
                             /\ g[i] = IF i = 1 THEN s[i] ELSE g[i - 1] \o s[i]
  BY DEF Joins
<1> DEFINE Bad == {i \in 1 .. Len(s) : f[i] # g[i]}
<1>2. Bad = {}
  <2> SUFFICES ASSUME Bad # {} PROVE FALSE
    OBVIOUS
  <2>1. Bad \subseteq Nat
    OBVIOUS
  <2>2. PICK b \in Bad : \A m \in Bad : b <= m
    <3> HIDE DEF Bad
    <3> QED BY <2>1, Smallest
  <2>4. b \in 1 .. Len(s) /\ b # 1
    BY <1>1
  <2>5. b - 1 \in 1 .. Len(s) /\ b - 1 \notin Bad
    BY <2>2, <2>4
  <2>6. f[b - 1] = g[b - 1]
    BY <2>5
  <2>7. f[b] = f[b - 1] \o s[b] /\ g[b] = g[b - 1] \o s[b]
    BY <1>1, <2>4
  <2> QED BY <2>6, <2>7
<1>3. \A i \in 1 .. Len(s) : f[i] = g[i]
  BY <1>2
<1>4. DOMAIN f = 1 .. Len(s) /\ DOMAIN g = 1 .. Len(s) /\ f = [i \in DOMAIN f |-> f[i]] /\ g = [i \in DOMAIN g |-> g[i]]
  BY DEF Joins
<1> QED BY <1>3, <1>4

\* One sequence more in front.
LEMMA JoinsFirst ==
    ASSUME NEW S, NEW x \in Seq(S), NEW s \in Seq(Seq(S)), NEW f, Joins(f, s)
    PROVE  Joins([i \in 1 .. Len(s) + 1 |-> IF i = 1 THEN x ELSE x \o f[i - 1]], <<x>> \o s)
<1> DEFINE t == <<x>> \o s
           g == [i \in 1 .. Len(s) + 1 |-> IF i = 1 THEN x ELSE x \o f[i - 1]]
<1>1. /\ Len(t) = Len(s) + 1 /\ t[1] = x
      /\ \A i \in 2 .. Len(s) + 1 : t[i] = s[i - 1]
  OBVIOUS
<1>2. /\ g[1] = x /\ g = [i \in 1 .. Len(s) + 1 |-> g[i]]
      /\ \A i \in 2 .. Len(s) + 1 : g[i] = x \o f[i - 1]
  OBVIOUS
<1> HIDE DEF g, t
<1>3. \A i \in 1 .. Len(s) : /\ f[i] = IF i = 1 THEN s[i] ELSE f[i - 1] \o s[i]
                             /\ f[i] \in Seq(S) /\ s[i] \in Seq(S)
  BY JoinsType
<1>4. ASSUME NEW i \in 2 .. Len(s) + 1 PROVE g[i] = g[i - 1] \o t[i]
  <2>1. CASE i = 2
    <3>1. 1 \in 1 .. Len(s) /\ i - 1 = 1
      BY <2>1
    <3>2. f[1] = s[1] /\ t[i] = s[1] /\ g[i] = x \o f[1] /\ g[i - 1] = x
      BY <1>1, <1>2, <1>3, <3>1
    <3> QED BY <3>2
  <2>2. CASE i # 2
    <3> DEFINE j == i - 1
    <3>1. j \in 1 .. Len(s) /\ j # 1 /\ j - 1 \in 1 .. Len(s) /\ j \in 2 .. Len(s) + 1
      BY <2>2
    <3> HIDE DEF j
    <3>2. f[j] = f[j - 1] \o s[j] /\ f[j - 1] \in Seq(S) /\ s[j] \in Seq(S)
      BY <1>3, <3>1
    <3>3. (x \o f[j - 1]) \o s[j] = x \o (f[j - 1] \o s[j])
      <4>1. x \in Seq(S)
        OBVIOUS
      <4>2. \A u, v, w \in Seq(S) : (u \o v) \o w = u \o (v \o w)
        OBVIOUS
      <4> QED BY <3>2, <4>1, <4>2
    <3>4. g[j] = x \o f[j - 1]
      BY <1>2, <3>1
    <3>5. g[i] = x \o f[j] /\ t[i] = s[j]
      BY <1>1, <1>2 DEF j
    <3>6. g[i] = g[j] \o t[i]
      BY <3>2, <3>3, <3>4, <3>5
    <3> QED BY <3>6 DEF j
  <2> QED BY <2>1, <2>2
<1>5. ASSUME NEW i \in 1 .. Len(t) PROVE g[i] = IF i = 1 THEN t[i] ELSE g[i - 1] \o t[i]
  <2>1. CASE i = 1
    BY <1>1, <1>2, <2>1
  <2>2. CASE i # 1
    <3>1. i \in 2 .. Len(s) + 1
      BY <1>1, <2>2
    <3> QED BY <1>4, <2>2, <3>1
  <2> QED BY <2>1, <2>2
<1>6. g = [i \in 1 .. Len(t) |-> IF i = 1 THEN t[i] ELSE g[i - 1] \o t[i]]
  BY <1>1, <1>2, <1>5
<1> QED BY <1>6 DEF Joins, g, t

\* What FlattenSeq() returns: its recursion has one solution.
LEMMA JoinsExists ==
    ASSUME NEW S, NEW s \in Seq(Seq(S))
    PROVE  \E f : Joins(f, s)
<1> DEFINE Final(n) == SubSeq(s, Len(s) - n + 1, Len(s))
           Bad == {n \in 0 .. Len(s) : ~ \E f : Joins(f, Final(n))}
<1>1. Bad = {}
  <2> SUFFICES ASSUME Bad # {} PROVE FALSE
    OBVIOUS
  <2>1. Bad \subseteq Nat
    OBVIOUS
  <2>2. PICK b \in Bad : \A m \in Bad : b <= m
    <3> HIDE DEF Bad
    <3> QED BY <2>1, Smallest
  <2>3. b \in 0 .. Len(s) /\ ~ \E f : Joins(f, Final(b))
    OBVIOUS
  <2>4. CASE b = 0
    <3>1. Len(Final(0)) = 0
      OBVIOUS
    <3> HIDE DEF Final
    <3> DEFINE z == [i \in {} |-> i]
    <3>2. 1 .. Len(Final(0)) = {}
      BY <3>1
    <3>3. z = [i \in {} |-> IF i = 1 THEN Final(0)[i] ELSE z[i - 1] \o Final(0)[i]]
      OBVIOUS
    <3>4. Joins(z, Final(0))
      BY <3>2, <3>3 DEF Joins
    <3> QED BY <2>3, <2>4, <3>4
  <2>5. CASE b # 0
    <3>1. b - 1 \in 0 .. Len(s) /\ b - 1 \notin Bad
      <4> HIDE DEF Bad
      <4> QED BY <2>2, <2>3, <2>5
    <3>2. PICK f : Joins(f, Final(b - 1))
      BY <3>1
    <3>3. Final(b - 1) \in Seq(Seq(S)) /\ s[Len(s) - b + 1] \in Seq(S)
      BY <2>3, <2>5
    <3>4. Final(b) = <<s[Len(s) - b + 1]>> \o Final(b - 1)
      BY <2>3, <2>5
    <3> HIDE DEF Final, Bad
    <3>5. \E g : Joins(g, Final(b))
      BY <3>2, <3>3, <3>4, JoinsFirst
    <3> QED BY <2>3, <3>5
  <2> QED BY <2>4, <2>5
<1>2. Final(Len(s)) = s
  OBVIOUS
<1>3. Len(s) \in 0 .. Len(s)
  OBVIOUS
<1>4. \E f : Joins(f, Final(Len(s)))
  BY <1>1, <1>3
<1> HIDE DEF Final
<1> QED BY <1>2, <1>4

LEMMA FlattenJoins ==
    ASSUME NEW S, NEW s \in Seq(Seq(S)), s # <<>>, NEW f, Joins(f, s)
    PROVE  FlattenSeq(s) = f[Len(s)] /\ FlattenSeq(s) \in Seq(S)
<1>1. Len(s) \in Nat /\ Len(s) # 0 /\ Len(s) \in 1 .. Len(s)
  OBVIOUS
<1>2. Joins(CHOOSE g : Joins(g, s), s)
  OBVIOUS
<1>3. (CHOOSE g : Joins(g, s)) = f
  BY <1>1, <1>2, JoinsUnique
<1>4. f[Len(s)] \in Seq(S)
  BY <1>1, JoinsType
<1> QED BY <1>1, <1>3, <1>4, JoinsLast

LEMMA FlattenEmpty == FlattenSeq(<<>>) = <<>>
BY DEF FlattenSeq

LEMMA FlattenType ==
    ASSUME NEW S, NEW s \in Seq(Seq(S))
    PROVE  FlattenSeq(s) \in Seq(S)
<1>1. CASE s = <<>>
  BY <1>1, FlattenEmpty, EmptySeq
<1>2. CASE s # <<>>
  BY <1>2, JoinsExists, FlattenJoins
<1> QED BY <1>1, <1>2

\* FlattenSeq() from the front.
LEMMA FlattenFirst ==
    ASSUME NEW S, NEW x \in Seq(S), NEW s \in Seq(Seq(S))
    PROVE  FlattenSeq(<<x>> \o s) = x \o FlattenSeq(s)
<1> DEFINE t == <<x>> \o s
<1>1. t \in Seq(Seq(S)) /\ t # <<>> /\ Len(t) = Len(s) + 1 /\ Len(s) \in Nat
  OBVIOUS
<1>2. PICK f : Joins(f, s)
  BY JoinsExists
<1> DEFINE g == [i \in 1 .. Len(s) + 1 |-> IF i = 1 THEN x ELSE x \o f[i - 1]]
<1>3. Joins(g, t)
  BY <1>2, JoinsFirst
<1>4. FlattenSeq(t) = g[Len(s) + 1]
  <2> HIDE DEF g, t
  <2> QED BY <1>1, <1>3, FlattenJoins
<1>5. CASE s = <<>>
  <2>1. Len(s) = 0 /\ g[Len(s) + 1] = x
    BY <1>5
  <2>2. x \o <<>> = x
    OBVIOUS
  <2> QED BY <1>4, <1>5, <2>1, <2>2, FlattenEmpty
<1>6. CASE s # <<>>
  <2>1. Len(s) # 0 /\ g[Len(s) + 1] = x \o f[Len(s)]
    BY <1>1, <1>6
  <2> QED BY <1>2, <1>4, <1>6, <2>1, FlattenJoins
<1> QED BY <1>5, <1>6

LEMMA FlattenHead ==
    ASSUME NEW S, NEW s \in Seq(Seq(S)), s # <<>>
    PROVE  FlattenSeq(s) = Head(s) \o FlattenSeq(Tail(s))
<1>1. s = <<Head(s)>> \o Tail(s) /\ Head(s) \in Seq(S) /\ Tail(s) \in Seq(Seq(S))
  OBVIOUS
<1>2. FlattenSeq(<<Head(s)>> \o Tail(s)) = Head(s) \o FlattenSeq(Tail(s))
  BY <1>1, FlattenFirst
<1> QED BY <1>1, <1>2

-----------------------------------------------------------------------------
(* The walk of -w: the files below a directory *)

\* The files that an entry, and a list of entries, stand for, where f has those of
\* each directory.
Offers(e, f) == IF e \notin DOMAIN Entries THEN <<e>>
                ELSE IF e \in Hidden THEN <<>> ELSE f[e]
OffersAll(s, f) == FlattenSeq([i \in 1 .. Len(s) |-> Offers(s[i], f)])

EntrySeqs == Seq(Paths \cup DOMAIN Entries)
FileLists == [DOMAIN Entries -> Seq(Paths)]

LEMMA OffersType ==
    ASSUME NEW f \in FileLists, NEW s \in EntrySeqs
    PROVE  /\ \A e \in Paths \cup DOMAIN Entries : Offers(e, f) \in Seq(Paths)
           /\ [i \in 1 .. Len(s) |-> Offers(s[i], f)] \in Seq(Seq(Paths))
           /\ OffersAll(s, f) \in Seq(Paths)
<1>1. ASSUME NEW e \in Paths \cup DOMAIN Entries PROVE Offers(e, f) \in Seq(Paths)
  BY DEF Offers, FileLists
<1>2. \A i \in 1 .. Len(s) : s[i] \in Paths \cup DOMAIN Entries
  BY DEF EntrySeqs
<1>3. [i \in 1 .. Len(s) |-> Offers(s[i], f)] \in Seq(Seq(Paths))
  BY <1>1, <1>2 DEF EntrySeqs
<1> QED BY <1>1, <1>3, FlattenType DEF OffersAll

LEMMA OffersHead ==
    ASSUME NEW f \in FileLists, NEW s \in EntrySeqs, s # <<>>
    PROVE  OffersAll(s, f) = Offers(Head(s), f) \o OffersAll(Tail(s), f)
<1> DEFINE t == [i \in 1 .. Len(s) |-> Offers(s[i], f)]
           u == [i \in 1 .. Len(Tail(s)) |-> Offers(Tail(s)[i], f)]
<1>1. t \in Seq(Seq(Paths)) /\ t # <<>> /\ Head(t) = Offers(Head(s), f)
  BY OffersType DEF EntrySeqs
<1>2. Tail(t) = u
  BY DEF EntrySeqs
<1> HIDE DEF t, u
<1>3. FlattenSeq(t) = Head(t) \o FlattenSeq(Tail(t))
  BY <1>1, FlattenHead
<1> QED BY <1>1, <1>2, <1>3 DEF OffersAll, t, u

\* Directories are nested no deeper than some number: the path names of
\* visitaDir() have 100 characters at most (client.c:340).
Nested == \E n \in Nat : \E depth \in [DOMAIN Entries -> 0 .. n] :
              \A d \in DOMAIN Entries : \A i \in 1 .. Len(Entries[d]) :
                  Entries[d][i] \in DOMAIN Entries \ Hidden => depth[Entries[d][i]] < depth[d]

\* The recursion of FilesBelow has a solution for the directories of depth up to
\* n, for each n.
LEMMA BelowExists ==
    ASSUME NEW N \in Nat, NEW depth \in [DOMAIN Entries -> 0 .. N],
           \A d \in DOMAIN Entries : \A i \in 1 .. Len(Entries[d]) :
               Entries[d][i] \in DOMAIN Entries \ Hidden => depth[Entries[d][i]] < depth[d]
    PROVE  \E f \in FileLists : \A d \in DOMAIN Entries : f[d] = OffersAll(Entries[d], f)
<1> DEFINE Solves(f, n) == \A d \in DOMAIN Entries : depth[d] < n => f[d] = OffersAll(Entries[d], f)
           Bad == {n \in Nat : ~ \E f \in FileLists : Solves(f, n)}
<1>1. ASSUME NEW n \in Nat, NEW f \in FileLists, Solves(f, n)
      PROVE  \E g \in FileLists : Solves(g, n + 1)
  <2> DEFINE g == [d \in DOMAIN Entries |-> OffersAll(Entries[d], f)]
  <2>1. g \in FileLists
    <3>1. \A d \in DOMAIN Entries : OffersAll(Entries[d], f) \in Seq(Paths)
      BY OffersType, ClientAssumption DEF EntrySeqs
    <3> QED BY <3>1 DEF FileLists
  <2>2. ASSUME NEW d \in DOMAIN Entries, depth[d] < n + 1
        PROVE  g[d] = OffersAll(Entries[d], g)
    <3>1. ASSUME NEW i \in 1 .. Len(Entries[d])
          PROVE  Offers(Entries[d][i], g) = Offers(Entries[d][i], f)
      <4> DEFINE e == Entries[d][i]
      <4>1. CASE e \in DOMAIN Entries \ Hidden
        <5>1. depth[e] < depth[d] /\ depth[e] \in Nat /\ depth[d] \in Nat
          BY <4>1
        <5>2. depth[e] < n
          BY <2>2, <5>1
        <5>3. f[e] = OffersAll(Entries[e], f)
          BY <1>1, <4>1, <5>2
        <5>4. g[e] = f[e]
          BY <4>1, <5>3
        <5> HIDE DEF g, e
        <5>5. Offers(e, g) = Offers(e, f)
          BY <4>1, <5>4 DEF Offers
        <5> QED BY <5>5 DEF e
      <4>2. CASE e \notin DOMAIN Entries \ Hidden
        <5> HIDE DEF g
        <5> QED BY <4>2 DEF Offers
      <4> QED BY <4>1, <4>2
    <3>2. g[d] = OffersAll(Entries[d], f)
      OBVIOUS
    <3> HIDE DEF g
    <3>3. [i \in 1 .. Len(Entries[d]) |-> Offers(Entries[d][i], g)]
            = [i \in 1 .. Len(Entries[d]) |-> Offers(Entries[d][i], f)]
      BY <3>1
    <3> QED BY <3>2, <3>3 DEF OffersAll
  <2> HIDE DEF g
  <2> QED BY <2>1, <2>2
<1>2. \E f \in FileLists : Solves(f, 0)
  <2>1. [d \in DOMAIN Entries |-> <<>>] \in FileLists
    BY EmptySeq DEF FileLists
  <2>2. \A d \in DOMAIN Entries : ~(depth[d] < 0)
    OBVIOUS
  <2> QED BY <2>1, <2>2
<1>3. Bad = {}
  <2> SUFFICES ASSUME Bad # {} PROVE FALSE
    OBVIOUS
  <2>1. Bad \subseteq Nat
    OBVIOUS
  <2>2. PICK b \in Bad : \A m \in Bad : b <= m
    <3> HIDE DEF Bad
    <3> QED BY <2>1, Smallest
  <2>3. b \in Nat /\ b # 0
    <3> HIDE DEF Solves
    <3> QED BY <1>2
  <2>4. b - 1 \in Nat /\ b - 1 \notin Bad /\ (b - 1) + 1 = b
    <3> HIDE DEF Bad
    <3> QED BY <2>2, <2>3
  <2> HIDE DEF Solves
  <2>5. PICK f \in FileLists : Solves(f, b - 1)
    BY <2>4
  <2>6. \E g \in FileLists : Solves(g, b)
    BY <1>1, <2>4, <2>5
  <2> QED BY <2>6
<1>4. PICK f \in FileLists : Solves(f, N + 1)
  <2> HIDE DEF Solves
  <2>1. N + 1 \in Nat /\ N + 1 \notin Bad
    <3> HIDE DEF Bad
    <3> QED BY <1>3
  <2> QED BY <2>1
<1>5. \A d \in DOMAIN Entries : depth[d] < N + 1
  OBVIOUS
<1> QED BY <1>4, <1>5

\* And no other.
LEMMA BelowUnique ==
    ASSUME Nested, NEW f, NEW g,
           f = [d \in DOMAIN Entries |-> OffersAll(Entries[d], f)],
           g = [d \in DOMAIN Entries |-> OffersAll(Entries[d], g)]
    PROVE  f = g
<1>1. PICK N \in Nat : \E depth \in [DOMAIN Entries -> 0 .. N] :
          \A d \in DOMAIN Entries : \A i \in 1 .. Len(Entries[d]) :
              Entries[d][i] \in DOMAIN Entries \ Hidden => depth[Entries[d][i]] < depth[d]
  BY DEF Nested
<1>2. PICK depth \in [DOMAIN Entries -> 0 .. N] :
          \A d \in DOMAIN Entries : \A i \in 1 .. Len(Entries[d]) :
              Entries[d][i] \in DOMAIN Entries \ Hidden => depth[Entries[d][i]] < depth[d]
  BY <1>1
<1> DEFINE Bad == {depth[d] : d \in {d \in DOMAIN Entries : f[d] # g[d]}}
<1>3. Bad = {}
  <2> SUFFICES ASSUME Bad # {} PROVE FALSE
    OBVIOUS
  <2>1. Bad \subseteq Nat
    OBVIOUS
  <2>2. PICK b \in Bad : \A m \in Bad : b <= m
    <3> HIDE DEF Bad
    <3> QED BY <2>1, Smallest
  <2>3. PICK d \in DOMAIN Entries : depth[d] = b /\ f[d] # g[d]
    OBVIOUS
  <2>4. ASSUME NEW i \in 1 .. Len(Entries[d])
        PROVE  Offers(Entries[d][i], f) = Offers(Entries[d][i], g)
    <3> DEFINE e == Entries[d][i]
    <3>1. CASE e \in DOMAIN Entries \ Hidden
      <4>1. depth[e] < b /\ depth[e] \in Nat /\ b \in Nat
        BY <1>2, <2>3, <3>1
      <4>2. depth[e] \notin Bad
        <5> HIDE DEF Bad, e
        <5> QED BY <2>2, <4>1
      <4>3. f[e] = g[e]
        BY <3>1, <4>2
      <4> HIDE DEF e
      <4>4. Offers(e, f) = Offers(e, g)
        BY <3>1, <4>3 DEF Offers
      <4> QED BY <4>4 DEF e
    <3>2. CASE e \notin DOMAIN Entries \ Hidden
      BY <3>2 DEF Offers
    <3> QED BY <3>1, <3>2
  <2>5. [i \in 1 .. Len(Entries[d]) |-> Offers(Entries[d][i], f)]
          = [i \in 1 .. Len(Entries[d]) |-> Offers(Entries[d][i], g)]
    BY <2>4
  <2>6. OffersAll(Entries[d], f) = OffersAll(Entries[d], g)
    BY <2>5 DEF OffersAll
  <2>7. f[d] = OffersAll(Entries[d], f) /\ g[d] = OffersAll(Entries[d], g)
    <3> HIDE DEF Bad
    <3> QED OBVIOUS
  <2> QED BY <2>3, <2>6, <2>7
<1>4. \A d \in DOMAIN Entries : f[d] = g[d]
  BY <1>3
<1>5. /\ f = [d \in DOMAIN Entries |-> f[d]] /\ g = [d \in DOMAIN Entries |-> g[d]]
  OBVIOUS
<1> QED BY <1>4, <1>5

\* So FilesBelow is what its definition says.
LEMMA BelowIs ==
    ASSUME Nested
    PROVE  /\ FilesBelow \in FileLists
           /\ \A d \in DOMAIN Entries : FilesBelow[d] = OffersAll(Entries[d], FilesBelow)
<1> DEFINE Eq(f) == f = [d \in DOMAIN Entries |-> OffersAll(Entries[d], f)]
<1>1. PICK f \in FileLists : \A d \in DOMAIN Entries : f[d] = OffersAll(Entries[d], f)
  BY BelowExists DEF Nested
<1>2. Eq(f)
  <2>1. f = [d \in DOMAIN Entries |-> f[d]]
    BY DEF FileLists
  <2> QED BY <1>1, <2>1
<1>3. FilesBelow = CHOOSE g : Eq(g)
  BY DEF FilesBelow, OffersAll, Offers
<1>4. Eq(FilesBelow)
  <2> HIDE DEF Eq
  <2> QED BY <1>2, <1>3
<1>5. FilesBelow = f
  BY <1>2, <1>4, BelowUnique
<1> QED BY <1>1, <1>5

-----------------------------------------------------------------------------
(* The walk of -w: what is ahead of visitaDir() *)

\* The files in what is left of the open directories, the innermost first.
Ahead(w) == FlattenSeq([k \in 1 .. Len(w) |-> OffersAll(w[k], FilesBelow)])

LEMMA AheadType ==
    ASSUME Nested, NEW w \in Seq(EntrySeqs)
    PROVE  /\ [k \in 1 .. Len(w) |-> OffersAll(w[k], FilesBelow)] \in Seq(Seq(Paths))
           /\ Ahead(w) \in Seq(Paths)
<1>1. \A k \in 1 .. Len(w) : OffersAll(w[k], FilesBelow) \in Seq(Paths)
  <2>1. \A k \in 1 .. Len(w) : w[k] \in EntrySeqs
    OBVIOUS
  <2> QED BY <2>1, BelowIs, OffersType
<1>2. [k \in 1 .. Len(w) |-> OffersAll(w[k], FilesBelow)] \in Seq(Seq(Paths))
  BY <1>1
<1> QED BY <1>2, FlattenType DEF Ahead

LEMMA AheadHead ==
    ASSUME Nested, NEW w \in Seq(EntrySeqs), w # <<>>
    PROVE  Ahead(w) = OffersAll(Head(w), FilesBelow) \o Ahead(Tail(w))
<1> DEFINE t == [k \in 1 .. Len(w) |-> OffersAll(w[k], FilesBelow)]
           u == [k \in 1 .. Len(Tail(w)) |-> OffersAll(Tail(w)[k], FilesBelow)]
<1>1. t \in Seq(Seq(Paths)) /\ t # <<>> /\ Head(t) = OffersAll(Head(w), FilesBelow)
  BY AheadType
<1>2. Tail(t) = u
  OBVIOUS
<1> HIDE DEF t, u
<1>3. FlattenSeq(t) = Head(t) \o FlattenSeq(Tail(t))
  BY <1>1, FlattenHead
<1> QED BY <1>1, <1>2, <1>3 DEF Ahead, t, u

\* Without a directory or an entry nothing is ahead, and a directory that is opened
\* is ahead of the rest.
LEMMA AheadEnds ==
    ASSUME Nested
    PROVE  /\ Ahead(<<>>) = <<>>
           /\ OffersAll(<<>>, FilesBelow) = <<>>
<1>1. [k \in 1 .. Len(<<>>) |-> OffersAll(<<>>[k], FilesBelow)] = <<>>
  OBVIOUS
<1>2. [i \in 1 .. Len(<<>>) |-> Offers(<<>>[i], FilesBelow)] = <<>>
  OBVIOUS
<1> QED BY <1>1, <1>2, FlattenEmpty DEF Ahead, OffersAll

LEMMA AheadOpened ==
    ASSUME Nested, NEW s \in EntrySeqs, NEW w \in Seq(EntrySeqs)
    PROVE  Ahead(<<s>> \o w) = OffersAll(s, FilesBelow) \o Ahead(w)
<1> DEFINE v == <<s>> \o w
<1>1. v \in Seq(EntrySeqs) /\ v # <<>> /\ Head(v) = s /\ Tail(v) = w
  OBVIOUS
<1> HIDE DEF v
<1>2. Ahead(v) = OffersAll(s, FilesBelow) \o Ahead(w)
  BY <1>1, AheadHead
<1> QED BY <1>2 DEF v

\* What one step of visitaDir() does to what is ahead: a directory that is read is
\* left, or an entry is taken.
LEMMA AheadLeft ==
    ASSUME Nested, NEW w \in Seq(EntrySeqs), w # <<>>, Head(w) = <<>>
    PROVE  Ahead(Tail(w)) = Ahead(w)
<1>1. Head(w) \in EntrySeqs /\ Tail(w) \in Seq(EntrySeqs) /\ Ahead(Tail(w)) \in Seq(Paths)
  <2>1. Head(w) \in EntrySeqs /\ Tail(w) \in Seq(EntrySeqs)
    OBVIOUS
  <2> QED BY <2>1, AheadType
<1>2. Ahead(w) = OffersAll(Head(w), FilesBelow) \o Ahead(Tail(w))
  BY AheadHead
<1>3. <<>> \o Ahead(Tail(w)) = Ahead(Tail(w))
  BY <1>1
<1> QED BY <1>2, <1>3, AheadEnds

\* e is the entry taken, rest what it leaves: a file is next, a hidden directory is
\* passed by, another is opened.
Taken(w, e, rest) ==
    /\ e \notin DOMAIN Entries => Ahead(w) = <<e>> \o Ahead(rest)
    /\ e \in Hidden => Ahead(rest) = Ahead(w)
    /\ e \in DOMAIN Entries \ Hidden => Ahead(<<Entries[e]>> \o rest) = Ahead(w)

LEMMA AheadEntry ==
    ASSUME Nested, NEW w \in Seq(EntrySeqs), w # <<>>, Head(w) # <<>>, NEW e, NEW rest,
           e = Head(Head(w)), rest = <<Tail(Head(w))>> \o Tail(w)
    PROVE  Taken(w, e, rest)
<1>1. Head(w) \in EntrySeqs /\ Tail(w) \in Seq(EntrySeqs) /\ Ahead(Tail(w)) \in Seq(Paths)
  <2>1. Head(w) \in EntrySeqs /\ Tail(w) \in Seq(EntrySeqs)
    OBVIOUS
  <2> QED BY <2>1, AheadType
<1>2. Ahead(w) = OffersAll(Head(w), FilesBelow) \o Ahead(Tail(w))
  BY AheadHead
<1>3. PICK s \in EntrySeqs : s = Tail(Head(w))
  <2>1. Tail(Head(w)) \in EntrySeqs
    BY <1>1 DEF EntrySeqs
  <2> QED BY <2>1
<1>4. OffersAll(s, FilesBelow) \in Seq(Paths)
  BY BelowIs, OffersType
<1>5. e \in Paths \cup DOMAIN Entries /\ Offers(e, FilesBelow) \in Seq(Paths)
  <2>1. e \in Paths \cup DOMAIN Entries
    BY <1>1 DEF EntrySeqs
  <2> QED BY <2>1, <1>1, BelowIs, OffersType
<1>6. Ahead(w) = (Offers(e, FilesBelow) \o OffersAll(s, FilesBelow)) \o Ahead(Tail(w))
  BY <1>1, <1>2, <1>3, BelowIs, OffersHead
<1>7. Ahead(rest) = OffersAll(s, FilesBelow) \o Ahead(Tail(w)) /\ rest \in Seq(EntrySeqs)
  <2>1. rest = <<s>> \o Tail(w) /\ rest \in Seq(EntrySeqs)
    <3>1. <<s>> \in Seq(EntrySeqs)
      OBVIOUS
    <3>2. PICK v \in Seq(EntrySeqs) : v = Tail(w)
      BY <1>1
    <3>3. rest = <<s>> \o v
      BY <1>3, <3>2
    <3>4. <<s>> \o v \in Seq(EntrySeqs)
      BY <3>1
    <3> QED BY <3>2, <3>3, <3>4
  <2> QED BY <1>1, <2>1, AheadOpened
<1>8. Ahead(w) = Offers(e, FilesBelow) \o Ahead(rest) /\ Ahead(rest) \in Seq(Paths)
  <2>1. PICK u, v, x \in Seq(Paths) : /\ u = Offers(e, FilesBelow)
                                       /\ v = OffersAll(s, FilesBelow)
                                       /\ x = Ahead(Tail(w))
    BY <1>1, <1>4, <1>5
  <2>2. (u \o v) \o x = u \o (v \o x) /\ v \o x \in Seq(Paths)
    OBVIOUS
  <2> QED BY <1>6, <1>7, <2>1, <2>2
<1>9. CASE e \notin DOMAIN Entries
  BY <1>8, <1>9, ClientAssumption DEF Offers, Taken
<1>10. CASE e \in Hidden
  <2>1. Offers(e, FilesBelow) = <<>>
    BY <1>10, ClientAssumption DEF Offers
  <2>2. <<>> \o Ahead(rest) = Ahead(rest)
    BY <1>8
  <2> QED BY <1>8, <1>10, <2>1, <2>2, ClientAssumption DEF Taken
<1>11. CASE e \in DOMAIN Entries \ Hidden
  <2>1. Offers(e, FilesBelow) = OffersAll(Entries[e], FilesBelow)
    BY <1>11, BelowIs DEF Offers
  <2>2. Entries[e] \in EntrySeqs
    BY <1>11, ClientAssumption DEF EntrySeqs
  <2>3. Ahead(<<Entries[e]>> \o rest) = OffersAll(Entries[e], FilesBelow) \o Ahead(rest)
    BY <1>7, <2>2, AheadOpened
  <2> QED BY <1>8, <1>11, <2>1, <2>3 DEF Taken
<1> QED BY <1>9, <1>10, <1>11

-----------------------------------------------------------------------------
(* The walk of -w: the invariant *)

\* While -w is carried out: what was offered, with what is ahead unless nvisit has
\* come to 0, is what is below the directory, and nvisit is how many may follow,
\* or is negative if their number is not given.
Toured(g) ==
    /\ g.at = "walk" => g.opts # <<>> /\ Head(g.opts).opt = "w"
    /\ g.at # "option" /\ g.opts # <<>> /\ Head(g.opts).opt = "w" =>
         LET o == Head(g.opts)
         IN  /\ o.dir \in DOMAIN Entries
             /\ \E left \in Seq(Paths) : /\ FilesBelow[o.dir] = g.offered \o left
                                         /\ g.nvisit # 0 => left = Ahead(g.walk)
             /\ IF o.n = 0 THEN g.nvisit < 0
                ELSE g.nvisit >= 0 /\ g.nvisit = o.n - Len(g.offered)
Touring == \A c \in Clients : Toured(prog[c])

\* A step of the program.
Tours(c) == UNCHANGED prog \/ \E g : Now(c, g) /\ Toured(g)

\* When the walk is over nothing is ahead, or nvisit is 0.
LEMMA TouringIsTold == ASSUME Nested, Typed, Touring PROVE WalkAsTold
<1> SUFFICES ASSUME NEW c \in Clients, prog[c].at = "walk", prog[c].walk = <<>>
             PROVE  LET o == Head(prog[c].opts)
                        all == FilesBelow[o.dir]
                    IN  prog[c].offered = IF o.n = 0 \/ o.n > Len(all) THEN all
                                          ELSE SubSeq(all, 1, o.n)
  BY DEF WalkAsTold
<1>1. PICK f \in Programs : f = prog[c] /\ Toured(f)
  BY DEF Touring, Typed, ProgTyped
<1>2. f.opts # <<>> /\ Head(f.opts).opt = "w" /\ f.at = "walk"
  BY <1>1 DEF Toured
<1>3. PICK o \in Option : o = Head(f.opts)
  BY <1>2 DEF Programs
<1>4. /\ o.dir \in DOMAIN Entries
      /\ \E left \in Seq(Paths) : /\ FilesBelow[o.dir] = f.offered \o left
                                  /\ f.nvisit # 0 => left = Ahead(f.walk)
      /\ IF o.n = 0 THEN f.nvisit < 0
         ELSE f.nvisit >= 0 /\ f.nvisit = o.n - Len(f.offered)
  BY <1>1, <1>2, <1>3 DEF Toured
<1>5. PICK left \in Seq(Paths) : /\ FilesBelow[o.dir] = f.offered \o left
                                 /\ f.nvisit # 0 => left = <<>>
  BY <1>1, <1>4, AheadEnds
<1>6. PICK off \in Seq(Paths) : off = f.offered
  BY DEF Programs
<1>7. PICK all \in Seq(Paths) : all = off \o left /\ all = FilesBelow[o.dir]
  <2>1. off \o left \in Seq(Paths)
    OBVIOUS
  <2> QED BY <1>5, <1>6, <2>1
<1>8. o.n \in Nat /\ f.nvisit \in Int /\ Len(off) \in Nat /\ Len(left) \in Nat
      /\ Len(all) = Len(off) + Len(left)
  <2>1. o.n \in Nat /\ f.nvisit \in Int
    BY DEF Option, Programs
  <2>2. Len(off \o left) = Len(off) + Len(left) /\ Len(off) \in Nat /\ Len(left) \in Nat
    OBVIOUS
  <2> QED BY <1>7, <2>1, <2>2
<1>9. CASE f.nvisit # 0
  <2>1. all = off /\ (o.n # 0 => o.n > Len(all))
    <3>1. off \o <<>> = off
      OBVIOUS
    <3> QED BY <1>4, <1>5, <1>6, <1>7, <1>8, <1>9, <3>1
  <2> QED BY <1>1, <1>3, <1>6, <1>7, <2>1
<1>10. CASE f.nvisit = 0
  <2>1. o.n # 0 /\ o.n = Len(off) /\ ~(o.n > Len(all))
    BY <1>4, <1>6, <1>8, <1>10
  <2>2. SubSeq(all, 1, Len(off)) = off
    <3>1. SubSeq(off \o left, 1, Len(off)) = off
      OBVIOUS
    <3> QED BY <1>7, <3>1
  <2> QED BY <1>1, <1>3, <1>6, <1>7, <2>1, <2>2
<1> QED BY <1>9, <1>10

\* A step of visitaDir().
LEMMA WalkTours ==
    ASSUME Nested, Typed, Touring, NEW c \in Clients, visitaDir(c)
    PROVE  Tours(c)
<1>1. PICK f \in Programs : f = prog[c] /\ Toured(f)
  BY DEF Touring, Typed, ProgTyped
<1>2. f.opts # <<>> /\ Head(f.opts).opt = "w" /\ f.at = "walk"
  BY <1>1 DEF visitaDir, At, opt
<1>3. PICK w \in Seq(EntrySeqs) : w = f.walk
  BY DEF Programs, EntrySeqs
<1>4. PICK e : e = Head(Head(w))
  OBVIOUS
<1>5. PICK rest : rest = <<Tail(Head(w))>> \o Tail(w)
  OBVIOUS
<1>6. PICK o \in Option : o = Head(f.opts)
  BY <1>2 DEF Programs
<1>7. /\ o.dir \in DOMAIN Entries
      /\ \E left \in Seq(Paths) : /\ FilesBelow[o.dir] = f.offered \o left
                                  /\ f.nvisit # 0 => left = Ahead(w)
      /\ IF o.n = 0 THEN f.nvisit < 0
         ELSE f.nvisit >= 0 /\ f.nvisit = o.n - Len(f.offered)
  BY <1>1, <1>2, <1>3, <1>6 DEF Toured
<1>8. PICK left \in Seq(Paths) : /\ FilesBelow[o.dir] = f.offered \o left
                                 /\ f.nvisit # 0 => left = Ahead(w)
  BY <1>7
<1>9. ASSUME NEW v, Now(c, [f EXCEPT !.walk = v]), f.nvisit # 0 => Ahead(v) = Ahead(w)
      PROVE  Tours(c)
  <2>1. PICK g : g = [f EXCEPT !.walk = v]
    OBVIOUS
  <2>2. /\ g.at = f.at /\ g.opts = f.opts /\ g.walk = v /\ g.nvisit = f.nvisit
        /\ g.offered = f.offered /\ Now(c, g)
    BY <1>9, <2>1 DEF Programs
  <2>3. Toured(g)
    BY <1>2, <1>6, <1>7, <1>8, <1>9, <2>2 DEF Toured
  <2> QED BY <2>2, <2>3 DEF Tours
<1>10. CASE w = <<>> /\ NextOption(c)
  <2>1. PICK g : g = [f EXCEPT !.at = "option", !.opts = Tail(@), !.files = <<>>,
                               !.result2 = 0, !.buf = "none"]
    OBVIOUS
  <2>2. Now(c, g) /\ g.at = "option"
    BY <1>1, <1>10, <2>1 DEF NextOption, Programs
  <2>3. Toured(g)
    BY <2>2 DEF Toured
  <2> QED BY <2>2, <2>3 DEF Tours
<1>11. CASE /\ w # <<>> /\ (Head(w) = <<>> \/ f.nvisit = 0)
            /\ Now(c, [f EXCEPT !.walk = Tail(w)])
  <2>1. Head(w) = <<>> => Ahead(Tail(w)) = Ahead(w)
    BY <1>11, AheadLeft
  <2> QED BY <1>9, <1>11, <2>1
<1>12. CASE /\ w # <<>> /\ Head(w) # <<>> /\ f.nvisit # 0
            /\ Now(c, IF e \notin DOMAIN Entries
                      THEN [f EXCEPT !.walk = rest, !.nvisit = @ - 1, !.files = <<e>>,
                                     !.at = "open", !.offered = Append(@, e)]
                      ELSE IF e \in Hidden THEN [f EXCEPT !.walk = rest]
                      ELSE [f EXCEPT !.walk = <<Entries[e]>> \o rest])
  <2>1. /\ e \notin DOMAIN Entries => Ahead(w) = <<e>> \o Ahead(rest)
        /\ e \in Hidden => Ahead(rest) = Ahead(w)
        /\ e \in DOMAIN Entries \ Hidden => Ahead(<<Entries[e]>> \o rest) = Ahead(w)
    <3>1. w # <<>> /\ Head(w) # <<>>
      BY <1>12
    <3>2. e = Head(Head(w)) /\ rest = <<Tail(Head(w))>> \o Tail(w)
      BY <1>4, <1>5
    <3>3. Taken(w, e, rest)
      BY <3>1, <3>2, AheadEntry
    <3> QED BY <3>3 DEF Taken
  <2>2. CASE e \notin DOMAIN Entries
    <3>1. PICK g : g = [f EXCEPT !.walk = rest, !.nvisit = @ - 1, !.files = <<e>>,
                                 !.at = "open", !.offered = Append(@, e)]
      OBVIOUS
    <3>2. /\ g.at = "open" /\ g.opts = f.opts /\ g.walk = rest /\ g.nvisit = f.nvisit - 1
          /\ g.offered = Append(f.offered, e) /\ Now(c, g)
      BY <1>12, <2>2, <3>1 DEF Programs
    <3>3. e \in Paths /\ Ahead(rest) \in Seq(Paths)
      <4>1. Head(w) \in EntrySeqs /\ Tail(w) \in Seq(EntrySeqs)
        BY <1>12
      <4>2. e \in Paths \cup DOMAIN Entries /\ Tail(Head(w)) \in EntrySeqs
        BY <1>4, <1>12, <4>1 DEF EntrySeqs
      <4>3. <<Tail(Head(w))>> \in Seq(EntrySeqs)
        BY <4>2
      <4>4. rest \in Seq(EntrySeqs)
        BY <1>5, <4>1, <4>3
      <4> QED BY <2>2, <4>2, <4>4, AheadType
    <3>4. PICK off, more \in Seq(Paths) : off = f.offered /\ more = Ahead(rest)
      BY <3>3 DEF Programs
    <3>5. off \o (<<e>> \o more) = Append(off, e) \o more /\ Len(Append(off, e)) = Len(off) + 1
      <4>1. <<e>> \in Seq(Paths) /\ Append(off, e) = off \o <<e>>
        BY <3>3
      <4>2. \A x \in Seq(Paths) : off \o (x \o more) = (off \o x) \o more
        OBVIOUS
      <4>3. Len(off \o <<e>>) = Len(off) + 1
        OBVIOUS
      <4> QED BY <4>1, <4>2, <4>3
    <3>6. FilesBelow[o.dir] = g.offered \o more
      BY <1>8, <1>12, <2>1, <2>2, <3>2, <3>4, <3>5
    <3>7. IF o.n = 0 THEN g.nvisit < 0 ELSE g.nvisit >= 0 /\ g.nvisit = o.n - Len(g.offered)
      <4>1. f.nvisit \in Int /\ o.n \in Nat /\ Len(off) \in Nat
        BY <3>4 DEF Programs, Option
      <4> QED BY <1>7, <1>12, <3>2, <3>4, <3>5, <4>1
    <3>8. Toured(g)
      BY <1>2, <1>6, <1>7, <3>2, <3>4, <3>6, <3>7 DEF Toured
    <3> QED BY <3>2, <3>8 DEF Tours
  <2>3. CASE e \in Hidden
    BY <1>9, <1>12, <2>1, <2>3, ClientAssumption
  <2>4. CASE e \in DOMAIN Entries \ Hidden
    BY <1>9, <1>12, <2>1, <2>4
  <2> QED BY <2>2, <2>3, <2>4
<1> QED BY <1>1, <1>3, <1>4, <1>5, <1>10, <1>11, <1>12 DEF visitaDir

\* Every other step of a program.
LEMMA MainTours ==
    ASSUME Nested, Typed, Touring, NEW c \in Clients, Main(c)
    PROVE  Tours(c)
<1>1. PICK f \in Programs : f = prog[c] /\ Toured(f)
  BY DEF Touring, Typed, ProgTyped
<1>2. UNCHANGED prog => Tours(c)
  BY DEF Tours
<1>3. ASSUME NEW g, Now(c, g), g.at = "option" PROVE Tours(c)
  BY <1>3 DEF Tours, Toured
<1>4. ASSUME NEW g, Now(c, g), g.at # "walk", g.opts = f.opts,
             g.opts # <<>> => Head(g.opts).opt # "w"
      PROVE  Tours(c)
  BY <1>4 DEF Tours, Toured
<1>5. ASSUME NEW g, Now(c, g), f.at # "option", g.opts = f.opts, g.walk = f.walk,
             g.nvisit = f.nvisit, g.offered = f.offered,
             g.at = "walk" => f.opts # <<>> /\ Head(f.opts).opt = "w"
      PROVE  Tours(c)
  <2>1. Toured(g)
    BY <1>1, <1>5 DEF Toured
  <2> QED BY <1>5, <2>1 DEF Tours
<1>6. ASSUME NEW at, Goto(c, at), f.at # "option",
             at = "walk" => f.opts # <<>> /\ Head(f.opts).opt = "w"
      PROVE  Tours(c)
  <2>1. PICK g : g = [f EXCEPT !.at = at]
    OBVIOUS
  <2>2. /\ Now(c, g) /\ g.at = at /\ g.opts = f.opts /\ g.walk = f.walk
        /\ g.nvisit = f.nvisit /\ g.offered = f.offered
    BY <1>1, <1>6, <2>1 DEF Goto, Programs
  <2> QED BY <1>5, <1>6, <2>2
<1>7. f.at # "option" /\ NextFile(c) => Tours(c)
  <2> SUFFICES ASSUME f.at # "option", NextFile(c) PROVE Tours(c)
    OBVIOUS
  <2>1. PICK g : g = [f EXCEPT !.at = "open", !.files = Tail(@)]
    OBVIOUS
  <2>2. /\ Now(c, g) /\ g.at = "open" /\ g.opts = f.opts /\ g.walk = f.walk
        /\ g.nvisit = f.nvisit /\ g.offered = f.offered
    BY <1>1, <2>1 DEF NextFile, Programs
  <2> QED BY <1>5, <2>2
<1>8. NextOption(c) => Tours(c)
  <2> SUFFICES ASSUME NextOption(c) PROVE Tours(c)
    OBVIOUS
  <2>1. PICK g : g = [f EXCEPT !.at = "option", !.opts = Tail(@), !.files = <<>>,
                               !.result2 = 0, !.buf = "none"]
    OBVIOUS
  <2>2. Now(c, g) /\ g.at = "option"
    BY <1>1, <2>1 DEF NextOption, Programs
  <2> QED BY <1>3, <2>2
<1>10. GiveUp(c) \/ ParseBreaks(c) \/ Return(c) => Tours(c)
  BY <1>2 DEF GiveUp, ParseBreaks, Return, Stop, Breaks
<1>11. BeginFiles(c) => Tours(c)
  <2> SUFFICES ASSUME BeginFiles(c) PROVE Tours(c)
    OBVIOUS
  <2>1. PICK g : g = [f EXCEPT !.at = "open", !.files = Head(f.opts).args]
    OBVIOUS
  <2>2. Now(c, g) /\ g.at = "open" /\ g.opts = f.opts /\ Head(g.opts).opt # "w"
    BY <1>1, <2>1 DEF BeginFiles, At, opt, Programs
  <2> QED BY <1>4, <2>2
<1>12. BeginAppend(c) => Tours(c)
  <2> SUFFICES ASSUME BeginAppend(c) PROVE Tours(c)
    OBVIOUS
  <2>1. PICK args : args = Head(f.opts).args
    OBVIOUS
  <2>2. Breaks("wild") => Tours(c)
    BY <1>2 DEF Breaks
  <2>3. Head(f.opts).opt # "w"
    BY <1>1 DEF BeginAppend, At, opt
  <2>4. ASSUME Now(c, [f EXCEPT !.at = "open", !.files = <<args[1]>>]) PROVE Tours(c)
    <3>1. PICK g : g = [f EXCEPT !.at = "open", !.files = <<args[1]>>]
      OBVIOUS
    <3>2. Now(c, g) /\ g.at = "open" /\ g.opts = f.opts
      BY <2>4, <3>1 DEF Programs
    <3> QED BY <1>4, <2>3, <3>2
  <2> QED BY <1>1, <1>8, <2>1, <2>2, <2>4 DEF BeginAppend
<1>13. BeginWalk(c) => Tours(c)
  <2> SUFFICES ASSUME BeginWalk(c) PROVE Tours(c)
    OBVIOUS
  <2>1. f.opts # <<>> /\ Head(f.opts).opt = "w"
    BY <1>1 DEF BeginWalk, At, opt
  <2>2. PICK o \in Option : o = Head(f.opts)
    BY <2>1 DEF Programs
  <2>3. Stop(c) => Tours(c)
    BY <1>2 DEF Stop
  <2>4. ASSUME o.dir # NONE,
               Now(c, [f EXCEPT !.at = "walk", !.walk = <<Entries[o.dir]>>,
                                !.nvisit = IF o.n = 0 THEN -1 ELSE o.n, !.offered = <<>>])
        PROVE  Tours(c)
    <3>1. PICK g : g = [f EXCEPT !.at = "walk", !.walk = <<Entries[o.dir]>>,
                                 !.nvisit = IF o.n = 0 THEN -1 ELSE o.n, !.offered = <<>>]
      OBVIOUS
    <3>2. /\ g.at = "walk" /\ g.opts = f.opts /\ g.walk = <<Entries[o.dir]>> /\ Now(c, g)
          /\ g.nvisit = (IF o.n = 0 THEN -1 ELSE o.n) /\ g.offered = <<>>
      BY <2>4, <3>1 DEF Programs
    <3>3. o.dir \in DOMAIN Entries /\ o.n \in Nat
      BY <2>4 DEF Option
    <3>4. PICK s \in EntrySeqs : s = Entries[o.dir]
      BY <3>3, ClientAssumption DEF EntrySeqs
    <3>5. Ahead(<<s>>) = FilesBelow[o.dir] /\ FilesBelow[o.dir] \in Seq(Paths)
      <4>1. FilesBelow[o.dir] = OffersAll(s, FilesBelow) /\ FilesBelow[o.dir] \in Seq(Paths)
        BY <3>3, <3>4, BelowIs DEF FileLists
      <4>2. <<>> \in Seq(EntrySeqs) /\ <<s>> \o <<>> = <<s>>
        OBVIOUS
      <4>3. Ahead(<<s>> \o <<>>) = OffersAll(s, FilesBelow) \o Ahead(<<>>)
        BY <4>2, AheadOpened
      <4>4. FilesBelow[o.dir] \o <<>> = FilesBelow[o.dir]
        BY <4>1
      <4> QED BY <4>1, <4>2, <4>3, <4>4, AheadEnds
    <3>6. <<>> \o FilesBelow[o.dir] = FilesBelow[o.dir]
      BY <3>5
    <3>7. IF o.n = 0 THEN g.nvisit < 0 ELSE g.nvisit >= 0 /\ g.nvisit = o.n - Len(g.offered)
      <4>1. Len(<<>>) = 0
        OBVIOUS
      <4> QED BY <3>2, <3>3, <4>1
    <3>8. Toured(g)
      BY <2>1, <2>2, <3>2, <3>3, <3>4, <3>5, <3>6, <3>7 DEF Toured
    <3> QED BY <3>2, <3>8 DEF Tours
  <2> QED BY <1>1, <2>2, <2>3, <2>4 DEF BeginWalk
<1>14. EndFiles(c) => Tours(c)
  <2> SUFFICES ASSUME EndFiles(c) PROVE Tours(c)
    OBVIOUS
  <2>1. f.at = "open" /\ f.opts # <<>> /\ opt(c) = Head(f.opts).opt
    BY <1>1 DEF EndFiles, At, opt
  <2> QED BY <1>6, <1>8, <2>1 DEF EndFiles
<1>15. CreateWrite(c) \/ append(c) \/ LockFiles(c) \/ RemoveFiles(c) => Tours(c)
  BY <1>1, <1>6, <1>7 DEF CreateWrite, append, LockFiles, RemoveFiles, AtFile, At
<1>16. letturaRandom(c) \/ CloseDown(c) => Tours(c)
  <2>1. letturaRandom(c) => Tours(c)
    BY <1>8 DEF letturaRandom
  <2>2. ASSUME CloseDown(c) PROVE Tours(c)
    <3>1. PICK g : g = [f EXCEPT !.at = "ended"]
      OBVIOUS
    <3>2. Now(c, g) /\ g.at = "ended" /\ g.opts = f.opts /\ g.opts = <<>>
      BY <1>1, <2>2, <3>1 DEF CloseDown, Goto, Programs
    <3> QED BY <1>4, <3>2
  <2> QED BY <2>1, <2>2
<1>17. letturaFiles(c) => Tours(c)
  <2> SUFFICES ASSUME letturaFiles(c) PROVE Tours(c)
    OBVIOUS
  <2>1. f.at # "option"
    BY <1>1 DEF letturaFiles, AtFile, At
  <2>2. ASSUME Now(c, [f EXCEPT !.at = "got", !.result2 = 1, !.buf = "held"]) PROVE Tours(c)
    <3>1. PICK g : g = [f EXCEPT !.at = "got", !.result2 = 1, !.buf = "held"]
      OBVIOUS
    <3>2. /\ Now(c, g) /\ g.at = "got" /\ g.opts = f.opts /\ g.walk = f.walk
          /\ g.nvisit = f.nvisit /\ g.offered = f.offered
      BY <2>2, <3>1 DEF Programs
    <3> QED BY <1>5, <2>1, <3>2
  <2>3. ASSUME Now(c, [f EXCEPT !.at = "open", !.result2 = -1, !.files = Tail(@)])
        PROVE  Tours(c)
    <3>1. PICK g : g = [f EXCEPT !.at = "open", !.result2 = -1, !.files = Tail(@)]
      OBVIOUS
    <3>2. /\ Now(c, g) /\ g.at = "open" /\ g.opts = f.opts /\ g.walk = f.walk
          /\ g.nvisit = f.nvisit /\ g.offered = f.offered
      BY <2>3, <3>1 DEF Programs
    <3> QED BY <1>5, <2>1, <3>2
  <2> QED BY <1>1, <1>6, <1>7, <2>1, <2>2, <2>3 DEF letturaFiles
<1>18. saveFile(c) => Tours(c)
  <2> SUFFICES ASSUME saveFile(c) PROVE Tours(c)
    OBVIOUS
  <2>1. f.at # "option"
    BY <1>1 DEF saveFile, AtFile, At
  <2>2. ASSUME Now(c, [f EXCEPT !.at = "open", !.files = Tail(@), !.buf = "freed"])
        PROVE  Tours(c)
    <3>1. PICK g : g = [f EXCEPT !.at = "open", !.files = Tail(@), !.buf = "freed"]
      OBVIOUS
    <3>2. /\ Now(c, g) /\ g.at = "open" /\ g.opts = f.opts /\ g.walk = f.walk
          /\ g.nvisit = f.nvisit /\ g.offered = f.offered
      BY <2>2, <3>1 DEF Programs
    <3> QED BY <1>5, <2>1, <3>2
  <2>3. Breaks("freed") => Tours(c)
    BY <1>2 DEF Breaks
  <2> QED BY <1>1, <1>7, <1>8, <2>1, <2>2, <2>3 DEF saveFile
<1> QED BY <1>10, <1>11, <1>12, <1>13, <1>14, <1>15, <1>16, <1>17, <1>18, WalkTours DEF Main

LEMMA TouringNext == ASSUME Nested, Typed, Touring, [Next]_vars PROVE Touring'
<1>1. ASSUME UNCHANGED prog PROVE Touring'
  BY <1>1 DEF Touring
<1>2. ASSUME NEW c \in Clients, Main(c) PROVE Touring'
  <2>1. CASE UNCHANGED prog
    BY <1>1, <2>1
  <2>2. CASE \E g : Now(c, g) /\ Toured(g)
    <3>1. PICK g : Now(c, g) /\ Toured(g)
      BY <2>2
    <3>2. prog'[c] = g /\ \A d \in Clients \ {c} : prog'[d] = prog[d]
      BY <3>1 DEF Now, Typed, ProgTyped
    <3>3. \A d \in Clients : Toured(prog'[d])
      BY <3>1, <3>2 DEF Touring
    <3> QED BY <3>3 DEF Touring
  <2> QED BY <1>2, <2>1, <2>2, MainTours DEF Tours
<1> QED BY <1>1, <1>2 DEF Next, vars

LEMMA InitTours == ASSUME Init PROVE Touring
<1>1. PICK s \in Scripts : prog = [c \in Clients |-> Program(s[c])]
  BY DEF Init
<1> QED BY <1>1 DEF Touring, Toured, Program

\* client.c:223: where directories do not nest in themselves, -w dir[,n] offers to
\* the server the first n files below dir in the order of readdir(), or all, for
\* any tree and any n: the global counter that visitaDir() shares between its
\* calls, negative where no n is given, stops each of them at the same file.
THEOREM WalksAsTold == ASSUME Nested PROVE Spec => []WalkAsTold
<1>1. Init => Typed /\ Touring
  BY InitTyped, InitTours
<1>2. Typed /\ Touring /\ [Next]_vars => (Typed /\ Touring)'
  BY TypedNext, TouringNext
<1>3. Typed /\ Touring => WalkAsTold
  BY TouringIsTold
<1> QED BY <1>1, <1>2, <1>3, PTL DEF Spec

=============================================================================

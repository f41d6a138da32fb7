------------------------------- MODULE Store -------------------------------
(***************************************************************************)
(* What the server promises when requests are served one at a time: a map  *)
(* from path names to files, with one flag "isopen" and one lock per file, *)
(* and for each request the changes it may make and the statuses it is     *)
(* answered.  Nothing is said of the table, of fifo, of the count of       *)
(* bytes, of pointers or of mutexes: which files make room for others is   *)
(* left open.  Workers with one thread implements this specification       *)
(* (module WorkersStore), and the clients of Client work with it.          *)
(***************************************************************************)
EXTENDS Integers, Sequences, FiniteSets, SequencesExt

CONSTANTS Clients,     \* the file descriptors of the clients
          Paths,       \* path names
          MaxF,        \* sc.maxf
          NONE,        \* no path, no client
          MaxVictims   \* bound: the files that one request may expel

ASSUME StoreAssumption == /\ IsFiniteSet(Paths)
                          /\ NONE \notin Clients /\ NONE \notin Paths

VARIABLES store,    \* the file of each path, or Absent
          phase,    \* how far the request in hand has come
          req,      \* the request in hand
          answer,   \* the statuses it has been answered
          victims   \* the paths it still has to expel, in order

svars == <<store, phase, req, answer, victims>>

\* dim is the size of a content that was written.
StoredFile == [isopen : {0, 1}, lock : {0, 1}, fd : Clients \cup {NONE},
               dim : Nat, written : BOOLEAN]
Absent == [isopen |-> 0, lock |-> 0, fd |-> NONE, dim |-> 0, written |-> FALSE]

stored == {p \in Paths : store[p] # Absent}
NoRequest == [op |-> NONE, path |-> NONE, size |-> 0, fd |-> NONE]
Phases == {"idle", "begun", "expel", "written", "full", "evict", "append",
           "removed", "closing", "done"}

StoreInit == /\ store = [p \in Paths |-> Absent]
             /\ phase = "idle"
             /\ req = NoRequest
             /\ answer = <<>>
             /\ victims = <<>>

-----------------------------------------------------------------------------

file == store[req.path]
Mine == file.fd = req.fd
Permitted == file.lock = 0 \/ Mine

\* The next phase, with status s sent or with nothing sent.
Reply(s, next) == /\ phase' = next
                  /\ answer' = Append(answer, s)
                  /\ UNCHANGED <<req, victims>>
Silently(next) == phase' = next /\ UNCHANGED <<req, answer, victims>>

\* The file of the request becomes g.
Becomes(g) == store' = [store EXCEPT ![req.path] = g]
Unchanged == UNCHANGED store

\* The request in hand is an "op" of a stored file.
Serving(op) == phase = "begun" /\ req.op = op /\ req.path \in stored

Receive(r) == /\ phase = "idle"
              /\ phase' = "begun"
              /\ req' = r
              /\ answer' = <<>>
              /\ UNCHANGED <<store, victims>>

\* OPEN with O_CREATE: over the limit the new file stays, and another goes,
Create ==
    /\ phase = "begun" /\ req.op \in {"O_CREATE", "O_CRLK"}
    /\ \/ req.path \in stored /\ Reply("YESCONTAIN", "done") /\ Unchanged
       \/ /\ req.path \notin stored
          /\ Becomes([isopen |-> 1, lock |-> IF req.op = "O_CRLK" THEN 1 ELSE 0,
                      fd |-> req.fd, dim |-> 0, written |-> FALSE])
          /\ IF Cardinality(stored) < MaxF THEN Reply("SUCCESS", "done")
             ELSE Silently("expel")

\* or none does: the path of the oldest WRITE, whose file may be gone already.
Expel(p) == /\ phase = "expel"
            /\ store' = [store EXCEPT ![p] = Absent]
            /\ Reply("TOMUCHFILE", "done")

\* Every other request that names a file.
Missing == /\ phase = "begun"
           /\ req.op \notin {"O_CREATE", "O_CRLK", "READN", "CLOSECONNECTION"}
           /\ req.path \notin stored
           /\ Reply("NOTPRESENT", "done") /\ Unchanged

Open == /\ Serving("O_OPEN")
        /\ Becomes([file EXCEPT !.isopen = 1])
        /\ Reply("SUCCESS", "done")

OpenLocked == /\ Serving("O_LOCK")
              /\ Becomes([file EXCEPT !.isopen = 1, !.lock = 1, !.fd = req.fd])
              /\ Reply("SUCCESS", "done")

\* No answer is promised while another client has the file locked.
LockFile ==
    /\ Serving("LOCKS")
    /\ \/ file.isopen = 0 /\ Reply("NOTOPEN", "done") /\ Unchanged
       \/ /\ file.isopen = 1 /\ Permitted
          /\ Becomes([file EXCEPT !.lock = 1, !.fd = req.fd])
          /\ Reply("SUCCESS", "done")
       \/ file.isopen = 1 /\ ~Permitted /\ Silently("done") /\ Unchanged

UnlockFile ==
    /\ Serving("UNLOCKS")
    /\ \/ Mine /\ Becomes([file EXCEPT !.lock = 0]) /\ Reply("SUCCESS", "done")
       \/ ~Mine /\ Reply("NOTPERMISSION", "done") /\ Unchanged

CloseFile == /\ Serving("CLOSE")
             /\ Becomes([file EXCEPT !.isopen = 0])
             /\ Reply("SUCCESS", "done")

Read == /\ Serving("READ")
        /\ Reply(CASE file.isopen = 0                -> "NOTOPEN"
                   [] file.isopen = 1 /\ ~Permitted -> "NOTPERMISSION"
                   [] OTHER                       -> "SUCCESS", "done")
        /\ Unchanged

\* WRITE replaces the content, and is answered when the bytes are counted.
Write ==
    /\ Serving("WRITE")
    /\ \/ file.isopen = 0 /\ Reply("NOTOPEN", "done") /\ Unchanged
       \/ file.isopen = 1 /\ ~Permitted /\ Reply("NOTPERMISSION", "done") /\ Unchanged
       \/ /\ file.isopen = 1 /\ Permitted
          /\ Becomes([file EXCEPT !.dim = req.size, !.written = TRUE])
          /\ Silently("written")
Count == /\ phase = "written"
         /\ Reply("SUCCESS", "done") \/ Reply("SERVERFULL", "full")
         /\ Unchanged

\* Handlercapacity(): the files that make room, none or more.
MakeRoom(ps) == /\ phase = "full"
                /\ phase' = "evict"
                /\ victims' = ps
                /\ UNCHANGED <<store, req, answer>>
Evict == /\ phase = "evict" /\ victims # <<>>
         /\ store' = [store EXCEPT ![Head(victims)] = Absent]
         /\ victims' = Tail(victims)
         /\ UNCHANGED <<phase, req, answer>>
Evicted == /\ phase = "evict" /\ victims = <<>>
           /\ Silently(IF req.op = "WRITE" THEN "done" ELSE "append")
           /\ Unchanged

\* APPEND makes room first, and is then answered a second time. Whose lock it
\* is does not matter.
AppendBegin ==
    /\ Serving("APPEND")
    /\ \/ file.isopen = 0 /\ Reply("NOTOPEN", "done")
       \/ file.isopen = 1 /\ (Reply("SERVERFULL", "full") \/ Silently("append"))
    /\ Unchanged
AppendEnd ==
    /\ phase = "append"
    /\ \/ /\ req.path \in stored
          /\ Becomes([file EXCEPT !.dim = @ + req.size, !.written = TRUE])
       \/ req.path \notin stored /\ Unchanged
    /\ Reply("SUCCESS", "done")

\* REMOVE is for the client that has locked the file.
RemoveFile ==
    /\ Serving("REMOVE")
    /\ \/ file.lock = 0 /\ Reply("NOTLOCKED", "done") /\ Unchanged
       \/ file.lock = 1 /\ ~Mine /\ Reply("NOTPERMISSION", "done") /\ Unchanged
       \/ file.lock = 1 /\ Mine /\ Becomes(Absent) /\ Silently("removed")
Removed == phase = "removed" /\ Reply("SUCCESS", "done") /\ Unchanged

ReadN == /\ phase = "begun" /\ req.op = "READN"
         /\ Reply(IF stored = {} THEN "EMPTY" ELSE "SUCCESS", "done")
         /\ Unchanged

\* CLOSECONNECTION ends when the client has no lock left.
CloseConnection == /\ phase = "begun" /\ req.op = "CLOSECONNECTION"
                   /\ Reply("SUCCESS", "closing") /\ Unchanged
Release(p) == /\ phase = "closing" /\ store[p].fd = req.fd
              /\ store' = [store EXCEPT ![p].lock = 0]
              /\ UNCHANGED <<phase, req, answer, victims>>

Ready == /\ phase' = "idle"
         /\ req' = NoRequest
         /\ answer' = <<>>
         /\ UNCHANGED <<store, victims>>
Finish == \/ phase = "done" /\ Ready
          \/ /\ phase = "closing" /\ Ready
             /\ \A p \in Paths : store[p].fd = req.fd => store[p].lock = 0

\* A step of the server on the request in hand.
Step == \/ Create \/ (\E p \in Paths : Expel(p)) \/ Missing \/ Open
        \/ OpenLocked \/ LockFile \/ UnlockFile \/ CloseFile \/ Read \/ Write
        \/ Count \/ Evict \/ Evicted \/ AppendBegin \/ AppendEnd \/ RemoveFile
        \/ Removed \/ ReadN \/ CloseConnection \/ (\E p \in Paths : Release(p))
        \/ Finish

AllOps == {"O_CREATE", "O_LOCK", "O_CRLK", "O_OPEN", "LOCKS", "UNLOCKS",
           "WRITE", "APPEND", "READ", "READN", "CLOSE", "REMOVE",
           "CLOSECONNECTION"}
AnyRequest == [op : AllOps, path : Paths \cup {NONE}, size : Nat, fd : Clients]

StoreNext == \/ req' \in AnyRequest /\ Receive(req')
             \/ \E ps \in SeqOf(Paths, MaxVictims) : MakeRoom(ps)
             \/ Step

StoreSpec == StoreInit /\ [][StoreNext]_svars
=============================================================================

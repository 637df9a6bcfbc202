------------------------------ MODULE FileDriver ------------------------------
(***************************************************************************)
(* FileDriver, the local driver behind Filesystem (Storage holds the same  *)
(* code).  Its operations run on the caller's thread or, in their async    *)
(* forms, on a thread of ioPool_, and nothing orders two of them: each is  *)
(* a sequence of calls to the file system, of which the others see every   *)
(* step.                                                                   *)
(*                                                                         *)
(* The file system is POSIX: a name leads to a file, a stream that is open *)
(* stays with its file when the name is removed or given to another.  Of a *)
(* content only its length matters: "long" written over nothing, then      *)
(* "short" over it through another stream, leaves "mixed".                 *)
(***************************************************************************)
EXTENDS Naturals, FiniteSets

CONSTANTS
    Tasks,      \* calls in progress
    Paths,
    Faults,     \* open and write can fail
    FileBound   \* bound on the files created

VARIABLES
    dir,      \* the file a path names, 0 when none
    data,     \* the content of each file
    created,  \* how many files there have been
    task,     \* [op, at, src, dst, content, file, from] of each task
    raced     \* history: files whose content two writers or a failed write may
              \* have spoilt, and copies of a file that was one or being written

vars == <<dir, data, created, task, raced>>

Files == 1..FileBound
Contents == {"short", "long"}

\* A task that was just called with its arguments, and one that is not running.
Called(op, p, q, c) ==
    [op |-> op, at |-> "start", src |-> p, dst |-> q, content |-> c, file |-> 0, from |-> 0]
Idle == [op |-> "none", at |-> "none", src |-> 0, dst |-> 0, content |-> "", file |-> 0, from |-> 0]
-----------------------------------------------------------------------------
(* A variant with a plausible slip: a stream opened without truncation.    *)

NotTruncated(old) == old
-----------------------------------------------------------------------------
\* std::ofstream(fullPath, std::ios::out) on a file that exists.
Truncated(old) == ""

\* A stream writes c from the start of a file with the content old.
Overwrite(old, c) == IF c = "short" /\ old \in {"long", "mixed"} THEN "mixed" ELSE c

\* fs::copy without options: the destination must not exist.
MayCopyTo(p) == dir[p] = 0

\* fs::rename
Renamed(p, q) == IF p = q THEN dir ELSE [dir EXCEPT ![q] = dir[p], ![p] = 0]

\* Tasks that have a stream open on f for writing.
Writers(f) == {t \in Tasks : task[t].at \in {"write", "head", "tail"} /\ task[t].file = f}

\* Copies that have read a part of f.
Readers(f) == {t \in Tasks : task[t].at = "tail" /\ task[t].from = f}

Init ==
    /\ dir = [p \in Paths |-> 0] /\ data = [f \in Files |-> ""] /\ created = 0
    /\ task = [t \in Tasks |-> Idle] /\ raced = {}

\* A call of put, deleteFile, copy or move, or of its async form once a thread
\* of the pool runs it.  get and exists change nothing.
Begin(t) ==
    /\ task[t] = Idle
    /\ \E op \in {"put", "delete", "copy", "move"}, p, q \in Paths, c \in Contents :
          /\ op \notin {"copy", "move"} => q = p
          /\ op # "put" => c = "short"
          /\ task' = [task EXCEPT ![t] = Called(op, p, q, c)]
    /\ UNCHANGED <<dir, data, created, raced>>

\* A task returns or throws without another effect on the files.
Ends(t) == task' = [task EXCEPT ![t] = Idle]

\* put: the stream is opened, which truncates the file or creates it.
PutOpen(t) ==
    /\ task[t].op = "put" /\ task[t].at = "start"
    /\ LET p == task[t].src
           f == IF dir[p] = 0 THEN created + 1 ELSE dir[p]
       IN  /\ f \in Files
           /\ dir' = [dir EXCEPT ![p] = f]
           /\ created' = IF dir[p] = 0 THEN created + 1 ELSE created
           /\ data' = [data EXCEPT ![f] = Truncated(@)]
           /\ raced' = (IF Writers(f) # {} THEN raced \cup {f} ELSE raced \ {f})
                         \cup {task[u].file : u \in Readers(f)}
           /\ task' = [task EXCEPT ![t].at = "write", ![t].file = f]

\* The directories or the stream fail: put throws.
OpenFails(t) ==
    /\ Faults /\ task[t].op = "put" /\ task[t].at = "start"
    /\ Ends(t)
    /\ UNCHANGED <<dir, data, created, raced>>

\* file << content, and the flush when the stream is destroyed.
PutWrite(t) ==
    /\ task[t].op = "put" /\ task[t].at = "write"
    /\ data' = [data EXCEPT ![task[t].file] = Overwrite(@, task[t].content)]
    /\ Ends(t)
    /\ UNCHANGED <<dir, created, raced>>

\* The write fails, which put does not look at: it returns as if it had not.
WriteFails(t) ==
    /\ Faults /\ task[t].op = "put" /\ task[t].at = "write"
    /\ raced' = raced \cup {task[t].file}
    /\ Ends(t)
    /\ UNCHANGED <<dir, data, created>>

\* deleteFile, copy and move look whether the file is there.
Look(t) ==
    /\ task[t].op # "put" /\ task[t].at = "start"
    /\ IF dir[task[t].src] = 0 THEN Ends(t)
       ELSE task' = [task EXCEPT ![t].at = "go"]
    /\ UNCHANGED <<dir, data, created, raced>>

\* fs::remove; a file that is gone by now is no error.
DeleteRemove(t) ==
    /\ task[t].op = "delete" /\ task[t].at = "go"
    /\ dir' = [dir EXCEPT ![task[t].src] = 0]
    /\ Ends(t)
    /\ UNCHANGED <<data, created, raced>>

\* fs::rename, which throws when the source is gone by now.
MoveRename(t) ==
    /\ task[t].op = "move" /\ task[t].at = "go"
    /\ dir' = IF dir[task[t].src] = 0 THEN dir ELSE Renamed(task[t].src, task[t].dst)
    /\ Ends(t)
    /\ UNCHANGED <<data, created, raced>>

\* fs::copy throws when the source is gone or the destination exists.
CopyThrows(t) ==
    /\ task[t].op = "copy" /\ task[t].at = "go"
    /\ dir[task[t].src] = 0 \/ ~MayCopyTo(task[t].dst)
    /\ Ends(t)
    /\ UNCHANGED <<dir, data, created, raced>>

\* Both files are opened, the destination is created, and the source is then
\* read and written in chunks, of which two are enough to be torn apart.
CopyOpen(t) ==
    /\ task[t].op = "copy" /\ task[t].at = "go"
    /\ dir[task[t].src] # 0 /\ MayCopyTo(task[t].dst)
    /\ LET q == task[t].dst
           f == IF dir[q] = 0 THEN created + 1 ELSE dir[q]
       IN  /\ f \in Files
           /\ dir' = [dir EXCEPT ![q] = f]
           /\ created' = IF dir[q] = 0 THEN created + 1 ELSE created
           /\ data' = [data EXCEPT ![f] = ""]
           /\ task' = [task EXCEPT ![t].at = "head", ![t].file = f, ![t].from = dir[task[t].src]]
    /\ UNCHANGED raced

\* What a copy from g that reads or writes now makes of raced.
Spoilt(f, g) == IF g \in raced \/ Writers(g) # {} THEN raced \cup {f} ELSE raced

\* The first chunk; what it came from is remembered.
CopyHead(t) ==
    /\ task[t].at = "head"
    /\ LET f == task[t].file
           g == task[t].from
       IN  /\ data' = [data EXCEPT ![f] = "mixed"]
           /\ raced' = Spoilt(f, g)
           /\ task' = [task EXCEPT ![t].at = "tail", ![t].content = data[g]]
    /\ UNCHANGED <<dir, created>>

\* The other chunks.
CopyTail(t) ==
    /\ task[t].at = "tail"
    /\ LET f == task[t].file
           g == task[t].from
       IN  /\ data' = [data EXCEPT ![f] = IF data[g] = task[t].content THEN data[g] ELSE "mixed"]
           /\ raced' = Spoilt(f, g)
    /\ Ends(t)
    /\ UNCHANGED <<dir, created>>

\* A read or a write fails: fs::copy throws, what was copied stays.
CopyFails(t) ==
    /\ Faults /\ task[t].at \in {"head", "tail"}
    /\ raced' = raced \cup {task[t].file}
    /\ Ends(t)
    /\ UNCHANGED <<dir, data, created>>

Next ==
    \E t \in Tasks :
        \/ Begin(t) \/ Look(t) \/ PutOpen(t) \/ OpenFails(t) \/ PutWrite(t) \/ WriteFails(t)
        \/ DeleteRemove(t) \/ MoveRename(t)
        \/ CopyThrows(t) \/ CopyOpen(t) \/ CopyHead(t) \/ CopyTail(t) \/ CopyFails(t)

Spec == Init /\ [][Next]_vars
-----------------------------------------------------------------------------
(* Properties.                                                             *)

\* A file holds the whole content of one put once nobody writes to it,
\* whatever was moved, copied or deleted meanwhile, unless two streams had it
\* open, a write to it failed (put does not notice), or it is a copy whose
\* source was such a file or was written to at some time of the copy: fs::copy
\* then takes parts of two contents, and copy() returns as if it had not.
WholeUnlessRaced ==
    \A p \in Paths :
        dir[p] # 0 /\ Writers(dir[p]) = {} /\ dir[p] \notin raced => data[dir[p]] \in Contents

===============================================================================

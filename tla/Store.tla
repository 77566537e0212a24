-------------------------------- MODULE Store -------------------------------
(***************************************************************************)
(* One key of the file store: Put writes a temporary file and renames it,  *)
(* Get reads the file, Watch polls its modification time.                  *)
(*                                                                         *)
(*   src/internal/configstore/file.go    (readFile, writeFile, modTime)    *)
(*   src/internal/configstore/store.go   (FileStore)                       *)
(*                                                                         *)
(* The file system is external.  A name leads to an inode; opening a name  *)
(* for writing empties its inode, and a descriptor goes on writing to the  *)
(* inode whatever becomes of the name.  Two Puts of one key use one        *)
(* temporary name.                                                         *)
(***************************************************************************)
EXTENDS Naturals, FiniteSets

CONSTANTS Values,   \* what is stored
          Inodes    \* bound: inodes in use at once

ASSUME StoreAssumption ==
    /\ 0 \notin Inodes
    /\ {"empty", "torn", "nothing"} \cap Values = {}

VARIABLES file, tmp,  \* the inodes of the two names, 0 for none
          bytes,      \* per inode: its contents
          mtime,      \* per inode: its modification time
          clock,      \* the file system's time
          sameTick,   \* a change has not moved the time of the file on
          watch,      \* where the goroutine of Watch is
          last,       \* its last modification time
          seen,       \* the last value it has reported
          fresh       \* the file was replaced after Watch took its baseline

names == <<file, tmp>>
inodes == <<bytes, mtime, clock, sameTick>>
watching == <<watch, last, seen>>
storeVars == <<names, inodes, watching, fresh>>

Contents == Values \cup {"empty", "torn"}
Nothing == "nothing"

\* The key has not been stored yet.
StoreInit ==
    /\ file = 0 /\ tmp = 0
    /\ bytes = [i \in Inodes |-> "empty"]
    /\ mtime = [i \in Inodes |-> 0]
    /\ clock = 0 /\ sameTick = FALSE
    /\ watch = "start" /\ last = 0 /\ seen = Nothing
    /\ fresh = FALSE

\* readFile and modTime; no time is before that of a missing file.
Stored == IF file = 0 THEN Nothing ELSE bytes[file]
ModTime == IF file = 0 THEN 0 ELSE mtime[file]

\* Every change of an inode gets the present time, which may be that of the change
\* before.
Touch(i, b) ==
    \E step \in {0, 1} :
        /\ clock + step > 0
        /\ clock' = clock + step
        /\ sameTick' = (sameTick \/ (i = file /\ mtime[i] = clock + step))
        /\ mtime' = [mtime EXCEPT ![i] = clock + step]
        /\ bytes' = [bytes EXCEPT ![i] = b]

-----------------------------------------------------------------------------
(* writeFile; fd is the descriptor of the caller, used the ones of all callers *)

Free(used) == Inodes \ ({file, tmp} \cup used)

\* os.WriteFile opens the temporary name and empties it.  Mutant: it writes the
\* file itself.
OpenTmp_InPlace(fd, used) ==
    /\ fd = file \/ (file = 0 /\ fd \in Free(used))
    /\ Touch(fd, "empty")
    /\ tmp' = fd
    /\ UNCHANGED <<file, watching, fresh>>

\* Mutant: it does not empty it.
OpenTmp_Keeps(fd, used) ==
    /\ fd = tmp \/ (tmp = 0 /\ fd \in Free(used))
    /\ fd \in Inodes
    /\ tmp' = fd
    /\ bytes' = [bytes EXCEPT ![fd] = IF tmp = fd THEN @ ELSE "empty"]
    /\ UNCHANGED <<file, mtime, clock, sameTick, watching, fresh>>

OpenTmp(fd, used) ==
    /\ fd = tmp \/ (tmp = 0 /\ fd \in Free(used))
    /\ fd \in Inodes
    /\ Touch(fd, "empty")
    /\ tmp' = fd
    /\ UNCHANGED <<file, watching, fresh>>

\* Then it writes; over the bytes of another writer, a shorter value leaves a rest.
WriteTmp(fd, v) ==
    /\ \E b \in {v} \cup (IF bytes[fd] = "empty" THEN {} ELSE {"torn"}) : Touch(fd, b)
    /\ UNCHANGED <<names, watching, fresh>>

\* A write may fail half way.
WriteFails(fd) ==
    /\ Touch(fd, "torn")
    /\ UNCHANGED <<names, watching, fresh>>

\* os.Rename; it fails if another Put has renamed the name away.
RenameTmp ==
    IF tmp = 0
    THEN UNCHANGED storeVars
    ELSE /\ file' = tmp /\ tmp' = 0
         /\ fresh' = (watch # "start")
         /\ sameTick' = (sameTick \/ ModTime >= mtime[tmp])
         /\ UNCHANGED <<bytes, mtime, clock, watching>>

-----------------------------------------------------------------------------
(* Watch *)

Baseline ==
    /\ watch = "start"
    /\ watch' = "poll"
    /\ last' = ModTime
    /\ UNCHANGED <<names, inodes, seen, fresh>>

\* A tick: the modification time first.  Mutant: the present time is remembered.
Poll_Now ==
    /\ watch = "poll" /\ ModTime > last
    /\ last' = clock
    /\ watch' = "get"
    /\ UNCHANGED <<names, inodes, seen, fresh>>

Poll ==
    /\ watch = "poll" /\ ModTime > last
    /\ last' = ModTime
    /\ watch' = "get"
    /\ UNCHANGED <<names, inodes, seen, fresh>>

\* Then the value, which may be younger than that time.
Report ==
    /\ watch = "get"
    /\ watch' = "poll"
    /\ seen' = Stored
    /\ UNCHANGED <<names, inodes, last, fresh>>

WatchNext == Baseline \/ Poll \/ Report

StoreTypeOK ==
    /\ file \in Inodes \cup {0} /\ tmp \in Inodes \cup {0}
    /\ bytes \in [Inodes -> Contents]
    /\ mtime \in [Inodes -> Nat] /\ clock \in Nat /\ last \in Nat
    /\ sameTick \in BOOLEAN /\ fresh \in BOOLEAN
    /\ watch \in {"start", "poll", "get"}
    /\ seen \in Contents \cup {Nothing}
=============================================================================

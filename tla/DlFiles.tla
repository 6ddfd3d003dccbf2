------------------------------ MODULE DlFiles ------------------------------
(***************************************************************************)
(* dl_file.c and its callers parse_file() and torrent_complete(): the      *)
(* names and the contents of the files of a torrent, through crashes and   *)
(* restarts of the process.  A file is created under its own name, renamed *)
(* to X.incomplete before anything is written to it, and renamed back when *)
(* the whole torrent has been verified.                                    *)
(*                                                                         *)
(* A path is a sequence of parts, and SUFFIX, ".incomplete", is one.  The  *)
(* process may be killed between any two calls; the machine stays up, so   *)
(* what was written through the mapping is kept.  Peers send right data    *)
(* (Torrent has the others).                                               *)
(***************************************************************************)
EXTENDS Integers, Sequences, SequencesExt

CONSTANTS
  Files,      \* the paths of the files, in the order of the torrent
  SUFFIX,     \* ".incomplete"
  Inodes,     \* bound: so many files can be there at once
  MaxStarts   \* bound: so many times the process is started

File == 1 .. Len(Files)

None == 0

\* What paths are made of.
Parts == (UNION {Range(Files[f]) : f \in File}) \cup {SUFFIX}

ASSUME FilesAssumption ==
  /\ Files \in Seq(Seq(Parts))
  /\ \A f, g \in File : Files[f] = Files[g] => f = g
  /\ \A f \in File : Len(Files[f]) > 0 /\ ~Contains(Files[f], SUFFIX)
  /\ Inodes \subseteq Nat \ {None}
  /\ MaxStarts \in Nat

\* newpath: the path with the suffix.
Incomplete(p) == Append(p, SUFFIX)

\* The path up to the first SUFFIX that strstr() finds in it.
Trim(p) == SubSeq(p, 1, SelectInSeq(p, LAMBDA c : c = SUFFIX) - 1)

Names == {Files[f] : f \in File} \cup {Incomplete(Files[f]) : f \in File}

VARIABLES
  pc,         \* down, create, rename, run, complete, shared
  k,          \* the file that is created or completed
  dir,        \* the directory: names to inodes, None if there is no such file
  data,       \* the file an inode holds all the bytes of, or None
  mem,        \* the inode a file is mapped to, None if it could not be opened
  path,       \* dl_file_t.path
  verified,   \* the files whose pieces were all verified
  starts,     \* how often the process was started
  since,      \* starts since a file was last renamed back, -1 if it never was
  cut         \* the files whose creation ended between open() and rename()

process == <<pc, k, mem, path, verified>>
ghosts  == <<starts, since, cut>>
vars    == <<process, dir, data, ghosts>>

\* The state of the process and of the directory is well formed.
TypeOK ==
  /\ pc \in {"down", "create", "rename", "run", "complete", "shared"}
  /\ k \in 1 .. Len(Files) + 1
  /\ dir \in [Names -> Inodes \cup {None}]
  /\ data \in [Inodes -> File \cup {None}]
  /\ mem \in [File -> Inodes \cup {None}]
  /\ path \in [File -> Names]
  /\ verified \subseteq File
  /\ starts \in 0 .. MaxStarts
  /\ since \in [File -> -1 .. MaxStarts]
  /\ cut \subseteq File

Init ==
  /\ pc = "down"
  /\ k = 1
  /\ dir = [p \in Names |-> None]
  /\ data = [i \in Inodes |-> None]
  /\ mem = [f \in File |-> None]
  /\ path = Files
  /\ verified = {}
  /\ starts = 0
  /\ since = [f \in File |-> -1]
  /\ cut = {}

-----------------------------------------------------------------------------
(* Start-up: parse_file() and dl_file_create_and_open().                   *)

Start ==
  /\ pc = "down"
  /\ starts < MaxStarts
  /\ pc' = "create"
  /\ starts' = starts + 1
  /\ since' = [f \in File |-> IF since[f] < 0 THEN -1 ELSE since[f] + 1]
  /\ UNCHANGED <<k, mem, path, verified, dir, data, cut>>

\* MUTANT: O_TRUNC.
Kept_Truncated(i) == None

\* There is no O_TRUNC, and ftruncate() leaves a file of the right size as it is.
Kept(i) == data[i]

\* open() with O_CREAT, of file k: i is the inode it had or gets.
Opened(i) ==
  LET p == Files[k] IN
  /\ pc = "create"
  /\ k \in File
  /\ IF dir[p] = None THEN /\ \A q \in Names : dir[q] # i
                           /\ \A f \in File : mem[f] # i
                           /\ data' = [data EXCEPT ![i] = None]
                      ELSE /\ i = dir[p]
                           /\ data' = [data EXCEPT ![i] = Kept(i)]
  /\ dir' = [dir EXCEPT ![p] = i]

\* ftruncate(), mmap(), and the dl_file_t.
Open ==
  /\ \E i \in Inodes : Opened(i) /\ mem' = [mem EXCEPT ![k] = i]
  /\ path' = [path EXCEPT ![k] = Incomplete(Files[k])]
  /\ pc' = "rename"
  /\ UNCHANGED <<k, verified, ghosts>>

\* open() fails; parse_file() does not look at the result.
OpenFails ==
  /\ pc = "create"
  /\ k \in File
  /\ k' = k + 1
  /\ UNCHANGED <<pc, mem, path, verified, dir, data, ghosts>>

\* ftruncate() or malloc() fails: the file stays, under its final name.
CreateFails ==
  /\ \E i \in Inodes : Opened(i)
  /\ k' = k + 1
  /\ cut' = cut \cup {k}
  /\ UNCHANGED <<pc, mem, path, verified, starts, since>>

\* rename(): what had the new name is gone.
Renamed(d, old, new) ==
  IF d[old] = None THEN d ELSE [d EXCEPT ![new] = d[old], ![old] = None]

Rename ==
  /\ pc = "rename"
  /\ dir' = Renamed(dir, Files[k], Incomplete(Files[k]))
  /\ k' = k + 1
  /\ pc' = "create"
  /\ cut' = cut \ {k}
  /\ UNCHANGED <<mem, path, verified, data, starts, since>>

Run ==
  /\ pc = "create"
  /\ k = Len(Files) + 1
  /\ pc' = "run"
  /\ UNCHANGED <<k, mem, path, verified, dir, data, ghosts>>

-----------------------------------------------------------------------------
(* The download, file by file; Torrent has the blocks and the pieces.      *)

\* A file behind one that could not be opened is not reached.
Reached(f) == \A g \in 1 .. f : mem[g] # None

\* The last block of the file that was not there is written to the mapping.
Write(f) ==
  /\ pc = "run"
  /\ Reached(f)
  /\ data' = [data EXCEPT ![mem[f]] = f]
  /\ UNCHANGED <<process, dir, ghosts>>

\* All pieces were fetched in this life of the process, and their hashes are right.
Verify(f) ==
  /\ pc = "run"
  /\ Reached(f)
  /\ data[mem[f]] = f
  /\ verified' = verified \cup {f}
  /\ UNCHANGED <<pc, k, mem, path, dir, data, ghosts>>

-----------------------------------------------------------------------------
(* Completion: torrent_complete() and dl_file_complete().                  *)

\* MUTANT: does not wait for the last file.
AllVerified_OneLess == \E f \in File : File \ {f} \subseteq verified /\ Reached(f)

\* pieces_left is 0.
AllVerified == verified = File

Complete ==
  /\ pc = "run"
  /\ AllVerified
  /\ pc' = "complete"
  /\ k' = 1
  /\ UNCHANGED <<mem, path, verified, dir, data, ghosts>>

RenameBack ==
  /\ pc = "complete"
  /\ k \in File
  /\ path' = [path EXCEPT ![k] = Trim(path[k])]
  /\ dir' = Renamed(dir, path[k], Trim(path[k]))
  /\ k' = k + 1
  /\ since' = [since EXCEPT ![k] = 0]
  /\ UNCHANGED <<pc, mem, verified, data, starts, cut>>

AllDone == k = Len(Files) + 1

\* torrent_complete() has returned; the process goes on sharing.
Completed ==
  /\ pc = "complete"
  /\ AllDone
  /\ pc' = "shared"
  /\ UNCHANGED <<k, mem, path, verified, dir, data, ghosts>>

-----------------------------------------------------------------------------

\* The process is killed.
Crash ==
  /\ pc # "down"
  /\ pc' = "down"
  /\ k' = 1
  /\ mem' = [f \in File |-> None]
  /\ path' = Files
  /\ verified' = {}
  /\ cut' = IF pc = "rename" THEN cut \cup {k} ELSE cut
  /\ UNCHANGED <<dir, data, starts, since>>

\* Bound: the process is not started again.
StaysDown == pc = "down" /\ starts = MaxStarts /\ UNCHANGED vars

Next ==
  \/ Start \/ Open \/ OpenFails \/ CreateFails \/ Rename \/ Run
  \/ \E f \in File : Write(f) \/ Verify(f)
  \/ Complete \/ RenameBack \/ Completed
  \/ Crash \/ StaysDown

Spec == Init /\ [][Next]_vars

-----------------------------------------------------------------------------

WholeAt(f, p) == dir[p] # None /\ data[dir[p]] = f

\* A file that has its final name holds all of its data, through every crash
\* and restart, unless its creation ended between open() and rename().
FinalIsWhole ==
  \A f \in File : dir[Files[f]] # None =>
    WholeAt(f, Files[f]) \/ (pc = "rename" /\ k = f) \/ f \in cut

\* Once a file has been renamed back, its data outlive one restart, crashes and
\* failures in it included, also a crash before the other files are renamed back:
\* they are X, or X.incomplete.  (A second restart creates an empty X and renames
\* it over them, as the first restart does with a file that was not renamed back.)
OutlivesRestart ==
  \A f \in File : since[f] \in {0, 1} =>
    WholeAt(f, Files[f]) \/ WholeAt(f, Incomplete(Files[f]))
=============================================================================

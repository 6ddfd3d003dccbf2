-------------------------- MODULE ParseFileProofs --------------------------
(***************************************************************************)
(* Proofs about ParseFile: about DlFiles, for every number of files, of    *)
(* crashes and of restarts, and about Bencode, for every text.             *)
(***************************************************************************)
EXTENDS ParseFile, WellFoundedInduction, TLAPS

-----------------------------------------------------------------------------
(* DlFiles: names.  A path without the suffix and one with it are never    *)
(* the same, and taking the suffix away gives back the path it was added   *)
(* to.                                                                     *)

LEMMA SuffixIsPart == SUFFIX \in Parts
  BY DEF Parts

\* Taking the suffix away from a path that had none undoes adding it.
LEMMA TrimIncomplete ==
  ASSUME NEW p \in Seq(Parts), ~Contains(p, SUFFIX)
  PROVE  Trim(Incomplete(p)) = p
<1> DEFINE q == Append(p, SUFFIX)
           I == {j \in 1 .. Len(q) : q[j] = SUFFIX}
<1>1. /\ q \in Seq(Parts) /\ Len(q) = Len(p) + 1 /\ Len(p) \in Nat
      /\ q[Len(p) + 1] = SUFFIX
      /\ \A j \in 1 .. Len(p) : q[j] = p[j]
  BY SuffixIsPart
<1>2. \A j \in 1 .. Len(p) : p[j] # SUFFIX
  BY DEF Contains
<1>3. I = {Len(p) + 1}
  BY <1>1, <1>2
<1>4. Min(I) = Len(p) + 1
  BY <1>1, <1>3 DEF Min
<1>5. SubSeq(q, 1, Len(p)) = p
  BY <1>1
<1>6. Trim(q) = SubSeq(q, 1, (IF I # {} THEN Min(I) ELSE 0) - 1)
  BY DEF Trim, SelectInSeq
<1> HIDE DEF q, I
<1>7. (IF I # {} THEN Min(I) ELSE 0) - 1 = Len(p)
  BY <1>1, <1>3, <1>4
<1>8. Trim(q) = p
  BY <1>5, <1>6, <1>7
<1> QED
  BY <1>8 DEF Incomplete, q

LEMMA NameFacts ==
  ASSUME NEW f \in File
  PROVE  /\ Files[f] \in Names /\ Incomplete(Files[f]) \in Names
         /\ Trim(Incomplete(Files[f])) = Files[f]
         /\ \A g \in File :
              /\ Files[f] # Incomplete(Files[g])
              /\ Files[f] = Files[g] => f = g
              /\ Incomplete(Files[f]) = Incomplete(Files[g]) => f = g
<1>1. Files[f] \in Seq(Parts) /\ ~Contains(Files[f], SUFFIX)
  BY FilesAssumption DEF File
<1>2. ASSUME NEW g \in File
      PROVE  /\ Files[f] # Incomplete(Files[g])
             /\ Files[f] = Files[g] => f = g
             /\ Incomplete(Files[f]) = Incomplete(Files[g]) => f = g
  <2>1. Files[g] \in Seq(Parts) /\ ~Contains(Files[g], SUFFIX)
    BY FilesAssumption DEF File
  <2>2. Files[f] # Incomplete(Files[g])
    <3> DEFINE q == Append(Files[g], SUFFIX)
    <3>1. Len(q) \in 1 .. Len(q) /\ q[Len(q)] = SUFFIX
      BY <2>1, SuffixIsPart
    <3>2. Contains(Incomplete(Files[g]), SUFFIX)
      BY <3>1 DEF Contains, Incomplete
    <3> QED
      BY <1>1, <3>2
  <2>3. Files[f] = Files[g] => f = g
    BY FilesAssumption
  <2>4. Trim(Incomplete(Files[f])) = Files[f] /\ Trim(Incomplete(Files[g])) = Files[g]
    BY <1>1, <2>1, TrimIncomplete
  <2> QED
    BY <2>2, <2>3, <2>4
<1> QED
  BY <1>1, <1>2, TrimIncomplete DEF Names

-----------------------------------------------------------------------------
(* The inductive invariant.                                                *)

\* File f was renamed back.
Back(f) == pc \in {"complete", "shared"} /\ f < k

\* The name that the mapped file f has.
NameOf(f) ==
  IF Back(f) \/ (pc = "rename" /\ k = f) THEN Files[f] ELSE Incomplete(Files[f])

\* How far the process has got, and what it has mapped.
ProcessInv ==
  /\ pc = "down" => k = 1
  /\ pc = "rename" => k \in File
  /\ pc = "shared" => k = Len(Files) + 1
  /\ pc \in {"down", "create"} => \A f \in File : f >= k => mem[f] = None
  /\ pc = "rename" => \A f \in File : f > k => mem[f] = None
  /\ \A f \in File : mem[f] # None =>
       path[f] = IF Back(f) THEN Files[f] ELSE Incomplete(Files[f])
  /\ pc \in {"complete", "shared"} => verified = File
  /\ pc \notin {"run", "complete", "shared"} => verified = {}
  /\ \A f \in File : since[f] =< starts

\* An inode has one name, and a mapped file has its own.
DirInv ==
  /\ \A p, q \in Names : dir[p] # None /\ dir[p] = dir[q] => p = q
  /\ \A f \in File : mem[f] # None => dir[NameOf(f)] = mem[f]

\* What was verified stays whole while the process runs.
DataInv == \A f \in verified : mem[f] # None /\ data[mem[f]] = f

\* A file that was renamed back has its data under the final name until it is
\* opened at the next start.
RestartInv ==
  /\ OutlivesRestart
  /\ \A f \in File : since[f] = 0 =>
       /\ pc \in {"down", "complete", "shared"}
       /\ pc = "complete" => f < k
       /\ WholeAt(f, Files[f])
  /\ \A f \in File : since[f] = 1 /\ pc \in {"create", "rename"} /\ f >= k =>
       WholeAt(f, Files[f])

Inv == TypeOK /\ ProcessInv /\ DirInv /\ DataInv /\ FinalIsWhole /\ RestartInv

\* Before the first start there is no file.
LEMMA InvInit == Init => Inv
<1> SUFFICES ASSUME Init PROVE Inv
  OBVIOUS
<1>1. Files \in [File -> Names]
  BY FilesAssumption, NameFacts DEF File
<1>2. TypeOK
  BY <1>1, FilesAssumption DEF Init, TypeOK, File
<1>3. ProcessInv /\ DirInv /\ DataInv
  BY NameFacts DEF Init, ProcessInv, DirInv, DataInv
<1>4. FinalIsWhole /\ RestartInv
  BY NameFacts DEF Init, FinalIsWhole, RestartInv, OutlivesRestart
<1> QED
  BY <1>2, <1>3, <1>4 DEF Inv

\* What rename() does to the directory.
LEMMA RenamedFacts ==
  ASSUME NEW d, d \in [Names -> Inodes \cup {None}],
         NEW old \in Names, NEW new \in Names, old # new,
         \A p, q \in Names : d[p] # None /\ d[p] = d[q] => p = q
  PROVE  LET r == Renamed(d, old, new) IN
         /\ r \in [Names -> Inodes \cup {None}]
         /\ r[old] = None
         /\ r[new] = IF d[old] = None THEN d[new] ELSE d[old]
         /\ \A p \in Names \ {old, new} : r[p] = d[p]
         /\ \A p, q \in Names : r[p] # None /\ r[p] = r[q] => p = q
<1>1. CASE d[old] = None
  BY <1>1 DEF Renamed
<1>2. CASE d[old] # None
  <2> DEFINE r == [d EXCEPT ![new] = d[old], ![old] = None]
  <2>1. Renamed(d, old, new) = r
    BY <1>2 DEF Renamed
  <2>2. /\ r \in [Names -> Inodes \cup {None}]
        /\ r[old] = None
        /\ r[new] = d[old]
        /\ \A p \in Names \ {old, new} : r[p] = d[p]
    OBVIOUS
  <2> HIDE DEF r
  <2>3. \A p, q \in Names : r[p] # None /\ r[p] = r[q] => p = q
    BY <1>2, <2>2
  <2> QED
    BY <1>2, <2>1, <2>2, <2>3
<1> QED
  BY <1>1, <1>2

\* What open() does: file k has an inode under its final name, no mapped file
\* is that inode, and no data of another file are lost.
LEMMA OpenedFacts ==
  ASSUME Inv, NEW i \in Inodes, Opened(i)
  PROVE  /\ pc = "create" /\ k \in File
         /\ i # None
         /\ dir' \in [Names -> Inodes \cup {None}]
         /\ data' \in [Inodes -> File \cup {None}]
         /\ dir'[Files[k]] = i
         /\ \A p \in Names \ {Files[k]} : dir'[p] = dir[p]
         /\ \A p, q \in Names : dir'[p] # None /\ dir'[p] = dir'[q] => p = q
         /\ \A f \in File : mem[f] # i
         /\ \A p \in Names : dir[p] # None =>
              dir'[p] = dir[p] /\ data'[dir[p]] = data[dir[p]]
<1>1. pc = "create" /\ k \in File /\ Files[k] \in Names /\ i # None
  BY NameFacts, FilesAssumption DEF Opened
<1>2. dir' = [dir EXCEPT ![Files[k]] = i]
  BY DEF Opened
<1>3. CASE dir[Files[k]] = None
  <2>1. /\ \A q \in Names : dir[q] # i
        /\ \A f \in File : mem[f] # i
        /\ data' = [data EXCEPT ![i] = None]
    BY <1>3 DEF Opened
  <2> QED
    BY <1>1, <1>2, <1>3, <2>1 DEF Inv, TypeOK, DirInv
<1>4. CASE dir[Files[k]] # None
  <2>1. i = dir[Files[k]] /\ data' = data /\ dir' = dir
    BY <1>1, <1>2, <1>4 DEF Opened, Kept, Inv, TypeOK
  <2>2. ASSUME NEW f \in File PROVE mem[f] # i
    <3>1. CASE mem[f] = None
      BY <1>1, <3>1
    <3>2. CASE mem[f] # None
      <4>1. dir[Incomplete(Files[f])] = mem[f]
        BY <1>1, <3>2 DEF Inv, DirInv, NameOf, Back
      <4>2. Incomplete(Files[f]) # Files[k] /\ Incomplete(Files[f]) \in Names
        BY <1>1, NameFacts
      <4> QED
        BY <1>1, <2>1, <3>2, <4>1, <4>2 DEF Inv, DirInv
    <3> QED
      BY <3>1, <3>2
  <2> QED
    BY <1>1, <2>1, <2>2 DEF Inv, TypeOK, DirInv
<1> QED
  BY <1>3, <1>4

\* open() and what follows it, up to rename().
LEMMA OpenStep ==
  ASSUME Inv, Open
  PROVE  Inv'
<1>1. PICK i \in Inodes : Opened(i) /\ mem' = [mem EXCEPT ![k] = i]
  BY DEF Open
<1>2. /\ pc = "create" /\ k \in File /\ pc' = "rename"
      /\ path' = [path EXCEPT ![k] = Incomplete(Files[k])]
      /\ UNCHANGED <<k, verified, starts, since, cut>>
  BY <1>1, OpenedFacts DEF Open, ghosts
<1>3. verified = {}
  BY <1>2 DEF Inv, ProcessInv
<1>4. TypeOK'
  BY <1>1, <1>2, OpenedFacts, NameFacts DEF Inv, TypeOK
<1>5. ProcessInv'
  BY <1>1, <1>2, <1>3, OpenedFacts DEF Inv, ProcessInv, Back, TypeOK, File
<1>6. ASSUME NEW f \in File, mem'[f] # None PROVE dir'[NameOf(f)'] = mem'[f]
  <2>1. CASE f = k
    BY <1>1, <1>2, <2>1, OpenedFacts DEF NameOf, Inv, TypeOK
  <2>2. CASE f # k
    <3>1. mem'[f] = mem[f] /\ NameOf(f) = Incomplete(Files[f])
          /\ NameOf(f)' = Incomplete(Files[f])
      BY <1>1, <1>2, <2>2 DEF NameOf, Back, Inv, TypeOK
    <3>2. dir[Incomplete(Files[f])] = mem[f]
      BY <1>6, <3>1 DEF Inv, DirInv
    <3> QED
      BY <1>1, <1>2, <3>1, <3>2, OpenedFacts, NameFacts
  <2> QED
    BY <2>1, <2>2
<1>7. DirInv' /\ DataInv'
  BY <1>1, <1>2, <1>3, <1>6, OpenedFacts DEF DirInv, DataInv
<1>8. FinalIsWhole'
  <2> SUFFICES ASSUME NEW f \in File, dir'[Files[f]] # None, f # k
               PROVE  WholeAt(f, Files[f])' \/ f \in cut
    BY <1>2 DEF FinalIsWhole
  <2>1. dir[Files[f]] = dir'[Files[f]]
    BY <1>1, <1>2, OpenedFacts, NameFacts
  <2> QED
    BY <1>1, <1>2, <2>1, OpenedFacts, NameFacts DEF Inv, FinalIsWhole, WholeAt
<1>9. ASSUME NEW f \in File, NEW p \in Names, WholeAt(f, p) PROVE WholeAt(f, p)'
  BY <1>1, <1>9, OpenedFacts DEF WholeAt
<1>10. RestartInv'
  BY <1>2, <1>9, NameFacts DEF Inv, RestartInv, OutlivesRestart
<1> QED
  BY <1>4, <1>5, <1>7, <1>8, <1>10 DEF Inv

\* open() with what fails after it.
LEMMA CreateFailsStep ==
  ASSUME Inv, CreateFails
  PROVE  Inv'
<1>1. PICK i \in Inodes : Opened(i)
  BY DEF CreateFails
<1>2. /\ pc = "create" /\ k \in File /\ k' = k + 1 /\ cut' = cut \cup {k}
      /\ UNCHANGED <<pc, mem, path, verified, starts, since>>
  BY <1>1, OpenedFacts DEF CreateFails
<1>3. verified = {}
  BY <1>2 DEF Inv, ProcessInv
<1>4. TypeOK'
  BY <1>1, <1>2, OpenedFacts DEF Inv, TypeOK, File
<1>5. ProcessInv'
  BY <1>2, <1>3 DEF Inv, ProcessInv, Back, TypeOK, File
<1>6. ASSUME NEW f \in File, mem'[f] # None PROVE dir'[NameOf(f)'] = mem'[f]
  <2>1. NameOf(f) = Incomplete(Files[f]) /\ NameOf(f)' = Incomplete(Files[f])
    BY <1>2 DEF NameOf, Back
  <2>2. dir[Incomplete(Files[f])] = mem[f]
    BY <1>2, <1>6, <2>1 DEF Inv, DirInv
  <2> QED
    BY <1>1, <1>2, <2>1, <2>2, OpenedFacts, NameFacts
<1>7. DirInv' /\ DataInv'
  BY <1>1, <1>2, <1>3, <1>6, OpenedFacts DEF DirInv, DataInv
<1>8. FinalIsWhole'
  <2> SUFFICES ASSUME NEW f \in File, dir'[Files[f]] # None, f # k
               PROVE  WholeAt(f, Files[f])' \/ f \in cut
    BY <1>2 DEF FinalIsWhole
  <2>1. dir[Files[f]] = dir'[Files[f]]
    BY <1>1, <1>2, OpenedFacts, NameFacts
  <2> QED
    BY <1>1, <1>2, <2>1, OpenedFacts, NameFacts DEF Inv, FinalIsWhole, WholeAt
<1>9. ASSUME NEW f \in File, NEW p \in Names, WholeAt(f, p) PROVE WholeAt(f, p)'
  BY <1>1, <1>9, OpenedFacts DEF WholeAt
<1>10. RestartInv'
  BY <1>2, <1>9, NameFacts DEF Inv, RestartInv, OutlivesRestart, TypeOK, File
<1> QED
  BY <1>4, <1>5, <1>7, <1>8, <1>10 DEF Inv

\* rename() to X.incomplete: the data of file k move with the name.
LEMMA RenameStep ==
  ASSUME Inv, Rename
  PROVE  Inv'
<1> DEFINE old == Files[k]
           new == Incomplete(Files[k])
<1>1. /\ pc = "rename" /\ k \in File /\ k' = k + 1 /\ pc' = "create"
      /\ cut' = cut \ {k} /\ dir' = Renamed(dir, old, new)
      /\ UNCHANGED <<mem, path, verified, data, starts, since>>
  BY DEF Rename, Inv, ProcessInv
<1>2. old \in Names /\ new \in Names /\ old # new
  BY <1>1, NameFacts
<1>3. /\ dir' \in [Names -> Inodes \cup {None}]
      /\ dir'[old] = None
      /\ dir'[new] = IF dir[old] = None THEN dir[new] ELSE dir[old]
      /\ \A p \in Names \ {old, new} : dir'[p] = dir[p]
      /\ \A p, q \in Names : dir'[p] # None /\ dir'[p] = dir'[q] => p = q
  BY <1>1, <1>2, RenamedFacts DEF Inv, TypeOK, DirInv
<1>4. ASSUME NEW f \in File, f # k
      PROVE  /\ dir'[Files[f]] = dir[Files[f]]
             /\ dir'[Incomplete(Files[f])] = dir[Incomplete(Files[f])]
  BY <1>1, <1>3, <1>4, NameFacts
<1> HIDE DEF old, new
<1>5. verified = {}
  BY <1>1 DEF Inv, ProcessInv
<1>6. TypeOK'
  BY <1>1, <1>3 DEF Inv, TypeOK, File
<1>7. ProcessInv'
  BY <1>1, <1>5 DEF Inv, ProcessInv, Back, TypeOK, File
<1>8. ASSUME NEW f \in File, mem'[f] # None PROVE dir'[NameOf(f)'] = mem'[f]
  <2>1. NameOf(f)' = Incomplete(Files[f])
    BY <1>1 DEF NameOf, Back
  <2>2. dir[NameOf(f)] = mem[f]
    BY <1>1, <1>8 DEF Inv, DirInv
  <2>3. CASE f = k
    BY <1>1, <1>3, <1>8, <2>1, <2>2, <2>3 DEF NameOf, old, new
  <2>4. CASE f # k
    BY <1>1, <1>4, <2>1, <2>2, <2>4 DEF NameOf, Back
  <2> QED
    BY <2>3, <2>4
<1>9. DirInv' /\ DataInv'
  BY <1>1, <1>3, <1>5, <1>8 DEF DirInv, DataInv
<1>10. FinalIsWhole'
  <2> SUFFICES ASSUME NEW f \in File, dir'[Files[f]] # None
               PROVE  WholeAt(f, Files[f])' \/ f \in cut'
    BY DEF FinalIsWhole
  <2>1. f # k
    BY <1>3 DEF old
  <2> QED
    BY <1>1, <1>4, <2>1 DEF Inv, FinalIsWhole, WholeAt
<1>11. ASSUME NEW f \in File, f # k
       PROVE  /\ WholeAt(f, Files[f]) => WholeAt(f, Files[f])'
              /\ WholeAt(f, Incomplete(Files[f])) => WholeAt(f, Incomplete(Files[f]))'
  BY <1>1, <1>4, <1>11 DEF WholeAt
<1>12. ASSUME NEW f \in File, f = k, WholeAt(f, Files[f])
       PROVE  WholeAt(f, Incomplete(Files[f]))'
  BY <1>1, <1>3, <1>12 DEF WholeAt, old, new
<1>13. RestartInv'
  <2>1. ASSUME NEW f \in File PROVE since[f] # 0
    BY <1>1 DEF Inv, RestartInv
  <2>2. ASSUME NEW f \in File, since[f] = 1
        PROVE  WholeAt(f, Files[f])' \/ WholeAt(f, Incomplete(Files[f]))'
    <3>1. CASE f = k
      <4>1. WholeAt(f, Files[f])
        BY <1>1, <2>2, <3>1 DEF Inv, RestartInv, TypeOK
      <4> QED
        BY <1>12, <3>1, <4>1
    <3>2. CASE f # k
      BY <1>11, <2>2, <3>2 DEF Inv, RestartInv, OutlivesRestart
    <3> QED
      BY <3>1, <3>2
  <2>3. ASSUME NEW f \in File, since[f] = 1, f >= k + 1
        PROVE  WholeAt(f, Files[f])'
    BY <1>1, <1>11, <2>3 DEF Inv, RestartInv, TypeOK, File
  <2>4. OutlivesRestart'
    BY <1>1, <2>1, <2>2 DEF OutlivesRestart
  <2> QED
    BY <1>1, <2>1, <2>3, <2>4 DEF RestartInv
<1> QED
  BY <1>6, <1>7, <1>9, <1>10, <1>13 DEF Inv

\* rename() back to X: the file is whole, because all were verified.
LEMMA RenameBackStep ==
  ASSUME Inv, RenameBack
  PROVE  Inv'
<1> DEFINE old == Incomplete(Files[k])
           new == Files[k]
<1>1. /\ pc = "complete" /\ k \in File /\ k' = k + 1
      /\ path' = [path EXCEPT ![k] = Trim(path[k])]
      /\ dir' = Renamed(dir, path[k], Trim(path[k]))
      /\ since' = [since EXCEPT ![k] = 0]
      /\ UNCHANGED <<pc, mem, verified, data, starts, cut>>
  BY DEF RenameBack
<1>2. k \in verified /\ mem[k] # None /\ data[mem[k]] = k
  BY <1>1 DEF Inv, ProcessInv, DataInv
<1>3. path[k] = old /\ Trim(path[k]) = new
  BY <1>1, <1>2, NameFacts DEF Inv, ProcessInv, Back, TypeOK
<1>4. old \in Names /\ new \in Names /\ old # new
  BY <1>1, NameFacts
<1>5. dir[old] = mem[k]
  BY <1>1, <1>2 DEF Inv, DirInv, NameOf, Back, TypeOK
<1>6. /\ dir' \in [Names -> Inodes \cup {None}]
      /\ dir'[old] = None
      /\ dir'[new] = mem[k]
      /\ \A p \in Names \ {old, new} : dir'[p] = dir[p]
      /\ \A p, q \in Names : dir'[p] # None /\ dir'[p] = dir'[q] => p = q
  BY <1>1, <1>2, <1>3, <1>4, <1>5, RenamedFacts DEF Inv, TypeOK, DirInv
<1>7. ASSUME NEW f \in File, f # k
      PROVE  /\ dir'[Files[f]] = dir[Files[f]]
             /\ dir'[Incomplete(Files[f])] = dir[Incomplete(Files[f])]
  BY <1>1, <1>6, <1>7, NameFacts
<1>8. TypeOK'
  <2>1. since' \in [File -> -1 .. MaxStarts]
    BY <1>1, FilesAssumption DEF Inv, TypeOK
  <2> QED
    BY <1>1, <1>3, <1>4, <1>6, <2>1 DEF Inv, TypeOK, File
<1>9. ProcessInv'
  <2>1. ASSUME NEW f \in File, mem[f] # None
        PROVE  path'[f] = IF Back(f)' THEN Files[f] ELSE Incomplete(Files[f])
    <3>1. CASE f = k
      BY <1>1, <1>3, <3>1 DEF Back, Inv, TypeOK
    <3>2. CASE f # k
      <4>1. path'[f] = path[f] /\ (Back(f)' <=> Back(f))
        BY <1>1, <3>2 DEF Back, Inv, TypeOK, File
      <4> QED
        BY <2>1, <4>1 DEF Inv, ProcessInv
    <3> QED
      BY <3>1, <3>2
  <2>2. ASSUME NEW f \in File PROVE since'[f] =< starts'
    BY <1>1 DEF Inv, ProcessInv, TypeOK
  <2> QED
    BY <1>1, <2>1, <2>2 DEF Inv, ProcessInv
<1>10. ASSUME NEW f \in File, mem'[f] # None PROVE dir'[NameOf(f)'] = mem'[f]
  <2>1. CASE f = k
    BY <1>1, <1>6, <2>1 DEF NameOf, Back, Inv, TypeOK
  <2>2. CASE f # k
    <3>1. NameOf(f)' = NameOf(f) /\ NameOf(f) \in {Files[f], Incomplete(Files[f])}
      BY <1>1, <2>2 DEF NameOf, Back, Inv, TypeOK, File
    <3>2. dir[NameOf(f)] = mem[f]
      BY <1>1, <1>10 DEF Inv, DirInv
    <3> QED
      BY <1>1, <1>7, <2>2, <3>1, <3>2
  <2> QED
    BY <2>1, <2>2
<1>11. DirInv' /\ DataInv'
  <2>1. DirInv'
    BY <1>6, <1>10 DEF DirInv
  <2>2. DataInv'
    BY <1>1 DEF DataInv, Inv
  <2> QED
    BY <2>1, <2>2
<1>12. ASSUME NEW f \in File, f = k PROVE WholeAt(f, Files[f])'
  BY <1>1, <1>2, <1>6, <1>12 DEF WholeAt
<1>13. FinalIsWhole'
  <2> SUFFICES ASSUME NEW f \in File, dir'[Files[f]] # None, f # k
               PROVE  WholeAt(f, Files[f])' \/ f \in cut
    BY <1>1, <1>12 DEF FinalIsWhole
  <2> QED
    BY <1>1, <1>7 DEF Inv, FinalIsWhole, WholeAt
<1>14. RestartInv'
  <2>1. ASSUME NEW f \in File, f # k
        PROVE  /\ WholeAt(f, Files[f]) => WholeAt(f, Files[f])'
               /\ WholeAt(f, Incomplete(Files[f])) => WholeAt(f, Incomplete(Files[f]))'
    BY <1>1, <1>7, <2>1 DEF WholeAt
  <2>2. since'[k] = 0 /\ \A f \in File \ {k} : since'[f] = since[f]
    BY <1>1 DEF Inv, TypeOK
  <2>3. OutlivesRestart'
    BY <1>12, <2>1, <2>2 DEF Inv, RestartInv, OutlivesRestart
  <2>4. ASSUME NEW f \in File, since'[f] = 0
        PROVE  f < k' /\ WholeAt(f, Files[f])'
    BY <1>1, <1>12, <2>1, <2>2, <2>4 DEF Inv, RestartInv, TypeOK, File
  <2> QED
    BY <1>1, <2>3, <2>4 DEF RestartInv
<1> QED
  BY <1>8, <1>9, <1>11, <1>13, <1>14 DEF Inv

\* Data are written to a mapped file under its own names only: an inode that is
\* mapped is no other file's, so what other names stand for stays as it is.
LEMMA WriteStep ==
  ASSUME Inv, NEW f \in File, Write(f)
  PROVE  Inv'
<1>1. /\ pc = "run" /\ Reached(f)
      /\ data' = [data EXCEPT ![mem[f]] = f]
      /\ UNCHANGED <<pc, k, mem, path, verified, dir, starts, since, cut>>
  BY DEF Write, process, ghosts
<1>2. mem[f] # None
  BY <1>1 DEF Reached, File
<1>3. mem[f] \in Inodes
  BY <1>2 DEF Inv, TypeOK
<1>4. dir[Incomplete(Files[f])] = mem[f]
  BY <1>1, <1>2 DEF Inv, DirInv, NameOf, Back
<1>5. ASSUME NEW p \in Names, dir[p] # None, p # Incomplete(Files[f])
      PROVE  data'[dir[p]] = data[dir[p]]
  <2>1. dir[p] # mem[f]
    BY <1>2, <1>4, <1>5, NameFacts DEF Inv, DirInv
  <2> QED
    BY <1>1, <1>3, <1>5, <2>1 DEF Inv, TypeOK
<1>6. ASSUME NEW g \in File
      PROVE  /\ WholeAt(g, Files[g]) => WholeAt(g, Files[g])'
             /\ WholeAt(g, Incomplete(Files[g])) => WholeAt(g, Incomplete(Files[g]))'
  <2>1. WholeAt(g, Files[g]) => WholeAt(g, Files[g])'
    BY <1>1, <1>5, NameFacts DEF WholeAt
  <2>2. CASE g = f
    BY <1>1, <1>2, <1>3, <1>4, <2>1, <2>2 DEF WholeAt, Inv, TypeOK
  <2>3. CASE g # f
    BY <1>1, <1>5, <2>1, <2>3, NameFacts DEF WholeAt
  <2> QED
    BY <2>2, <2>3
<1>7. TypeOK'
  BY <1>1, <1>3 DEF Inv, TypeOK
<1>8. ProcessInv'
  BY <1>1 DEF Inv, ProcessInv, Back
<1>9. DirInv'
  BY <1>1 DEF Inv, DirInv, NameOf, Back
<1>10. DataInv'
  <2> SUFFICES ASSUME NEW g \in verified PROVE mem[g] # None /\ data'[mem[g]] = g
    BY <1>1 DEF DataInv
  <2>1. g \in File /\ mem[g] # None /\ data[mem[g]] = g
    BY DEF Inv, TypeOK, DataInv
  <2>2. dir[Incomplete(Files[g])] = mem[g]
    BY <1>1, <2>1 DEF Inv, DirInv, NameOf, Back
  <2>3. CASE g = f
    BY <1>1, <1>2, <1>3, <2>3 DEF Inv, TypeOK
  <2>4. CASE g # f
    <3>1. Incomplete(Files[g]) # Incomplete(Files[f]) /\ Incomplete(Files[g]) \in Names
      BY <2>1, <2>4, NameFacts
    <3> QED
      BY <1>5, <2>1, <2>2, <3>1
  <2> QED
    BY <2>3, <2>4
<1>11. FinalIsWhole'
  BY <1>1, <1>6 DEF Inv, FinalIsWhole, WholeAt
<1>12. RestartInv'
  BY <1>1, <1>6 DEF Inv, RestartInv, OutlivesRestart
<1> QED
  BY <1>7, <1>8, <1>9, <1>10, <1>11, <1>12 DEF Inv

\* The steps that touch neither the directory nor the data, the process being
\* where it was.
LEMMA VerifyStep ==
  ASSUME Inv, NEW f \in File, Verify(f)
  PROVE  Inv'
<1>1. /\ pc = "run" /\ Reached(f) /\ data[mem[f]] = f
      /\ verified' = verified \cup {f}
      /\ UNCHANGED <<pc, k, mem, path, dir, data, starts, since, cut>>
  BY DEF Verify, ghosts
<1>2. mem[f] # None
  BY <1>1 DEF Reached, File
<1>3. TypeOK' /\ ProcessInv'
  BY <1>1 DEF Inv, TypeOK, ProcessInv, Back
<1>4. DirInv' /\ DataInv'
  BY <1>1, <1>2 DEF Inv, DirInv, NameOf, Back, DataInv
<1>5. FinalIsWhole' /\ RestartInv'
  BY <1>1 DEF Inv, FinalIsWhole, RestartInv, OutlivesRestart, WholeAt
<1> QED
  BY <1>3, <1>4, <1>5 DEF Inv

\* Before the first file is opened, all files that were renamed back are there.
LEMMA StartStep ==
  ASSUME Inv, Start
  PROVE  Inv'
<1>1. /\ pc = "down" /\ starts < MaxStarts /\ pc' = "create"
      /\ starts' = starts + 1
      /\ since' = [f \in File |-> IF since[f] < 0 THEN -1 ELSE since[f] + 1]
      /\ UNCHANGED <<k, mem, path, verified, dir, data, cut>>
  BY DEF Start
<1>2. starts \in 0 .. MaxStarts /\ starts' \in 0 .. MaxStarts /\ MaxStarts \in Nat
  BY <1>1, FilesAssumption DEF Inv, TypeOK
<1>3. ASSUME NEW f \in File
      PROVE  /\ since'[f] \in -1 .. MaxStarts /\ since'[f] =< starts'
             /\ since'[f] # 0
             /\ since'[f] = 1 => since[f] = 0
  <2>1. since[f] \in -1 .. MaxStarts /\ since[f] =< starts
    BY DEF Inv, TypeOK, ProcessInv
  <2>2. since'[f] = IF since[f] < 0 THEN -1 ELSE since[f] + 1
    BY <1>1
  <2> QED
    BY <1>1, <1>2, <2>1, <2>2
<1>4. since' \in [File -> -1 .. MaxStarts]
  BY <1>1, <1>3
<1>5. TypeOK' /\ ProcessInv'
  BY <1>1, <1>2, <1>3, <1>4 DEF Inv, TypeOK, ProcessInv, Back
<1>6. DirInv' /\ DataInv'
  BY <1>1 DEF Inv, DirInv, NameOf, Back, DataInv
<1>7. FinalIsWhole' /\ RestartInv'
  BY <1>1, <1>3 DEF Inv, FinalIsWhole, RestartInv, OutlivesRestart, WholeAt
<1> QED
  BY <1>5, <1>6, <1>7 DEF Inv

LEMMA OpenFailsStep ==
  ASSUME Inv, OpenFails
  PROVE  Inv'
<1>1. /\ pc = "create" /\ k \in File /\ k' = k + 1
      /\ UNCHANGED <<pc, mem, path, verified, dir, data, starts, since, cut>>
  BY DEF OpenFails, ghosts
<1>2. TypeOK'
  BY <1>1 DEF Inv, TypeOK, File
<1>3. ProcessInv'
  BY <1>1 DEF Inv, ProcessInv, Back, TypeOK, File
<1>4. DirInv' /\ DataInv'
  BY <1>1 DEF Inv, DirInv, NameOf, Back, DataInv
<1>5. FinalIsWhole' /\ RestartInv'
  BY <1>1 DEF Inv, FinalIsWhole, RestartInv, OutlivesRestart, WholeAt, TypeOK, File
<1> QED
  BY <1>2, <1>3, <1>4, <1>5 DEF Inv

LEMMA RunStep ==
  ASSUME Inv, Run
  PROVE  Inv'
<1>1. /\ pc = "create" /\ k = Len(Files) + 1 /\ pc' = "run"
      /\ UNCHANGED <<k, mem, path, verified, dir, data, starts, since, cut>>
  BY DEF Run, ghosts
<1>2. TypeOK' /\ ProcessInv'
  BY <1>1 DEF Inv, TypeOK, ProcessInv, Back
<1>3. DirInv' /\ DataInv'
  BY <1>1 DEF Inv, DirInv, NameOf, Back, DataInv
<1>4. FinalIsWhole' /\ RestartInv'
  BY <1>1 DEF Inv, FinalIsWhole, RestartInv, OutlivesRestart, WholeAt
<1> QED
  BY <1>2, <1>3, <1>4 DEF Inv

LEMMA CompleteStep ==
  ASSUME Inv, Complete
  PROVE  Inv'
<1>1. /\ pc = "run" /\ verified = File /\ pc' = "complete" /\ k' = 1
      /\ UNCHANGED <<mem, path, verified, dir, data, starts, since, cut>>
  BY DEF Complete, AllVerified, ghosts
<1>2. Len(Files) \in Nat /\ \A f \in File : ~(f < 1)
  BY FilesAssumption DEF File
<1>3. TypeOK' /\ ProcessInv'
  BY <1>1, <1>2 DEF Inv, TypeOK, ProcessInv, Back
<1>4. DirInv' /\ DataInv'
  BY <1>1, <1>2 DEF Inv, DirInv, NameOf, Back, DataInv
<1>5. FinalIsWhole' /\ RestartInv'
  BY <1>1 DEF Inv, FinalIsWhole, RestartInv, OutlivesRestart, WholeAt
<1> QED
  BY <1>3, <1>4, <1>5 DEF Inv

LEMMA CompletedStep ==
  ASSUME Inv, Completed
  PROVE  Inv'
<1>1. /\ pc = "complete" /\ k = Len(Files) + 1 /\ pc' = "shared"
      /\ UNCHANGED <<k, mem, path, verified, dir, data, starts, since, cut>>
  BY DEF Completed, AllDone, ghosts
<1>2. TypeOK' /\ ProcessInv'
  BY <1>1 DEF Inv, TypeOK, ProcessInv, Back
<1>3. DirInv' /\ DataInv'
  BY <1>1 DEF Inv, DirInv, NameOf, Back, DataInv
<1>4. FinalIsWhole' /\ RestartInv'
  BY <1>1 DEF Inv, FinalIsWhole, RestartInv, OutlivesRestart, WholeAt
<1> QED
  BY <1>2, <1>3, <1>4 DEF Inv

\* A crash takes the mappings with it, and leaves the directory and the data.
LEMMA CrashStep ==
  ASSUME Inv, Crash
  PROVE  Inv'
<1>1. /\ pc' = "down" /\ k' = 1 /\ mem' = [f \in File |-> None]
      /\ path' = Files /\ verified' = {}
      /\ cut' = IF pc = "rename" THEN cut \cup {k} ELSE cut
      /\ UNCHANGED <<dir, data, starts, since>>
  BY DEF Crash
<1>2. Files \in [File -> Names] /\ Len(Files) \in Nat
  BY FilesAssumption, NameFacts DEF File
<1>3. TypeOK'
  BY <1>1, <1>2 DEF Inv, TypeOK, ProcessInv
<1>4. ProcessInv' /\ DirInv' /\ DataInv'
  BY <1>1 DEF Inv, ProcessInv, DirInv, DataInv
<1>5. FinalIsWhole' /\ RestartInv'
  BY <1>1 DEF Inv, FinalIsWhole, RestartInv, OutlivesRestart, WholeAt
<1> QED
  BY <1>3, <1>4, <1>5 DEF Inv

LEMMA InvStep == Inv /\ [Next]_vars => Inv'
<1> SUFFICES ASSUME Inv, [Next]_vars PROVE Inv'
  OBVIOUS
<1>1. CASE Start \/ Open \/ OpenFails \/ CreateFails \/ Rename \/ Run
  BY <1>1, StartStep, OpenStep, OpenFailsStep, CreateFailsStep, RenameStep, RunStep
<1>2. ASSUME NEW f \in File, Write(f) \/ Verify(f) PROVE Inv'
  BY <1>2, WriteStep, VerifyStep
<1>3. CASE Complete \/ RenameBack \/ Completed \/ Crash
  BY <1>3, CompleteStep, RenameBackStep, CompletedStep, CrashStep
<1>4. CASE StaysDown \/ UNCHANGED vars
  <2>1. UNCHANGED <<pc, k, mem, path, verified, dir, data, starts, since, cut>>
    BY <1>4 DEF StaysDown, vars, process, ghosts
  <2>2. TypeOK' /\ ProcessInv'
    BY <2>1 DEF Inv, TypeOK, ProcessInv, Back
  <2>3. DirInv' /\ DataInv'
    BY <2>1 DEF Inv, DirInv, NameOf, Back, DataInv
  <2>4. FinalIsWhole' /\ RestartInv'
    BY <2>1 DEF Inv, FinalIsWhole, RestartInv, OutlivesRestart, WholeAt
  <2> QED
    BY <2>2, <2>3, <2>4 DEF Inv
<1> QED
  BY <1>1, <1>2, <1>3, <1>4 DEF Next

\* The files do not depend on what the parser does.
LEMMA FilesPart == ParseSpec => Spec
<1>1. ParseInit => Init
  BY DEF ParseInit
<1>2. [ParseNext]_<<vars, bencode>> => [Next]_vars
  BY DEF ParseNext, ReadFields
<1> QED
  BY <1>1, <1>2, PTL DEF ParseSpec, Spec

LEMMA InvHolds == Spec => []Inv
  BY InvInit, InvStep, PTL DEF Spec

-----------------------------------------------------------------------------

\* The process, the directory and the ghosts are always well formed: RenameBack
\* only ever names files by paths of the torrent (dl_file_complete(), what it
\* cuts off X.incomplete is the suffix and nothing of X).
THEOREM TypeCorrect == ParseSpec => []TypeOK
<1>1. Inv => TypeOK
  BY DEF Inv
<1> QED
  BY InvHolds, FilesPart, <1>1, PTL

\* A file with its final name holds all of its data, however many files there
\* are and however often the process is killed and started: dl_file.c.
THEOREM FinalNamesWhole == ParseSpec => []FinalIsWhole
<1>1. Inv => FinalIsWhole
  BY DEF Inv
<1> QED
  BY InvHolds, FilesPart, <1>1, PTL

\* The data of a complete torrent outlive one restart: dl_file_create_and_open().
THEOREM DataOutliveRestart == ParseSpec => []OutlivesRestart
<1>1. Inv => OutlivesRestart
  BY DEF Inv, RestartInv
<1> QED
  BY InvHolds, FilesPart, <1>1, PTL

-----------------------------------------------------------------------------
(* Bencode: the lexer.  Its tokens and its state are well formed, it always *)
(* goes on in the text, and a token that starts or ends something says     *)
(* where it was read.                                                      *)

Tokens == B!Tokens

Lexers == [read_pos : Nat, prev : Tokens, prevprev : Tokens]

Parsers == [lexer : Lexers, cur : Tokens, peek : Tokens, errors : Nat]

TextInv == text \in Seq(Char) /\ behind \in Seq(Char)

\* What can be read: the text, what is behind it, and nothing more.
LEMMA AtType ==
  ASSUME TextInv, NEW i \in Nat
  PROVE  /\ B!Memory \in Nat
         /\ i < B!Memory => B!At(i) \in Char
         /\ i >= B!Memory => B!At(i) = "FAULT"
         /\ i < Len(text) => B!At(i) = text[i + 1]
<1>1. /\ Len(text) \in Nat /\ Len(behind) \in Nat
      /\ \A j \in 1 .. Len(text) : text[j] \in Char
      /\ \A j \in 1 .. Len(behind) : behind[j] \in Char
  BY DEF TextInv
<1> QED
  BY <1>1 DEF B!At, B!Memory

\* A set of numbers has a least one.
LEMMA LeastOf ==
  ASSUME NEW T \in SUBSET Nat, T # {}
  PROVE  \E j \in T : \A h \in T : j =< h
<1> DEFINE R == OpToRel(<, Nat)
<1>1. IsWellFoundedOn(R, Nat)
  BY NatLessThanWellFounded
<1>2. \A h, j \in Nat : h < j => <<h, j>> \in R
  BY SMT DEF OpToRel
<1> HIDE DEF R
<1>3. PICK j \in T : \A h \in T : ~(<<h, j>> \in R)
  BY <1>1, WFMin, Zenon
<1>4. ASSUME NEW h \in T PROVE j =< h
  <2>1. h \in Nat /\ j \in Nat
    OBVIOUS
  <2>2. ~(<<h, j>> \in R)
    BY <1>3
  <2>3. ~(h < j)
    BY <2>1, <2>2, <1>2, Zenon
  <2> QED BY <2>1, <2>3
<1> QED
  BY <1>4

\* strtol() returns a number, whatever was read.
LEMMA NumberType == ASSUME NEW s PROVE B!Number(s) \in Int
<1> SUFFICES ASSUME NEW n, NEW v, v = IF n \in 0 .. LONG_MAX THEN n ELSE LONG_MAX
             PROVE  v \in Int /\ -v \in Int /\ -v - 1 \in Int
  BY DEF B!Number
<1> QED
  BY TextsAssumption DEF B!BencodeAssumption

\* So a number does not go on where memory ends.
LEMMA NotNumeral == ~B!Numeral("FAULT")
<1>1. ASSUME NEW i \in 1 .. 10
      PROVE  B!Digits[i] # "FAULT"
  BY DEF B!Digits
<1>2. DOMAIN B!Digits = 1 .. 10
  BY DEF B!Digits
<1>3. "FAULT" \notin B!ToSet(B!Digits)
  BY <1>1, <1>2 DEF B!ToSet
<1>4. "FAULT" # "-"
  OBVIOUS
<1> QED
  BY <1>3, <1>4 DEF B!Numeral

\* If a token has a position in the text, its character is there and stays there.
Mark(t) ==
  t.pos < Len(text) =>
    /\ t.type = "DICT_START" => text[t.pos + 1] = "d"
    /\ t.type = "END" => text[t.pos + 1] = "e"

IsMark(t) == t.type \in {"DICT_START", "END"}

\* A number ends, where memory ends at the latest.
LEMMA NumberEnds ==
  ASSUME TextInv, NEW i \in Nat, B!Numeral(B!At(i)),
         NEW last, last = CHOOSE j \in i .. B!Memory :
                     B!Stops(j) /\ \A h \in i .. j - 1 : ~B!Stops(h)
  PROVE  last \in Nat /\ last >= i
<1> DEFINE T == {j \in i .. B!Memory : B!Stops(j)}
<1>1. B!Memory \in Nat
  BY AtType
<1>2. i =< B!Memory
  BY <1>1, AtType, NotNumeral
<1>3. B!Stops(B!Memory)
  BY <1>1, AtType, NotNumeral DEF B!Stops
<1>4. T \in SUBSET Nat /\ T # {}
  BY <1>1, <1>2, <1>3
<1>5. PICK j \in T : \A h \in T : j =< h
  BY <1>4, LeastOf
<1>6. j \in i .. B!Memory /\ B!Stops(j)
  BY <1>5
<1>7. \A h \in i .. j - 1 : ~B!Stops(h)
  <2> SUFFICES ASSUME NEW h \in i .. j - 1, B!Stops(h)
               PROVE  FALSE
    OBVIOUS
  <2>1. h \in T
    BY <1>1, <1>6
  <2> QED
    BY <1>1, <1>5, <1>6, <2>1
<1>8. last \in i .. B!Memory
  BY <1>6, <1>7
<1> QED
  BY <1>1, <1>8

\* What next_token() does: it goes on in the text, and a token that marks a
\* dictionary's start or end has the position where it was read.
Lexes(l, x) ==
  /\ x.token \in Tokens
  /\ x.lexer \in Lexers
  /\ x.lexer.read_pos > l.read_pos
  /\ Mark(x.token)
  /\ IsMark(x.token) => x.token.pos = l.read_pos

LEMMA TokenFacts ==
  ASSUME NEW type \in B!TokenType, NEW pos \in Nat, NEW int \in Int,
         NEW str \in Seq(Char)
  PROVE  /\ B!Token(type, pos, int, str) \in Tokens
         /\ B!Token(type, pos, int, str).type = type
         /\ B!Token(type, pos, int, str).pos = pos
BY DEF B!Token, Tokens, B!Tokens

LEMMA LexedFacts ==
  ASSUME NEW l \in Lexers, NEW t \in Tokens, NEW r \in Nat, r > l.read_pos,
         Mark(t), IsMark(t) => t.pos = l.read_pos
  PROVE  Lexes(l, B!Lexed(l, t, r))
BY DEF B!Lexed, Lexes, Lexers

LEMMA PlainToken ==
  ASSUME NEW type \in B!TokenType \ {"DICT_START", "END"}, NEW int \in Int,
         NEW str \in Seq(Char)
  PROVE  LET t == B!Token(type, 0, int, str)
         IN  t \in Tokens /\ Mark(t) /\ ~IsMark(t)
BY DEF B!Token, Tokens, B!Tokens, Mark, IsMark

LEMMA NoTokenFacts == B!NoToken \in Tokens /\ Mark(B!NoToken) /\ ~IsMark(B!NoToken)
<1>1. "ILLEGAL" \in B!TokenType \ {"DICT_START", "END"} /\ 0 \in Int /\ <<>> \in Seq(Char)
  BY DEF B!TokenType
<1> QED
  BY <1>1, PlainToken DEF B!NoToken

LEMMA CrashFacts ==
  ASSUME NEW l \in Lexers, NEW r \in Nat, r > l.read_pos
  PROVE  Lexes(l, B!Crashes(l, r))
<1>1. "OVERRUN" \in B!TokenType \ {"DICT_START", "END"} /\ 0 \in Int /\ <<>> \in Seq(Char)
  BY DEF B!TokenType
<1> QED
  BY <1>1, PlainToken, LexedFacts DEF B!Crashes

LEMMA LexNumberFacts ==
  ASSUME TextInv, NEW l \in Lexers, B!Numeral(B!At(l.read_pos))
  PROVE  Lexes(l, B!LexNumber(l))
<1> DEFINE i    == l.read_pos
           last == CHOOSE j \in i .. B!Memory :
                     B!Stops(j) /\ \A h \in i .. j - 1 : ~B!Stops(h)
           type == IF l.prev.type = "INT_START" THEN "INT"
                   ELSE IF B!At(last + 1) = ":" THEN "STRING_SIZE" ELSE "ILLEGAL"
           n    == B!Number([j \in 1 .. last - i + 1 |-> B!At(i + j - 1)])
<1>1. i \in Nat
  BY DEF Lexers
<1>2. last \in Nat /\ last >= i
  BY <1>1, NumberEnds
<1>3. type \in B!TokenType \ {"DICT_START", "END"}
  BY DEF B!TokenType
<1>4. n \in Int
  BY NumberType
<1>5. B!LexNumber(l) =
        IF B!At(last) = "FAULT" \/ last - i >= NUM_BUF THEN B!Crashes(l, last + 1)
        ELSE IF ~B!Numeral(B!At(last))
        THEN [token |-> B!NoToken, lexer |-> [l EXCEPT !.read_pos = last + 1]]
        ELSE B!Lexed(l, B!Token(type, 0, n, <<>>), last + 1)
  BY DEF B!LexNumber
<1> DEFINE crash == B!At(last) = "FAULT" \/ last - i >= NUM_BUF
<1> HIDE DEF i, last, type, n, crash
<1>6. last + 1 \in Nat /\ last + 1 > l.read_pos
  BY <1>1, <1>2 DEF i
<1>7. CASE ~crash /\ ~B!Numeral(B!At(last))
  BY <1>5, <1>6, <1>7, NoTokenFacts DEF Lexes, Lexers, crash
<1>8. CASE ~crash /\ B!Numeral(B!At(last))
  <2>1. <<>> \in Seq(Char)
    OBVIOUS
  <2>2. B!Token(type, 0, n, <<>>) \in Tokens /\ Mark(B!Token(type, 0, n, <<>>))
        /\ ~IsMark(B!Token(type, 0, n, <<>>))
    BY <1>3, <1>4, <2>1, PlainToken
  <2> QED
    BY <1>5, <1>6, <1>8, <2>2, LexedFacts DEF crash
<1>9. CASE crash
  BY <1>5, <1>6, <1>9, CrashFacts DEF crash
<1> QED
  BY <1>7, <1>8, <1>9

LEMMA NextToken ==
  ASSUME TextInv, NEW l \in Lexers
  PROVE  Lexes(l, B!next_token(l))
<1> DEFINE c == B!At(l.read_pos)
           n == B!StringLen(l)
           s == [j \in 1 .. n |-> B!At(l.read_pos + j - 1)]
<1>1. l.read_pos \in Nat /\ l.read_pos + 1 \in Nat /\ l.read_pos + 1 > l.read_pos
      /\ <<>> \in Seq(Char) /\ 0 \in Int /\ 0 \in Nat
  BY DEF Lexers
<1>2. n \in Int
  BY DEF Lexers, Tokens, B!Tokens, B!StringLen
<1> USE DEF B!TokenPos
<1>3. CASE c = ":"
  <2>1. B!next_token(l) = B!Lexed(l, B!Token("COLON", 0, 0, <<>>), l.read_pos + 1)
    BY <1>3 DEF B!next_token
  <2> QED
    BY <1>1, <2>1, PlainToken, LexedFacts DEF B!TokenType
<1>4. CASE c = "d" /\ B!Structural(l)
  <2> DEFINE t == B!Token("DICT_START", l.read_pos, 0, <<>>)
  <2>1. B!next_token(l) = B!Lexed(l, t, l.read_pos + 1)
    BY <1>4 DEF B!next_token
  <2>2. t \in Tokens /\ Mark(t) /\ t.pos = l.read_pos
    BY <1>1, <1>4, AtType DEF B!TokenType, B!Token, Tokens, B!Tokens, Mark
  <2> QED
    BY <1>1, <2>1, <2>2, LexedFacts
<1>5. CASE c = "l" /\ B!Structural(l)
  <2>1. B!next_token(l) = B!Lexed(l, B!Token("LIST_START", 0, 0, <<>>), l.read_pos + 1)
    BY <1>5 DEF B!next_token
  <2> QED
    BY <1>1, <2>1, PlainToken, LexedFacts DEF B!TokenType
<1>6. CASE c = "i" /\ B!Structural(l)
  <2>1. B!next_token(l) = B!Lexed(l, B!Token("INT_START", 0, 0, <<>>), l.read_pos + 1)
    BY <1>6 DEF B!next_token
  <2> QED
    BY <1>1, <2>1, PlainToken, LexedFacts DEF B!TokenType
<1>7. CASE c = "e" /\ B!Structural(l)
  <2> DEFINE t == B!Token("END", l.read_pos, 0, <<>>)
  <2>1. B!next_token(l) = B!Lexed(l, t, l.read_pos + 1)
    BY <1>7 DEF B!next_token
  <2>2. t \in Tokens /\ Mark(t) /\ t.pos = l.read_pos
    BY <1>1, <1>7, AtType DEF B!TokenType, B!Token, Tokens, B!Tokens, Mark
  <2> QED
    BY <1>1, <2>1, <2>2, LexedFacts
<1>8. CASE c = "FAULT"
  <2>1. B!next_token(l) = B!Crashes(l, l.read_pos + 1)
    BY <1>8 DEF B!next_token
  <2> QED
    BY <1>1, <2>1, CrashFacts
<1>9. CASE c \notin {":", "FAULT"} /\ ~(c \in {"d", "l", "i", "e"} /\ B!Structural(l))
  <2>1. B!next_token(l) =
          IF l.prevprev.type = "STRING_SIZE"
          THEN IF n \in 1 .. B!Memory - l.read_pos
               THEN B!Lexed(l, B!Token("STRING", 0, 0, s), l.read_pos + n)
               ELSE B!Crashes(l, l.read_pos + 1)
          ELSE IF B!Numeral(c) THEN B!LexNumber(l)
          ELSE B!Lexed(l, B!NoToken, l.read_pos + 1)
    BY <1>9 DEF B!next_token
  <2>2. CASE l.prevprev.type = "STRING_SIZE" /\ n \in 1 .. B!Memory - l.read_pos
    <3>0. B!Memory \in Nat /\ n \in Nat /\ n >= 1
      BY <1>1, <2>2, AtType
    <3>1. \A j \in 1 .. n : B!At(l.read_pos + j - 1) \in Char
      BY <1>1, <1>2, <2>2, <3>0, AtType
    <3>2. s \in Seq(Char)
      BY <3>0, <3>1
    <3>3. l.read_pos + n \in Nat /\ l.read_pos + n > l.read_pos
      BY <1>1, <3>0
    <3> HIDE DEF s, n
    <3> QED
      BY <1>1, <2>1, <2>2, <3>2, <3>3, PlainToken, LexedFacts DEF B!TokenType
  <2>3. CASE l.prevprev.type = "STRING_SIZE" /\ n \notin 1 .. B!Memory - l.read_pos
    BY <1>1, <2>1, <2>3, CrashFacts
  <2>4. CASE l.prevprev.type # "STRING_SIZE" /\ B!Numeral(c)
    BY <2>1, <2>4, LexNumberFacts
  <2>5. CASE l.prevprev.type # "STRING_SIZE" /\ ~B!Numeral(c)
    BY <1>1, <2>1, <2>5, NoTokenFacts, LexedFacts
  <2> QED
    BY <2>2, <2>3, <2>4, <2>5
<1> QED
  BY <1>3, <1>4, <1>5, <1>6, <1>7, <1>8, <1>9

-----------------------------------------------------------------------------
(* The parser.  It never goes back: what it has passed stays behind it.    *)

Reading(q) ==
  /\ q \in Parsers
  /\ Mark(q.cur) /\ Mark(q.peek)
  /\ IsMark(q.cur) => q.cur.pos < q.lexer.read_pos
  /\ IsMark(q.peek) => q.peek.pos < q.lexer.read_pos

\* The parser has passed position n, where a dictionary starts: what it reads
\* next is behind it, and what ends is not that d.
Passed(n, q) ==
  /\ n \in Nat
  /\ n < q.lexer.read_pos
  /\ IsMark(q.peek) => n < q.peek.pos
  /\ q.cur.type = "END" => n < q.cur.pos

\* The parser has gone on from q to r.
Later(q, r) ==
  /\ Reading(r)
  /\ r.lexer.read_pos >= q.lexer.read_pos
  /\ \A n \in Nat : Passed(n, q) => Passed(n, r)

LEMMA LaterTransitive ==
  ASSUME NEW q, NEW r, NEW t, Reading(q), Later(q, r), Later(r, t)
  PROVE  Later(q, t)
<1>1. q.lexer.read_pos \in Nat /\ r.lexer.read_pos \in Nat /\ t.lexer.read_pos \in Nat
  BY DEF Later, Reading, Parsers, Lexers
<1> QED
  BY <1>1 DEF Later

LEMMA ParserNextToken ==
  ASSUME TextInv, NEW q, Reading(q)
  PROVE  /\ Later(q, B!parser_next_token(q))
         /\ q.peek.type = "DICT_START" => Passed(q.peek.pos, B!parser_next_token(q))
<1> DEFINE x == B!next_token(q.lexer)
           r == B!parser_next_token(q)
<1>1. q \in Parsers /\ q.lexer \in Lexers /\ q.peek \in Tokens /\ q.cur \in Tokens
  BY DEF Reading, Parsers
<1>2. Lexes(q.lexer, x)
  BY <1>1, NextToken
<1>3. /\ x.token \in Tokens /\ x.lexer \in Lexers
      /\ x.lexer.read_pos > q.lexer.read_pos
      /\ Mark(x.token) /\ (IsMark(x.token) => x.token.pos = q.lexer.read_pos)
  BY <1>2 DEF Lexes
<1>4. r = [q EXCEPT !.lexer = x.lexer, !.cur = q.peek, !.peek = x.token]
  BY DEF B!parser_next_token
<1> HIDE DEF x, r
<1>5. /\ r \in Parsers /\ r.lexer = x.lexer /\ r.cur = q.peek /\ r.peek = x.token
  BY <1>1, <1>3, <1>4 DEF Parsers
<1>6. /\ q.lexer.read_pos \in Nat /\ x.lexer.read_pos \in Nat /\ q.peek.pos \in Nat
  BY <1>1, <1>3 DEF Lexers, Tokens, B!Tokens
<1>7. Reading(r) /\ r.lexer.read_pos >= q.lexer.read_pos
  BY <1>3, <1>5, <1>6 DEF Reading
<1>8. ASSUME NEW n \in Nat, Passed(n, q)
      PROVE  Passed(n, r)
  BY <1>3, <1>5, <1>6, <1>8 DEF Passed, IsMark
<1>9. ASSUME q.peek.type = "DICT_START"
      PROVE  Passed(q.peek.pos, r)
  BY <1>3, <1>5, <1>6, <1>9 DEF Passed, Reading, IsMark
<1> QED
  BY <1>7, <1>8, <1>9 DEF Later, r

LEMMA ParseError ==
  ASSUME NEW q, Reading(q)
  PROVE  Later(q, B!parse_error(q))
<1> DEFINE r == B!parse_error(q)
<1>1. /\ r \in Parsers /\ r.lexer = q.lexer /\ r.cur = q.cur /\ r.peek = q.peek
  BY DEF B!parse_error, Reading, Parsers
<1>2. q.lexer.read_pos \in Nat
  BY DEF Reading, Parsers, Lexers
<1> HIDE DEF r
<1> QED
  BY <1>1, <1>2 DEF Later, Reading, Passed, r

LEMMA ExpectPeek ==
  ASSUME TextInv, NEW q, Reading(q), NEW type
  PROVE  Later(q, B!expect_peek(q, type))
BY ParserNextToken, ParseError DEF B!expect_peek

-----------------------------------------------------------------------------
(* The calls under way.  One that has the key "info" has passed its start,  *)
(* where there is a d, if it is in the text.  What else they hold is left  *)
(* open.                                                                   *)

Frames(X) == [item : X, key : X, start : X]

FrameInv(f, q) ==
  f.key = B!INFO =>
    Passed(f.start, q) /\ (f.start < Len(text) => text[f.start + 1] = "d")

StackOK(s, q) ==
  /\ \E X : s \in Seq(Frames(X))
  /\ \A i \in 1 .. Len(s) : FrameInv(s[i], q)

\* A sequence over a set is one over every larger set.
LEMMA SeqMonotone ==
  ASSUME NEW S, NEW T, S \subseteq T, NEW s \in Seq(S)
  PROVE  s \in Seq(T)
<1>1. /\ Len(s) \in Nat /\ DOMAIN s = 1 .. Len(s)
      /\ \A i \in 1 .. Len(s) : s[i] \in T
      /\ s = [i \in 1 .. Len(s) |-> s[i]]
  OBVIOUS
<1> DEFINE n == Len(s)
<1>2. s \in [1 .. n -> T]
  BY <1>1
<1> QED
  BY <1>1, <1>2

LEMMA StackLater ==
  ASSUME NEW s, NEW q, NEW r, StackOK(s, q), Later(q, r)
  PROVE  StackOK(s, r)
<1>1. ASSUME NEW f, FrameInv(f, q)
      PROVE  FrameInv(f, r)
  BY <1>1 DEF FrameInv, Later, Passed
<1> QED
  BY <1>1 DEF StackOK

LEMMA StackTail ==
  ASSUME NEW s, NEW q, StackOK(s, q), s # <<>>
  PROVE  StackOK(Tail(s), q)
<1>1. PICK X : s \in Seq(Frames(X))
  BY DEF StackOK
<1>2. /\ Tail(s) \in Seq(Frames(X)) /\ Len(Tail(s)) = Len(s) - 1 /\ Len(s) \in Nat
      /\ \A i \in 1 .. Len(Tail(s)) : Tail(s)[i] = s[i + 1]
  BY <1>1
<1>3. \A i \in 1 .. Len(Tail(s)) : FrameInv(Tail(s)[i], q)
  BY <1>2 DEF StackOK
<1> QED
  BY <1>2, <1>3 DEF StackOK

LEMMA StackHead ==
  ASSUME NEW s, NEW q, StackOK(s, q), s # <<>>
  PROVE  /\ FrameInv(Head(s), q)
         /\ \E X : Head(s) \in Frames(X)
<1>1. PICK X : s \in Seq(Frames(X))
  BY DEF StackOK
<1>2. Head(s) \in Frames(X) /\ Head(s) = s[1] /\ 1 \in 1 .. Len(s)
  BY <1>1
<1> QED
  BY <1>2 DEF StackOK

LEMMA StackPush ==
  ASSUME NEW s, NEW q, StackOK(s, q), NEW f, FrameInv(f, q),
         NEW Y, f \in Frames(Y)
  PROVE  StackOK(<<f>> \o s, q) /\ <<f>> \o s # <<>>
<1>1. PICK X : s \in Seq(Frames(X))
  BY DEF StackOK
<1> DEFINE Z == X \cup Y
           t == <<f>> \o s
<1>2. f \in Frames(Z) /\ \A g \in Frames(X) : g \in Frames(Z)
  BY DEF Frames
<1>3. s \in Seq(Frames(Z))
  BY <1>1, <1>2, SeqMonotone
<1> HIDE DEF Z
<1>4. /\ t \in Seq(Frames(Z)) /\ Len(t) = Len(s) + 1 /\ Len(s) \in Nat /\ t[1] = f
      /\ \A i \in 2 .. Len(t) : t[i] = s[i - 1] /\ i - 1 \in 1 .. Len(s)
  BY <1>2, <1>3
<1> HIDE DEF t
<1>5. ASSUME NEW i \in 1 .. Len(t)
      PROVE  FrameInv(t[i], q)
  <2>1. CASE i = 1
    BY <1>4, <2>1
  <2>2. CASE i \in 2 .. Len(t)
    BY <1>4, <2>2 DEF StackOK
  <2> QED
    BY <1>4, <2>1, <2>2
<1>6. t # <<>>
  BY <1>4
<1> QED
  BY <1>4, <1>5, <1>6 DEF StackOK, t

-----------------------------------------------------------------------------
(* What is hashed.                                                         *)

\* A range from a d to an e behind it, all of which was read.
FromDToE(h, q) ==
  /\ h.start \in Nat /\ h.end \in Nat
  /\ h.start < h.end
  /\ h.end < q.lexer.read_pos
  /\ h.start < Len(text) => Head(h.bytes) = "d"
  /\ h.end < Len(text) => h.bytes[Len(h.bytes)] = "e"

Hashes(X) == [item : X, start : X, end : X, bytes : X]

HashOK(h, q) ==
  /\ \E X : h \in Seq(Hashes(X))
  /\ \A i \in 1 .. Len(h) : FromDToE(h[i], q)

BencodeInv ==
  /\ TextInv
  /\ Reading(parser)
  /\ StackOK(stack, parser)
  /\ parse_pc = "loop" => stack # <<>>
  /\ HashOK(hashed, parser)

LEMMA HashLater ==
  ASSUME NEW h, NEW q, NEW r, Reading(q), HashOK(h, q), Later(q, r)
  PROVE  HashOK(h, r)
<1>1. q.lexer.read_pos \in Nat /\ r.lexer.read_pos \in Nat
      /\ r.lexer.read_pos >= q.lexer.read_pos
  BY DEF Later, Reading, Parsers, Lexers
<1> QED
  BY <1>1 DEF HashOK, FromDToE

\* One more range is hashed.
LEMMA HashAppend ==
  ASSUME NEW h, NEW q, HashOK(h, q), NEW x, FromDToE(x, q), NEW Y, x \in Hashes(Y)
  PROVE  HashOK(Append(h, x), q)
<1>1. PICK X : h \in Seq(Hashes(X))
  BY DEF HashOK
<1> DEFINE Z == X \cup Y
           t == Append(h, x)
<1>2. Hashes(X) \subseteq Hashes(Z) /\ x \in Hashes(Z)
  BY DEF Hashes
<1> HIDE DEF Z
<1>3. h \in Seq(Hashes(Z))
  BY <1>1, <1>2, SeqMonotone
<1>4. /\ t \in Seq(Hashes(Z)) /\ Len(t) = Len(h) + 1 /\ Len(h) \in Nat
      /\ t[Len(h) + 1] = x
      /\ \A i \in 1 .. Len(h) : t[i] = h[i]
  BY <1>2, <1>3
<1> HIDE DEF t
<1>5. ASSUME NEW i \in 1 .. Len(t)
      PROVE  FromDToE(t[i], q)
  <2>1. CASE i = Len(h) + 1
    BY <1>4, <2>1
  <2>2. CASE i \in 1 .. Len(h)
    BY <1>4, <2>2 DEF HashOK
  <2> QED
    BY <1>4, <2>1, <2>2
<1> QED
  BY <1>4, <1>5 DEF HashOK, t

\* The bytes of the value of "info" when it has been parsed.
LEMMA InfoBytes ==
  ASSUME TextInv, NEW q, Reading(q), q.cur.type = "END",
         NEW f, f.key = B!INFO, FrameInv(f, q), NEW v
  PROVE  LET x == [item |-> v, start |-> f.start, end |-> q.cur.pos,
                   bytes |-> B!compute_info_hash(f.start, q.cur.pos)]
         IN  FromDToE(x, q) /\ \E Y : x \in Hashes(Y)
<1> DEFINE start == f.start
           end   == q.cur.pos
           b     == B!compute_info_hash(start, end)
           n     == end - start + 1
           x     == [item |-> v, start |-> start, end |-> end, bytes |-> b]
<1>1. /\ start \in Nat /\ end \in Nat /\ start < end /\ end < q.lexer.read_pos
      /\ start < Len(text) => text[start + 1] = "d"
      /\ end < Len(text) => text[end + 1] = "e"
  BY DEF FrameInv, Passed, IsMark, Reading, Mark, Parsers, Tokens, B!Tokens
<1>2. n \in Nat /\ n >= 2
  BY <1>1
<1>3. b = [i \in 1 .. n |-> B!At(start + i - 1)]
  BY DEF B!compute_info_hash
<1>4. x \in Hashes({v, start, end, b})
  BY DEF Hashes
<1>5. x.start = start /\ x.end = end /\ x.bytes = b
  OBVIOUS
<1> HIDE DEF b, n, x, start, end
<1>6. Len(b) = n
  BY <1>2, <1>3
<1>7. Head(b) = B!At(start)
  <2>1. Head(b) = b[1] /\ 1 \in 1 .. n
    BY <1>2, <1>3, <1>6
  <2>2. start + 1 - 1 = start
    BY <1>1
  <2> QED
    BY <1>3, <2>1, <2>2
<1>8. b[n] = B!At(end)
  <2>1. n \in 1 .. n /\ start + n - 1 = end
    BY <1>1, <1>2 DEF n
  <2> QED
    BY <1>3, <2>1
<1>9. FromDToE(x, q)
  BY <1>1, <1>5, <1>6, <1>7, <1>8, AtType DEF FromDToE
<1> QED
  BY <1>4, <1>9 DEF x, b, start, end

\* What a step of the parser may do.
Advance ==
  /\ text' = text /\ behind' \in Seq(Char)
  /\ Reading(parser')
  /\ StackOK(stack', parser')
  /\ parse_pc' = "loop" => stack' # <<>>
  /\ HashOK(hashed', parser')

LEMMA AdvanceInv ==
  ASSUME BencodeInv, Advance
  PROVE  BencodeInv'
<1>1. TextInv'
  BY DEF BencodeInv, Advance, TextInv
<1>2. Reading(parser)'
  BY DEF Advance, Reading, Mark, IsMark
<1>3. StackOK(stack, parser)'
  BY DEF Advance, StackOK, FrameInv, Passed, IsMark
<1>4. HashOK(hashed, parser)'
  BY DEF Advance, HashOK, FromDToE
<1> QED
  BY <1>1, <1>2, <1>3, <1>4 DEF BencodeInv, Advance

LEMMA ReturnAdvances ==
  ASSUME BencodeInv, NEW v, NEW q, Later(parser, q), B!Return(v, q)
  PROVE  Advance
BY StackLater, HashLater DEF BencodeInv, TextInv, Later, B!Return, B!Goto, Advance

LEMMA FrameUpdate ==
  ASSUME BencodeInv, stack # <<>>, NEW f, NEW Y, f \in Frames(Y), NEW q,
         Later(parser, q), FrameInv(f, q)
  PROVE  StackOK(<<f>> \o Tail(stack), q) /\ <<f>> \o Tail(stack) # <<>>
<1>1. StackOK(Tail(stack), q)
  BY StackTail, StackLater DEF BencodeInv
<1> QED
  BY <1>1, StackPush

\* A call that has no key yet.
LEMMA NoKey ==
  ASSUME NEW item, NEW q
  PROVE  LET f == [item |-> item, key |-> <<>>, start |-> 0]
         IN  FrameInv(f, q) /\ f \in Frames({item, <<>>, 0})
BY DEF FrameInv, Frames, B!INFO

LEMMA CallAdvances ==
  ASSUME BencodeInv, NEW item, B!Call(item)
  PROVE  Advance
<1> DEFINE q == B!parser_next_token(parser)
<1>1. Later(parser, q)
  BY ParserNextToken DEF BencodeInv
<1>2. StackOK(stack, q)
  BY <1>1, StackLater DEF BencodeInv
<1>3. LET s == <<[item |-> item, key |-> <<>>, start |-> 0]>> \o stack
      IN  StackOK(s, q) /\ s # <<>>
  BY <1>2, NoKey, StackPush
<1>4. HashOK(hashed, q)
  BY <1>1, HashLater DEF BencodeInv
<1> HIDE DEF q
<1> QED
  BY <1>1, <1>3, <1>4 DEF BencodeInv, TextInv, Later, B!Call, B!Goto, Advance, q

LEMMA BencodeStep ==
  ASSUME BencodeInv, B!Next
  PROVE  BencodeInv'
<1>0. /\ TextInv /\ Reading(parser) /\ StackOK(stack, parser) /\ HashOK(hashed, parser)
      /\ behind \in Seq(Char)
  BY DEF BencodeInv, TextInv
<1> DEFINE q == B!parser_next_token(parser)
<1>q. /\ Later(parser, q) /\ Reading(q)
      /\ parser.peek.type = "DICT_START" => Passed(parser.peek.pos, q)
      /\ HashOK(hashed, q)
  BY <1>0, ParserNextToken, HashLater DEF Later
<1> HIDE DEF q
<1> SUFFICES Advance
  BY AdvanceInv
<1>1. CASE B!ParseInteger
  <2> DEFINE a == B!expect_peek(parser, "INT")
             b == IF parser.peek.type = "INT" THEN a ELSE B!parse_error(a)
             c == B!expect_peek(b, "END")
             d == IF b.peek.type = "END" THEN c ELSE B!parse_error(c)
  <2>1. Later(parser, a) /\ Reading(a)
    BY <1>0, ExpectPeek DEF Later
  <2>2. Later(a, B!parse_error(a))
    BY <2>1, ParseError
  <2>3. Later(parser, b) /\ Reading(b)
    BY <1>0, <2>1, <2>2, LaterTransitive DEF Later
  <2> HIDE DEF b
  <2>4. Later(b, c) /\ Reading(c)
    BY <1>0, <2>3, ExpectPeek DEF Later
  <2>5. Later(c, B!parse_error(c))
    BY <2>4, ParseError
  <2>6. Later(b, d)
    BY <2>3, <2>4, <2>5, LaterTransitive
  <2>7. Later(parser, d)
    BY <1>0, <2>3, <2>6, LaterTransitive
  <2>8. \E v : B!Return(v, d)
    BY <1>1 DEF B!ParseInteger, b
  <2> QED
    BY <2>7, <2>8, ReturnAdvances
<1>2. CASE B!ParseBytestring
  <2> DEFINE a == B!expect_peek(parser, "COLON")
             b == B!expect_peek(a, "STRING")
  <2>1. Later(parser, a) /\ Reading(a)
    BY <1>0, ExpectPeek DEF Later
  <2>2. Later(a, b) /\ Reading(b)
    BY <1>0, <2>1, ExpectPeek DEF Later
  <2>3. Later(b, B!parse_error(b))
    BY <2>2, ParseError
  <2>4. Later(parser, b)
    BY <1>0, <2>1, <2>2, LaterTransitive
  <2>5. Later(parser, B!parse_error(b))
    BY <1>0, <2>3, <2>4, LaterTransitive
  <2>6. \E v : B!Return(v, a) \/ B!Return(v, b) \/ B!Return(v, B!parse_error(b))
    BY <1>2 DEF B!ParseBytestring
  <2> QED
    BY <2>1, <2>4, <2>5, <2>6, ReturnAdvances
<1>3. CASE B!ParseList
  BY <1>3, CallAdvances DEF B!ParseList
<1>4. CASE B!ParseDict
  BY <1>4, CallAdvances DEF B!ParseDict
<1>5. CASE B!ParseUnexpected
  BY <1>0, <1>5, ParseError, ReturnAdvances DEF B!ParseUnexpected
<1>6. CASE B!Loop
  <2>1. /\ stack # <<>>
        /\ \/ stack' = Tail(stack) /\ parse_pc' = "return"
           \/ stack' = stack /\ parse_pc' = "item"
        /\ parser' = parser /\ text' = text /\ behind' = behind /\ hashed' = hashed
    BY <1>6 DEF B!Loop, BencodeInv
  <2> QED
    BY <1>0, <2>1, StackTail DEF Advance
<1>7. CASE B!ListAppend
  <2> DEFINE f == [Head(stack) EXCEPT !.item.items = Append(@, ret)]
  <2>1. /\ stack # <<>> /\ stack' = <<f>> \o Tail(stack)
        /\ parser' = q
        /\ text' = text /\ behind' = behind /\ hashed' = hashed
    BY <1>7 DEF B!ListAppend, B!Returned, B!Update, B!Goto, q
  <2>2. PICK X : Head(stack) \in Frames(X) /\ FrameInv(Head(stack), parser)
    BY <1>0, <2>1, StackHead
  <2>3. f \in Frames(X \cup {f.item}) /\ f.key = Head(stack).key /\ f.start = Head(stack).start
    BY <2>2 DEF Frames
  <2>4. FrameInv(f, q)
    BY <1>q, <2>2, <2>3 DEF FrameInv, Later, Passed
  <2> HIDE DEF f
  <2>5. StackOK(stack', q) /\ stack' # <<>>
    BY <1>q, <2>1, <2>3, <2>4, FrameUpdate
  <2> QED
    BY <1>0, <1>q, <2>1, <2>5 DEF Advance
<1>8. CASE B!DictKey
  <2> DEFINE f == [Head(stack) EXCEPT !.key = ret.str, !.start = parser.peek.pos]
  <2>1. /\ stack # <<>> /\ stack' = <<f>> \o Tail(stack)
        /\ parser' = q
        /\ text' = text /\ behind' = behind /\ hashed' = hashed
        /\ ret.str = B!INFO => parser.peek.type = "DICT_START"
    BY <1>8 DEF B!DictKey, B!AwaitsKey, B!KeyAborts, B!Returned, B!Update, B!Goto, q
  <2>2. PICK X : Head(stack) \in Frames(X)
    BY <1>0, <2>1, StackHead
  <2>3. /\ f \in Frames(X \cup {ret.str, parser.peek.pos})
        /\ f.key = ret.str /\ f.start = parser.peek.pos
    BY <2>2 DEF Frames
  <2>4. FrameInv(f, q)
    BY <1>0, <1>q, <2>1, <2>3 DEF FrameInv, IsMark, Reading, Mark
  <2> HIDE DEF f
  <2>5. StackOK(stack', q) /\ stack' # <<>>
    BY <1>q, <2>1, <2>3, <2>4, FrameUpdate
  <2> QED
    BY <1>0, <1>q, <2>1, <2>5 DEF Advance
<1>9. CASE B!DictKeyAborts
  BY <1>0, <1>9 DEF B!DictKeyAborts, Advance
<1>10. CASE B!DictKeyBad
  <2>1. /\ stack # <<>> /\ stack' = Tail(stack)
        /\ parser' = B!parse_error(parser)
        /\ text' = text /\ behind' = behind /\ hashed' = hashed /\ parse_pc' = "return"
    BY <1>10 DEF B!DictKeyBad, B!AwaitsKey, B!Returned
  <2>2. Later(parser, parser')
    BY <1>0, <2>1, ParseError
  <2>3. StackOK(stack', parser')
    BY <1>0, <2>1, <2>2, StackTail, StackLater
  <2> QED
    BY <1>0, <2>1, <2>2, <2>3, HashLater DEF Advance, Later
<1>11. CASE B!DictValue
  <2> DEFINE f == Head(stack)
             v == B!BDict(Append(f.item.keys, f.key), Append(f.item.items, ret))
             x == [item |-> ret, start |-> f.start, end |-> parser.cur.pos,
                   bytes |-> B!compute_info_hash(f.start, parser.cur.pos)]
  <2>1. /\ stack # <<>>
        /\ stack' = <<[item |-> v, key |-> <<>>, start |-> 0]>> \o Tail(stack)
        /\ parser' = q
        /\ text' = text /\ behind' = behind
        /\ f.key = B!INFO =>
             /\ parser.cur.type = "END"
             /\ hashed' = Append(hashed, x)
        /\ f.key # B!INFO => hashed' = hashed
    BY <1>11 DEF B!DictValue, B!Returned, B!Update, B!Goto, q
  <2> HIDE DEF v
  <2>2. FrameInv(f, parser)
    BY <1>0, <2>1, StackHead
  <2>3. StackOK(stack', q) /\ stack' # <<>>
    BY <1>q, <2>1, NoKey, FrameUpdate
  <2>4. HashOK(hashed', q)
    <3>1. CASE f.key = B!INFO
      <4>1. PICK Y : FromDToE(x, parser) /\ x \in Hashes(Y)
        BY <1>0, <2>1, <2>2, <3>1, InfoBytes
      <4> HIDE DEF x
      <4>2. HashOK(hashed', parser)
        BY <1>0, <2>1, <3>1, <4>1, HashAppend
      <4> QED
        BY <1>0, <1>q, <4>2, HashLater
    <3>2. CASE f.key # B!INFO
      BY <1>q, <2>1, <3>2
    <3> QED
      BY <3>1, <3>2
  <2> QED
    BY <1>0, <1>q, <2>1, <2>3, <2>4 DEF Advance
<1>12. CASE B!DictValueAborts
  BY <1>0, <1>12 DEF B!DictValueAborts, Advance
<1>13. CASE B!Finish
  BY <1>0, <1>13 DEF B!Finish, Advance
<1>14. CASE B!Done
  BY <1>0, <1>14 DEF B!Done, B!vars, Advance, BencodeInv
<1>15. CASE B!HeapChanges
  <2>1. behind' \in Seq(Char)
    BY <1>15, TextsAssumption DEF B!HeapChanges, B!BencodeAssumption
  <2> QED
    BY <1>0, <1>15, <2>1 DEF B!HeapChanges, Advance, BencodeInv
<1>16. CASE B!ErrorsOverrun
  BY <1>0, <1>16 DEF B!ErrorsOverrun, Advance
<1> QED
  BY <1>1, <1>2, <1>3, <1>4, <1>5, <1>6, <1>7, <1>8, <1>9, <1>10, <1>11, <1>12,
     <1>13, <1>14, <1>15, <1>16 DEF B!Next

LEMMA BencodeStart ==
  ASSUME B!Init
  PROVE  BencodeInv
<1> DEFINE l == [read_pos |-> 0, prev |-> fresh.prev, prevprev |-> fresh.prevprev]
           o == [lexer |-> l, cur |-> B!NoToken, peek |-> B!NoToken, errors |-> 0]
           q == B!parser_next_token(o)
<1>1. TextInv
  BY TextsAssumption DEF B!Init, TextInv, B!BencodeAssumption
<1>2. l \in Lexers
  <2>1. fresh \in [prev : Tokens, prevprev : Tokens]
    BY TextsAssumption DEF B!Init, B!BencodeAssumption, Tokens
  <2> QED
    BY <2>1 DEF Lexers
<1> HIDE DEF l
<1>3. Reading(o)
  BY <1>2, NoTokenFacts DEF Reading, Parsers
<1> HIDE DEF o
<1>4. Reading(q)
  BY <1>1, <1>3, ParserNextToken DEF Later
<1> HIDE DEF q
<1>5. Reading(B!parser_next_token(q))
  BY <1>1, <1>4, ParserNextToken DEF Later
<1>6. parser = B!parser_next_token(q) /\ stack = <<>> /\ hashed = <<>>
      /\ parse_pc # "loop"
  BY DEF B!Init, B!new_parser, q, o, l
<1>7. StackOK(<<>>, parser)
  BY DEF StackOK
<1>8. HashOK(<<>>, parser)
  BY DEF HashOK
<1> QED
  BY <1>1, <1>5, <1>6, <1>7, <1>8 DEF BencodeInv

\* After parse_item() nothing looks at what was hashed.
ParseInv == IF parse_pc = "read" THEN hashed = <<>> ELSE BencodeInv

LEMMA ParseStep ==
  ASSUME ParseInv, [ParseNext]_<<vars, bencode>>
  PROVE  ParseInv'
<1>1. CASE parse_pc # "read" /\ B!Next
  <2>1. BencodeInv'
    BY <1>1, BencodeStep DEF ParseInv
  <2>2. parse_pc' # "read"
    BY <1>1 DEF B!Next, B!ParseInteger, B!ParseBytestring, B!Return, B!Goto,
       B!ParseList, B!ParseDict, B!Call, B!ParseUnexpected, B!Loop, B!ListAppend,
       B!DictKey, B!DictKeyAborts, B!DictKeyBad, B!DictValue, B!DictValueAborts,
       B!HeapChanges, B!Running, B!ErrorsOverrun, B!Finish, B!Done, B!vars
  <2> QED
    BY <2>1, <2>2 DEF ParseInv
<1>2. CASE ReadFields
  BY <1>2 DEF ReadFields, ParseInv
<1>3. CASE UNCHANGED bencode
  <2>1. CASE parse_pc = "read"
    BY <1>3, <2>1 DEF bencode, ParseInv
  <2>2. CASE parse_pc # "read"
    <3>1. BencodeInv
      BY <2>2 DEF ParseInv
    <3>2. Advance
      BY <1>3, <3>1 DEF BencodeInv, TextInv, Advance, bencode
    <3> QED
      BY <1>3, <2>2, <3>1, <3>2, AdvanceInv DEF bencode, ParseInv
  <2> QED
    BY <2>1, <2>2
<1> QED
  BY <1>1, <1>2, <1>3 DEF ParseNext

-----------------------------------------------------------------------------

\* For every text, well formed or not, of any length, whatever is in the heap
\* behind it, however that changes meanwhile, and whatever is in the new Lexer:
\* compute_info_hash() is called with two positions that the lexer has read, the
\* second behind the first, a d and an e as far as they are in the text.
THEOREM HashesDictionaries == ParseSpec => []HashedFromDToE
<1>1. ParseInit => ParseInv
  <2>1. B!Init => parse_pc # "read"
    BY DEF B!Init
  <2> QED
    BY <2>1, BencodeStart DEF ParseInit, ParseInv
<1>2. ParseInv => HashedFromDToE
  <2>1. CASE parse_pc = "read"
    BY <2>1 DEF ParseInv, HashedFromDToE, B!HashedFromDToE
  <2>2. CASE BencodeInv
    <3>1. PICK X : hashed \in Seq(Hashes(X))
      BY <2>2 DEF BencodeInv, HashOK
    <3>2. DOMAIN hashed = 1 .. Len(hashed)
      BY <3>1
    <3> QED
      BY <2>2, <3>2 DEF BencodeInv, HashOK, FromDToE, HashedFromDToE, B!HashedFromDToE
  <2> QED
    BY <2>1, <2>2 DEF ParseInv
<1> QED
  BY <1>1, <1>2, ParseStep, PTL DEF ParseSpec
=============================================================================

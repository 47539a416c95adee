---------------------------- MODULE Require_proofs ----------------------------
(***************************************************************************)
(* Proofs about the shared cache of scripts and the module loader, for any *)
(* number of processes, process ids, versions, scripts and restarts.       *)
(*                                                                         *)
(* The published directory is right because the temporary one is, and that *)
(* one is because nobody but the live process with its id writes into it,  *)
(* whatever a dead one left there.                                         *)
(***************************************************************************)
EXTENDS Require, SequenceTheorems, TLAPS

\* Two live processes have different ids.
PidsInv ==
    \A p, q \in Procs : p # q /\ ~At(p, "none") /\ ~At(q, "none") =>
        proc[p].pid # proc[q].pid

\* What process r, in packUntar, has written so far into the directory d.
Unpacked(r, d) ==
    /\ r.todo \subseteq FilesOf(r.ver)
    /\ r.file \in r.todo \cup {NoFile}
    /\ d.there
    /\ FilesOf(r.ver) \ r.todo \subseteq DOMAIN d.has
    /\ \A f \in FilesOf(r.ver) \ r.todo : d.has[f] = r.ver

UntarInv ==
    \A p \in Procs : At(p, "untar") =>
        /\ Unpacked(proc[p], tmp[proc[p].pid])
        /\ DOMAIN tmp[proc[p].pid].has \subseteq FilesOf(proc[p].ver) \/ reused

\* Outside packUntar a process has no file open.
ClosedInv == \A p \in Procs : ~At(p, "untar") => proc[p].file = NoFile

RequireInv == TypeOK /\ PidsInv /\ UntarInv /\ ClosedInv /\ FloorExact /\ NoHalfBuilt

Running == [at : {"probe", "mkdir", "untar", "clean", "up", "failed"},
            pid : Pids, ver : Vers, todo : SUBSET Files,
            file : Files \cup {NoFile}]

Held == Vers \cup {Torn}

-----------------------------------------------------------------------------
(* Directories and processes.                                              *)

\* What is a directory: a table from some scripts to what they hold.
LEMMA DirShape ==
    /\ NoDir \in Dirs /\ ~NoDir.there /\ DOMAIN NoDir.has = {}
    /\ \A fs \in SUBSET Files : \A has \in [fs -> Held] : Dir(has) \in Dirs
    /\ \A d \in Dirs : /\ d.there \in BOOLEAN
                       /\ DOMAIN d.has \subseteq Files
                       /\ d.has \in [DOMAIN d.has -> Held]
                       /\ ~d.there => d = NoDir
<1>1. <<>> \in [{} -> Held]
  <2>1. <<>> \in Seq(Held) /\ Len(<<>>) = 0
    BY EmptySeq
  <2>2. <<>> \in [1 .. 0 -> Held]
    BY <2>1, LenProperties
  <2>3. 1 .. 0 = {}
    OBVIOUS
  <2> QED BY <2>2, <2>3
<1>2. NoDir \in Dirs /\ ~NoDir.there /\ DOMAIN NoDir.has = {}
  BY <1>1 DEF NoDir, Dirs
<1>3. ASSUME NEW fs \in SUBSET Files, NEW has \in [fs -> Held]
      PROVE  Dir(has) \in Dirs
  BY DEF Dirs, Held
<1>4. ASSUME NEW d \in Dirs
      PROVE  /\ d.there \in BOOLEAN /\ DOMAIN d.has \subseteq Files
             /\ d.has \in [DOMAIN d.has -> Held]
             /\ ~d.there => d = NoDir
  <2>1. CASE d = NoDir
    BY <1>1, <2>1 DEF NoDir
  <2>2. CASE d # NoDir
    <3>1. PICK fs \in SUBSET Files : \E has \in [fs -> Held] : d = Dir(has)
      BY <2>2 DEF Dirs, Held
    <3>2. PICK has \in [fs -> Held] : d = Dir(has)
      BY <3>1
    <3>3. d.there = TRUE /\ d.has = has
      BY <3>2 DEF Dir
    <3> QED BY <3>3
  <2> QED BY <2>1, <2>2
<1> QED BY <1>2, <1>3, <1>4

\* Writing c under f into a directory.
LEMMA WithShape ==
    ASSUME NEW d \in Dirs, NEW f \in Files, NEW c \in Held
    PROVE  /\ With(d, f, c) \in Dirs /\ With(d, f, c).there
           /\ DOMAIN With(d, f, c).has = DOMAIN d.has \cup {f}
           /\ With(d, f, c).has[f] = c
           /\ \A g \in DOMAIN d.has : g # f => With(d, f, c).has[g] = d.has[g]
<1> DEFINE has == [g \in DOMAIN d.has \cup {f} |-> IF g = f THEN c ELSE d.has[g]]
<1>1. DOMAIN d.has \subseteq Files /\ d.has \in [DOMAIN d.has -> Held]
  BY DirShape
<1>2. has \in [DOMAIN d.has \cup {f} -> Held]
  BY <1>1
<1>3. Dir(has) \in Dirs
  BY <1>1, <1>2, DirShape
<1>4. /\ DOMAIN has = DOMAIN d.has \cup {f} /\ has[f] = c
      /\ \A g \in DOMAIN d.has : g # f => has[g] = d.has[g]
  OBVIOUS
<1>5. With(d, f, c) = Dir(has)
  BY DEF With
<1> HIDE DEF has
<1>6. Dir(has).there = TRUE /\ Dir(has).has = has
  BY DEF Dir
<1> QED BY <1>3, <1>4, <1>5, <1>6

\* A process that is somewhere has an id and a version.
LEMMA LiveProc ==
    ASSUME TypeOK, NEW p \in Procs, NEW w, At(p, w), w # "none"
    PROVE  /\ proc[p] \in Running /\ proc[p] # NoProc
           /\ proc[p].pid \in Pids /\ proc[p].ver \in Vers
<1>1. NoProc.at = "none"
  BY DEF NoProc
<1>2. proc[p] # NoProc
  BY <1>1 DEF At
<1>3. proc[p] \in Running
  BY <1>2 DEF TypeOK, Running
<1> QED BY <1>2, <1>3 DEF Running

\* What the entry of a process may be.
Ps == {NoProc} \cup Running

\* A step of process p: it goes on as the record r, and the others stay.
LEMMA ProcStep ==
    ASSUME TypeOK, NEW p \in Procs, NEW r \in Ps,
           proc' = [proc EXCEPT ![p] = r]
    PROVE  /\ proc' \in [Procs -> Ps] /\ proc'[p] = r
           /\ \A q \in Procs : q # p => proc'[q] = proc[q]
BY DEF TypeOK, Ps, Running

\* The loader's own state keeps its types.
LoaderOK ==
    /\ memo \in [Keys -> Places \cup {"none"}]
    /\ cache \subseteq Paths /\ stack \in Seq(Paths) /\ throws \in BOOLEAN
    /\ done \subseteq Paths

\* A call of some require() or require.resolve().
Loads ==
    \E b \in Bases, k \in Kinds, f \in Files : load(b, k, f) \/ resolveOnly(b, k, f)

\* Where a module is looked for is a place, and a module found has a path.
LEMMA FoundPlace ==
    ASSUME TypeOK, NEW b \in Bases, NEW k \in Kinds, NEW f \in Files
    PROVE  /\ ResolveMemo(b, k, f) \in Places \cup {"none"}
           /\ ResolveMemo(b, k, f) # "none" => <<ResolveMemo(b, k, f), f>> \in Paths
           /\ Remembered(b, k, f) \in [Keys -> Places \cup {"none"}]
<1>1. <<b, k, f>> \in Keys
  BY DEF Keys
<1>2. memo \in [Keys -> Places \cup {"none"}]
  BY DEF TypeOK
<1>3. Resolve(b, k, f) \in Places \cup {"none"}
  BY ConstantsAssumption DEF Resolve, ResolveJsrc, Places
<1>4. ResolveMemo(b, k, f) \in Places \cup {"none"}
  BY <1>1, <1>2, <1>3 DEF ResolveMemo
<1>5. ResolveMemo(b, k, f) # "none" => <<ResolveMemo(b, k, f), f>> \in Paths
  BY <1>4 DEF Paths
<1>6. Remembered(b, k, f) \in [Keys -> Places \cup {"none"}]
  BY <1>2, <1>4 DEF Remembered
<1> QED BY <1>4, <1>5, <1>6

\* The innermost module, and the stack without it.
LEMMA Innermost ==
    ASSUME TypeOK, stack # <<>>
    PROVE  /\ Len(stack) \in Nat \ {0} /\ Last(stack) = stack[Len(stack)]
           /\ Last(stack) \in Paths
           /\ Front(stack) \in Seq(Paths) /\ Len(Front(stack)) = Len(stack) - 1
           /\ \A i \in 1 .. Len(stack) - 1 : Front(stack)[i] = stack[i]
<1>1. stack \in Seq(Paths)
  BY DEF TypeOK
<1> DEFINE n == Len(stack)
<1>2. n \in Nat \ {0} /\ n \in Nat /\ n >= 1
  BY <1>1, EmptySeq
<1>3. \A i \in 1 .. n - 1 : stack[i] \in Paths
  BY <1>1, <1>2, ElementOfSeq
<1>4. stack[n] \in Paths
  BY <1>1, <1>2, ElementOfSeq
<1>5. /\ Front(stack) \in Seq(Paths)
      /\ Len(Front(stack)) = IF 1 <= n - 1 THEN n - 1 - 1 + 1 ELSE 0
      /\ \A i \in 1 .. n - 1 - 1 + 1 : Front(stack)[i] = stack[1 + i - 1]
  BY <1>2, <1>3, SubSeqProperties DEF Front
<1> HIDE DEF n
<1>6. Len(Front(stack)) = n - 1
  BY <1>2, <1>5
<1>7. ASSUME NEW i \in 1 .. n - 1
      PROVE  Front(stack)[i] = stack[i]
  <2>1. 1 + i - 1 = i /\ n - 1 - 1 + 1 = n - 1
    BY <1>2
  <2> QED BY <1>5, <2>1
<1> QED BY <1>2, <1>4, <1>5, <1>6, <1>7 DEF n, Last

\* The loader's steps keep its types.
LEMMA LoaderTypes ==
    ASSUME TypeOK,
           \/ Loads
           \/ evaluated \/ throw \/ catch
           \/ UNCHANGED loader
    PROVE  LoaderOK'
<1> USE DEF LoaderOK
<1>1. ASSUME NEW b \in Bases, NEW k \in Kinds, NEW f \in Files,
             load(b, k, f) \/ resolveOnly(b, k, f)
      PROVE  LoaderOK'
  <2> DEFINE abs == <<ResolveMemo(b, k, f), f>>
  <2>1. /\ memo' = Remembered(b, k, f) /\ done' = done
        /\ throws' \in BOOLEAN
        /\ \/ UNCHANGED <<cache, stack>>
           \/ /\ ResolveMemo(b, k, f) # "none"
              /\ cache' = cache \cup {abs} /\ stack' = Append(stack, abs)
    BY <1>1 DEF load, resolveOnly, TypeOK
  <2>2. ResolveMemo(b, k, f) # "none" => abs \in Paths
    BY FoundPlace
  <2>3. memo' \in [Keys -> Places \cup {"none"}]
    BY <2>1, FoundPlace
  <2> HIDE DEF abs
  <2>4. cache' \subseteq Paths /\ stack' \in Seq(Paths)
    <3>1. cache \subseteq Paths /\ stack \in Seq(Paths)
      BY DEF TypeOK
    <3>2. CASE UNCHANGED <<cache, stack>>
      BY <3>1, <3>2
    <3>3. CASE ~UNCHANGED <<cache, stack>>
      <4>1. /\ abs \in Paths
            /\ cache' = cache \cup {abs} /\ stack' = Append(stack, abs)
        BY <2>1, <2>2, <3>3
      <4>2. Append(stack, abs) \in Seq(Paths)
        BY <3>1, <4>1, AppendProperties
      <4> QED BY <3>1, <4>1, <4>2
    <3> QED BY <3>2, <3>3
  <2> QED BY <2>1, <2>3, <2>4 DEF TypeOK
<1>2. CASE evaluated \/ throw
  <2>1. Front(stack) \in Seq(Paths) /\ Last(stack) \in Paths
    BY <1>2, Innermost DEF evaluated, throw
  <2> QED BY <1>2, <2>1 DEF TypeOK, evaluated, throw, Evicted
<1>3. CASE catch
  BY <1>3 DEF TypeOK, catch
<1>4. CASE UNCHANGED loader
  BY <1>4 DEF TypeOK, loader
<1> QED BY <1>1, <1>2, <1>3, <1>4 DEF Loads

-----------------------------------------------------------------------------
(* The cache directory.                                                    *)

Good(r, d, u) ==
    Unpacked(r, d) /\ (DOMAIN d.has \subseteq FilesOf(r.ver) \/ u)

\* A step of a live process touches its own temporary directory only, which
\* no other live process has: the others' are as they were.
LEMMA OwnDirOnly ==
    ASSUME TypeOK, PidsInv, UntarInv, ClosedInv, NEW p \in Procs, ~At(p, "none"),
           NEW r \in Ps, proc' = [proc EXCEPT ![p] = r],
           r.at = "none" \/ r.pid = proc[p].pid,
           NEW d \in Dirs, tmp' \in {tmp, [tmp EXCEPT ![proc[p].pid] = d]},
           reused => reused',
           r.at = "untar" => Good(r, tmp'[r.pid], reused'),
           r.at # "untar" => r.file = NoFile
    PROVE  /\ proc' \in [Procs -> Ps] /\ tmp' \in [Pids -> Dirs]
           /\ PidsInv' /\ UntarInv' /\ ClosedInv'
<1>1. /\ proc' \in [Procs -> Ps] /\ proc'[p] = r
      /\ \A q \in Procs : q # p => proc'[q] = proc[q]
  BY ProcStep
<1>2. proc[p].pid \in Pids
  BY LiveProc DEF At
<1>3. tmp' \in [Pids -> Dirs]
  BY <1>2 DEF TypeOK
<1>4. PidsInv'
  BY <1>1 DEF PidsInv, At
<1>5. ASSUME NEW q \in Procs, proc'[q].at = "untar"
      PROVE  Good(proc'[q], tmp'[proc'[q].pid], reused')
  <2>1. CASE q = p
    BY <1>1, <1>5, <2>1
  <2>2. CASE q # p
    <3>1. proc'[q] = proc[q] /\ At(q, "untar")
      BY <1>1, <1>5, <2>2 DEF At
    <3>2. proc[q].pid # proc[p].pid /\ proc[q].pid \in Pids
      BY <2>2, <3>1, LiveProc DEF PidsInv, At
    <3>3. tmp'[proc[q].pid] = tmp[proc[q].pid]
      BY <1>2, <3>2 DEF TypeOK
    <3>4. Good(proc[q], tmp[proc[q].pid], reused)
      BY <3>1 DEF UntarInv, Good
    <3> QED BY <3>1, <3>3, <3>4 DEF Good
  <2> QED BY <2>1, <2>2
<1>6. UntarInv'
  BY <1>5 DEF UntarInv, Good, Unpacked, At
<1>7. ClosedInv'
  BY <1>1 DEF ClosedInv, At
<1> QED BY <1>1, <1>3, <1>4, <1>6, <1>7

\* What the steps of one process make of all that.
Disk ==
    /\ proc \in [Procs -> Ps] /\ tmp \in [Pids -> Dirs] /\ dir \in [Vers -> Dirs]
    /\ reused \in BOOLEAN
    /\ PidsInv /\ UntarInv /\ ClosedInv /\ FloorExact

\* What is published stays when nothing is published.
LEMMA SameFloor ==
    ASSUME TypeOK, FloorExact, UNCHANGED dir, reused => reused'
    PROVE  dir' \in [Vers -> Dirs] /\ FloorExact'
BY DEF TypeOK, FloorExact

\* A process starts with an id no live process has.
LEMMA StartDisk ==
    ASSUME TypeOK, PidsInv, UntarInv, ClosedInv, FloorExact,
           NEW p \in Procs, NEW i \in Pids, NEW v \in Vers, start(p, i, v)
    PROVE  Disk'
<1> DEFINE r == [at |-> "probe", pid |-> i, ver |-> v, todo |-> {},
                 file |-> NoFile]
<1>1. r \in Ps /\ r.at = "probe" /\ r.pid = i /\ r.file = NoFile
  BY DEF Ps, Running
<1> HIDE DEF r
<1>2. proc' = [proc EXCEPT ![p] = r] /\ UNCHANGED <<tmp, dir, reused>>
  BY DEF start, disk, r
<1>3. \A q \in Procs : proc[q].pid # i
  BY DEF start
<1>4. /\ proc' \in [Procs -> Ps] /\ proc'[p] = r
      /\ \A q \in Procs : q # p => proc'[q] = proc[q]
  BY <1>1, <1>2, ProcStep
<1>5. PidsInv'
  BY <1>1, <1>3, <1>4 DEF PidsInv, At
<1>6. UntarInv'
  BY <1>1, <1>2, <1>4 DEF UntarInv, At, Unpacked
<1>7. ClosedInv'
  BY <1>1, <1>4 DEF ClosedInv, At
<1> QED BY <1>2, <1>4, <1>5, <1>6, <1>7, SameFloor DEF Disk, TypeOK

\* probe, and the ends of a process: no directory changes.
LEMMA QuietDisk ==
    ASSUME TypeOK, PidsInv, UntarInv, ClosedInv, FloorExact, NEW p \in Procs,
           probe(p) \/ giveUp(p) \/ writeFails(p) \/ die(p)
    PROVE  Disk'
<1>1. ~At(p, "none") /\ UNCHANGED <<tmp, dir, reused>>
  BY DEF probe, giveUp, writeFails, die, disk, At
<1>2. proc[p] \in Running /\ proc[p].pid \in Pids
  BY <1>1, LiveProc DEF At
<1>3. PICK r \in Ps : /\ proc' = [proc EXCEPT ![p] = r]
                      /\ r.at = "none" \/ r.pid = proc[p].pid
                      /\ r.at # "untar" /\ r.file = NoFile
  <2>1. CASE probe(p) \/ giveUp(p)
    <3>1. PICK w \in {"up", "mkdir", "failed"} : proc' = [proc EXCEPT ![p].at = w]
      BY <2>1 DEF probe, giveUp, Goes
    <3> DEFINE r == [proc[p] EXCEPT !.at = w]
    <3>2. /\ r \in Ps /\ r.pid = proc[p].pid /\ r.at # "untar"
          /\ r.file = NoFile
      BY <1>2, <2>1 DEF Ps, Running, ClosedInv, probe, giveUp, At
    <3>3. proc' = [proc EXCEPT ![p] = r]
      BY <3>1
    <3> QED BY <3>2, <3>3
  <2>2. CASE writeFails(p)
    <3> DEFINE r == [proc[p] EXCEPT !.at = "clean", !.file = NoFile]
    <3>1. /\ r \in Ps /\ r.pid = proc[p].pid /\ r.at # "untar"
          /\ r.file = NoFile
      BY <1>2 DEF Ps, Running
    <3>2. proc' = [proc EXCEPT ![p] = r]
      BY <2>2 DEF writeFails, TypeOK
    <3> QED BY <3>1, <3>2
  <2>3. CASE die(p)
    <3>1. NoProc \in Ps /\ NoProc.at = "none" /\ NoProc.file = NoFile
      BY DEF Ps, NoProc
    <3>2. proc' = [proc EXCEPT ![p] = NoProc]
      BY <2>3 DEF die
    <3> QED BY <3>1, <3>2
  <2> QED BY <2>1, <2>2, <2>3
<1>4. /\ proc' \in [Procs -> Ps] /\ tmp' \in [Pids -> Dirs]
      /\ PidsInv' /\ UntarInv' /\ ClosedInv'
  BY <1>1, <1>3, OwnDirOnly, DirShape
<1> QED BY <1>1, <1>4, SameFloor DEF Disk, TypeOK

\* Making a directory leaves what it holds.
LEMMA Opened ==
    ASSUME NEW b \in BOOLEAN, NEW has
    PROVE  [[there |-> b, has |-> has] EXCEPT !.there = TRUE]
             = [there |-> TRUE, has |-> has]
<1> DEFINE S == [there : BOOLEAN, has : {has}]
           d == [there |-> b, has |-> has]
           e == [d EXCEPT !.there = TRUE]
<1>1. d \in S
  OBVIOUS
<1>2. e \in S /\ e.there = TRUE
  BY <1>1
<1> HIDE DEF e
<1>3. e = [there |-> e.there, has |-> e.has] /\ e.has = has
  BY <1>2
<1> QED BY <1>2, <1>3 DEF e

\* mkdir: an empty directory, or what a dead process with the id left, which
\* the history notes.
LEMMA MkdirDisk ==
    ASSUME TypeOK, PidsInv, UntarInv, ClosedInv, FloorExact, NEW p \in Procs, mkdir(p)
    PROVE  Disk'
<1>1. proc[p] \in Running /\ proc[p].pid \in Pids /\ ~At(p, "none")
  BY LiveProc DEF mkdir, At
<1> DEFINE t == proc[p].pid
           d == [tmp[t] EXCEPT !.there = TRUE]
           r == [proc[p] EXCEPT !.at = "untar", !.todo = FilesOf(proc[p].ver)]
<1>2. tmp[t] \in Dirs
  BY <1>1 DEF TypeOK
<1>3. d \in Dirs /\ d.there /\ d.has = tmp[t].has
  <2>1. CASE tmp[t] = NoDir
    <3>1. NoDir.has \in [{} -> Held]
      BY DirShape
    <3>2. Dir(NoDir.has) \in Dirs
      BY <3>1, DirShape
    <3>3. NoDir = [there |-> FALSE, has |-> NoDir.has]
      BY DEF NoDir
    <3>4. d = Dir(NoDir.has)
      BY <2>1, <3>3, Opened DEF Dir
    <3> QED BY <2>1, <3>2, <3>4 DEF Dir
  <2>2. CASE tmp[t] # NoDir
    <3>1. PICK has : tmp[t] = Dir(has)
      BY <1>2, <2>2 DEF Dirs
    <3>2. d = Dir(has)
      BY <3>1, Opened DEF Dir
    <3> QED BY <1>2, <3>1, <3>2 DEF Dir
  <2> QED BY <2>1, <2>2
<1>4. /\ r \in Ps /\ r.pid = t /\ r.at = "untar" /\ r.ver = proc[p].ver
      /\ r.todo = FilesOf(proc[p].ver) /\ r.file = proc[p].file
  BY <1>1 DEF Ps, Running, FilesOf
<1>5. proc' = [proc EXCEPT ![p] = r]
  BY DEF mkdir, TypeOK
<1>6. tmp' = [tmp EXCEPT ![t] = d]
  BY DEF mkdir, TmpOf
<1>7. reused' = (reused \/ tmp[t].there) /\ reused' \in BOOLEAN
  BY <1>2, DirShape DEF mkdir, TmpOf, TypeOK
<1>8. tmp'[t] = d
  BY <1>1, <1>6 DEF TypeOK
<1>9. proc[p].file = NoFile
  BY DEF mkdir, At, ClosedInv
<1>10. DOMAIN d.has \subseteq FilesOf(r.ver) \/ reused'
  <2>1. CASE tmp[t].there
    BY <1>7, <2>1
  <2>2. CASE ~tmp[t].there
    <3>1. DOMAIN tmp[t].has = {}
      BY <1>2, <2>2, DirShape
    <3> QED BY <1>3, <3>1
  <2> QED BY <2>1, <2>2
<1> HIDE DEF d, r
<1>11. Good(r, tmp'[r.pid], reused')
  BY <1>3, <1>4, <1>8, <1>9, <1>10 DEF Good, Unpacked
<1>12. /\ proc' \in [Procs -> Ps] /\ tmp' \in [Pids -> Dirs]
       /\ PidsInv' /\ UntarInv' /\ ClosedInv'
  BY <1>1, <1>3, <1>4, <1>5, <1>6, <1>7, <1>11, OwnDirOnly
<1>13. UNCHANGED dir
  BY DEF mkdir
<1> QED BY <1>7, <1>12, <1>13, SameFloor DEF Disk

\* create: a file still to be written is torn, and the written ones stay.
LEMMA CreateDisk ==
    ASSUME TypeOK, PidsInv, UntarInv, ClosedInv, FloorExact, NEW p \in Procs, create(p)
    PROVE  Disk'
<1>1. proc[p] \in Running /\ proc[p].pid \in Pids /\ ~At(p, "none")
  BY LiveProc DEF create, At
<1> DEFINE t == proc[p].pid
<1>2. tmp[t] \in Dirs /\ Good(proc[p], tmp[t], reused)
  BY <1>1 DEF TypeOK, create, UntarInv, Good
<1>3. PICK f \in proc[p].todo : /\ proc' = [proc EXCEPT ![p].file = f]
                                /\ tmp' = [tmp EXCEPT ![t] = With(@, f, Torn)]
  BY DEF create, TmpOf
<1>4. f \in FilesOf(proc[p].ver) /\ f \in Files
  BY <1>2 DEF Good, Unpacked, FilesOf
<1> DEFINE d == With(tmp[t], f, Torn)
           r == [proc[p] EXCEPT !.file = f]
<1>5. /\ d \in Dirs /\ d.there /\ DOMAIN d.has = DOMAIN tmp[t].has \cup {f}
      /\ \A g \in DOMAIN tmp[t].has : g # f => d.has[g] = tmp[t].has[g]
  BY <1>2, <1>4, WithShape DEF Held
<1>6. /\ r \in Ps /\ r.pid = t /\ r.at = "untar" /\ r.ver = proc[p].ver
      /\ r.todo = proc[p].todo /\ r.file = f
  BY <1>1, <1>4 DEF Ps, Running, create, At
<1>7. proc' = [proc EXCEPT ![p] = r]
  BY <1>3 DEF TypeOK
<1> HIDE DEF d, r
<1>8. tmp' = [tmp EXCEPT ![t] = d] /\ tmp'[t] = d
  BY <1>1, <1>3 DEF TypeOK, d
<1>9. UNCHANGED <<dir, reused>>
  BY DEF create
<1>10. Unpacked(r, d)
  <2>1. \A g \in FilesOf(r.ver) \ r.todo :
          g # f /\ g \in DOMAIN tmp[t].has /\ tmp[t].has[g] = r.ver
    BY <1>2, <1>6 DEF Good, Unpacked
  <2> QED BY <1>2, <1>5, <1>6, <2>1 DEF Good, Unpacked
<1>11. Good(r, tmp'[r.pid], reused')
  BY <1>2, <1>4, <1>5, <1>6, <1>8, <1>9, <1>10 DEF Good
<1>12. /\ proc' \in [Procs -> Ps] /\ tmp' \in [Pids -> Dirs]
       /\ PidsInv' /\ UntarInv' /\ ClosedInv'
  BY <1>1, <1>5, <1>6, <1>7, <1>8, <1>9, <1>11, OwnDirOnly
<1> QED BY <1>9, <1>12, SameFloor DEF Disk, TypeOK

\* write: the open file is whole, and no longer to be written.
LEMMA WriteDisk ==
    ASSUME TypeOK, PidsInv, UntarInv, ClosedInv, FloorExact, NEW p \in Procs, write(p)
    PROVE  Disk'
<1>1. /\ proc[p] \in Running /\ proc[p].pid \in Pids /\ proc[p].ver \in Vers
      /\ ~At(p, "none")
  BY LiveProc DEF write, At
<1> DEFINE t == proc[p].pid
           f == proc[p].file
<1>2. tmp[t] \in Dirs /\ Good(proc[p], tmp[t], reused)
  BY <1>1 DEF TypeOK, write, UntarInv, Good
<1>3. f \in proc[p].todo /\ f \in FilesOf(proc[p].ver) /\ f \in Files
  BY <1>2 DEF Good, Unpacked, FilesOf, write
<1> DEFINE d == With(tmp[t], f, proc[p].ver)
           r == [proc[p] EXCEPT !.todo = @ \ {f}, !.file = NoFile]
<1>5. /\ d \in Dirs /\ d.there /\ DOMAIN d.has = DOMAIN tmp[t].has \cup {f}
      /\ d.has[f] = proc[p].ver
      /\ \A g \in DOMAIN tmp[t].has : g # f => d.has[g] = tmp[t].has[g]
  BY <1>1, <1>2, <1>3, WithShape DEF Held
<1>6. /\ r \in Ps /\ r.pid = t /\ r.at = "untar" /\ r.ver = proc[p].ver
      /\ r.todo = proc[p].todo \ {f} /\ r.file = NoFile
  BY <1>1 DEF Ps, Running, write, At
<1>7. proc' = [proc EXCEPT ![p] = r]
  BY DEF write, TypeOK
<1>8. tmp' = [tmp EXCEPT ![t] = d] /\ tmp'[t] = d
  BY <1>1 DEF TypeOK, write, TmpOf
<1> HIDE DEF d, r
<1>9. UNCHANGED <<dir, reused>>
  BY DEF write
<1>10. Unpacked(r, d)
  <2>1. \A g \in FilesOf(r.ver) \ r.todo :
          g # f => g \in DOMAIN tmp[t].has /\ tmp[t].has[g] = r.ver
    BY <1>2, <1>6 DEF Good, Unpacked
  <2> QED BY <1>2, <1>5, <1>6, <2>1 DEF Good, Unpacked
<1>11. Good(r, tmp'[r.pid], reused')
  BY <1>2, <1>3, <1>5, <1>6, <1>8, <1>9, <1>10 DEF Good
<1>12. /\ proc' \in [Procs -> Ps] /\ tmp' \in [Pids -> Dirs]
       /\ PidsInv' /\ UntarInv' /\ ClosedInv'
  BY <1>1, <1>5, <1>6, <1>7, <1>8, <1>9, <1>11, OwnDirOnly
<1> QED BY <1>9, <1>12, SameFloor DEF Disk, TypeOK

\* rename: what took the place has every script of the version, for the
\* process wrote them all and nobody else wrote there.
LEMMA RenameDisk ==
    ASSUME TypeOK, PidsInv, UntarInv, ClosedInv, FloorExact, NEW p \in Procs, rename(p)
    PROVE  Disk'
<1>1. /\ proc[p] \in Running /\ proc[p].pid \in Pids /\ proc[p].ver \in Vers
      /\ ~At(p, "none")
  BY LiveProc DEF rename, At
<1> DEFINE t == proc[p].pid
           v == proc[p].ver
<1>2. tmp[t] \in Dirs /\ Good(proc[p], tmp[t], reused)
  BY <1>1 DEF TypeOK, rename, UntarInv, Good
<1>3. proc[p].todo = {} /\ proc[p].file = NoFile
  BY <1>2 DEF rename, Good, Unpacked
<1>4. /\ FilesOf(v) \subseteq DOMAIN tmp[t].has
      /\ \A f \in FilesOf(v) : tmp[t].has[f] = v
      /\ DOMAIN tmp[t].has # FilesOf(v) => reused
  BY <1>2, <1>3 DEF Good, Unpacked
<1>5. UNCHANGED reused
  BY DEF rename
<1>6. PICK w \in {"up", "clean"} : proc' = [proc EXCEPT ![p].at = w]
  BY DEF rename, Goes
<1> DEFINE r == [proc[p] EXCEPT !.at = w]
<1>7. /\ r \in Ps /\ r.pid = t /\ r.at # "untar" /\ r.file = NoFile
      /\ proc' = [proc EXCEPT ![p] = r]
  BY <1>1, <1>3, <1>6 DEF Ps, Running, TypeOK
<1> HIDE DEF r
<1>8. tmp' \in {tmp, [tmp EXCEPT ![t] = NoDir]}
  BY DEF rename, disk, TmpOf
<1>9. /\ proc' \in [Procs -> Ps] /\ tmp' \in [Pids -> Dirs]
      /\ PidsInv' /\ UntarInv' /\ ClosedInv'
  BY <1>1, <1>5, <1>7, <1>8, OwnDirOnly, DirShape
<1>10. dir' \in {dir, [dir EXCEPT ![v] = tmp[t]]}
  BY DEF rename, disk, TmpOf
<1>11. dir' \in [Vers -> Dirs]
  BY <1>1, <1>2, <1>10 DEF TypeOK
<1>12. FloorExact'
  <2>1. CASE dir' = dir
    BY <1>5, <2>1, SameFloor
  <2>2. CASE dir' = [dir EXCEPT ![v] = tmp[t]]
    <3>1. ASSUME NEW u \in Vers, dir'[u].there
          PROVE  /\ FilesOf(u) \subseteq DOMAIN dir'[u].has
                 /\ \A f \in FilesOf(u) : dir'[u].has[f] = u
                 /\ DOMAIN dir'[u].has # FilesOf(u) => reused
      <4>1. CASE u = v
        <5>1. dir'[u] = tmp[t]
          BY <1>1, <2>2, <4>1 DEF TypeOK
        <5> QED BY <1>4, <4>1, <5>1
      <4>2. CASE u # v
        <5>1. dir'[u] = dir[u]
          BY <1>1, <2>2, <4>2 DEF TypeOK
        <5> QED BY <3>1, <5>1 DEF FloorExact
      <4> QED BY <4>1, <4>2
    <3> QED BY <1>5, <3>1 DEF FloorExact, FilesOf
  <2> QED BY <1>10, <2>1, <2>2
<1> QED BY <1>5, <1>9, <1>11, <1>12 DEF Disk, TypeOK

\* clean: only the process's own temporary directory is dropped.
LEMMA CleanDisk ==
    ASSUME TypeOK, PidsInv, UntarInv, ClosedInv, FloorExact, NEW p \in Procs, clean(p)
    PROVE  Disk'
<1>1. proc[p] \in Running /\ proc[p].pid \in Pids /\ ~At(p, "none")
  BY LiveProc DEF clean, At
<1>2. UNCHANGED <<dir, reused>>
  BY DEF clean
<1>3. PICK w \in {"up", "failed"} : proc' = [proc EXCEPT ![p].at = w]
  BY DEF clean, Goes
<1> DEFINE r == [proc[p] EXCEPT !.at = w]
<1>4. proc[p].file = NoFile
  BY DEF clean, ClosedInv, At
<1>5. /\ r \in Ps /\ r.pid = proc[p].pid /\ r.at # "untar" /\ r.file = NoFile
      /\ proc' = [proc EXCEPT ![p] = r]
  BY <1>1, <1>3, <1>4 DEF Ps, Running, TypeOK
<1> HIDE DEF r
<1>6. tmp' \in {tmp, [tmp EXCEPT ![proc[p].pid] = NoDir]}
  BY DEF clean, TmpOf
<1>7. /\ proc' \in [Procs -> Ps] /\ tmp' \in [Pids -> Dirs]
      /\ PidsInv' /\ UntarInv' /\ ClosedInv'
  BY <1>1, <1>2, <1>5, <1>6, OwnDirOnly, DirShape
<1> QED BY <1>2, <1>7, SameFloor DEF Disk, TypeOK

-----------------------------------------------------------------------------
(* The loader.                                                             *)

\* What the stack holds, by position.
LEMMA OnStack ==
    ASSUME NEW s \in Seq(Paths)
    PROVE  /\ DOMAIN s = 1 .. Len(s)
           /\ \A f : f \in ToSet(s) <=> \E i \in 1 .. Len(s) : s[i] = f
BY LenProperties DEF ToSet

\* A module that starts being evaluated is on the stack once.
LEMMA Pushed ==
    ASSUME NEW s \in Seq(Paths), NEW f \in Paths, IsInjective(s), f \notin ToSet(s)
    PROVE  IsInjective(Append(s, f)) /\ ToSet(Append(s, f)) = ToSet(s) \cup {f}
<1> DEFINE n == Len(s)
           a == Append(s, f)
<1>1. n \in Nat /\ DOMAIN s = 1 .. n
      /\ \A g : g \in ToSet(s) <=> \E i \in 1 .. n : s[i] = g
  BY OnStack, LenProperties
<1>2. /\ a \in Seq(Paths) /\ Len(a) = n + 1 /\ a[n + 1] = f
      /\ \A i \in 1 .. n : a[i] = s[i]
  BY AppendProperties
<1> HIDE DEF n, a
<1>3. /\ DOMAIN a = 1 .. n + 1
      /\ \A g : g \in ToSet(a) <=> \E i \in 1 .. n + 1 : a[i] = g
  BY <1>2, OnStack
<1>4. \A i \in 1 .. n + 1 : i \in 1 .. n \/ i = n + 1
  BY <1>1
<1>5. 1 .. n \subseteq 1 .. n + 1 /\ n + 1 \in 1 .. n + 1
  BY <1>1
<1>6. \A i, j \in 1 .. n : s[i] = s[j] => i = j
  BY <1>1 DEF IsInjective
<1>7. \A i \in 1 .. n : s[i] # f
  BY <1>1
<1>8. \A i, j \in 1 .. n + 1 : a[i] = a[j] => i = j
  BY <1>2, <1>4, <1>6, <1>7
<1>9. IsInjective(a)
  BY <1>3, <1>8 DEF IsInjective
<1>10. \A g : g \in ToSet(a) <=> g \in ToSet(s) \cup {f}
  BY <1>1, <1>2, <1>3, <1>4, <1>5
<1> QED BY <1>9, <1>10 DEF a

\* The innermost module leaves the stack, and is not further out on it.
LEMMA Popped ==
    ASSUME TypeOK, stack # <<>>, IsInjective(stack)
    PROVE  /\ IsInjective(Front(stack)) /\ Last(stack) \in ToSet(stack)
           /\ ToSet(Front(stack)) = ToSet(stack) \ {Last(stack)}
<1> DEFINE n == Len(stack)
           a == Front(stack)
<1>1. /\ n \in Nat \ {0} /\ Last(stack) = stack[n] /\ a \in Seq(Paths)
      /\ Len(a) = n - 1 /\ \A i \in 1 .. n - 1 : a[i] = stack[i]
  BY Innermost
<1>2. /\ DOMAIN stack = 1 .. n
      /\ \A g : g \in ToSet(stack) <=> \E i \in 1 .. n : stack[i] = g
  BY OnStack DEF TypeOK
<1> HIDE DEF n, a
<1>3. /\ DOMAIN a = 1 .. n - 1
      /\ \A g : g \in ToSet(a) <=> \E i \in 1 .. n - 1 : a[i] = g
  BY <1>1, OnStack
<1>4. \A i \in 1 .. n : i \in 1 .. n - 1 \/ i = n
  BY <1>1
<1>5. 1 .. n - 1 \subseteq 1 .. n /\ n \in 1 .. n /\ n \notin 1 .. n - 1
  BY <1>1
<1>6. \A i, j \in 1 .. n : stack[i] = stack[j] => i = j
  BY <1>2 DEF IsInjective
<1>7. IsInjective(a)
  BY <1>1, <1>3, <1>5, <1>6 DEF IsInjective
<1>8. \A g : g \in ToSet(a) <=> g \in ToSet(stack) \ {Last(stack)}
  BY <1>1, <1>2, <1>3, <1>4, <1>5, <1>6
<1> QED BY <1>1, <1>2, <1>5, <1>7, <1>8 DEF a

\* The loader's steps and the end of a process leave no half-built module.
LEMMA LoaderKeeps ==
    ASSUME TypeOK, NoHalfBuilt,
           \/ Loads
           \/ evaluated \/ throw \/ catch
           \/ \E p \in Procs : die(p)
           \/ UNCHANGED loader
    PROVE  NoHalfBuilt'
<1>1. ASSUME NEW b \in Bases, NEW k \in Kinds, NEW f \in Files,
             load(b, k, f) \/ resolveOnly(b, k, f)
      PROVE  NoHalfBuilt'
  <2> DEFINE abs == <<ResolveMemo(b, k, f), f>>
  <2>1. UNCHANGED done
    BY <1>1 DEF load, resolveOnly
  <2>2. CASE UNCHANGED <<cache, stack>>
    BY <2>1, <2>2 DEF NoHalfBuilt
  <2>3. CASE ~UNCHANGED <<cache, stack>>
    <3>1. /\ ResolveMemo(b, k, f) # "none" /\ abs \notin cache
          /\ cache' = cache \cup {abs} /\ stack' = Append(stack, abs)
      BY <1>1, <2>3 DEF load, resolveOnly
    <3>2. abs \in Paths
      BY <3>1, FoundPlace
    <3> HIDE DEF abs
    <3>3. abs \notin ToSet(stack) /\ abs \notin done
      BY <3>1 DEF NoHalfBuilt
    <3>4. /\ IsInjective(Append(stack, abs))
          /\ ToSet(Append(stack, abs)) = ToSet(stack) \cup {abs}
      BY <3>2, <3>3, Pushed DEF TypeOK, NoHalfBuilt
    <3> QED BY <2>1, <3>1, <3>3, <3>4 DEF NoHalfBuilt
  <2> QED BY <2>2, <2>3
<1>2. CASE evaluated \/ throw
  <2>1. stack # <<>> /\ stack' = Front(stack)
    BY <1>2 DEF evaluated, throw
  <2>2. /\ IsInjective(Front(stack)) /\ Last(stack) \in ToSet(stack)
        /\ ToSet(Front(stack)) = ToSet(stack) \ {Last(stack)}
    BY <2>1, Popped DEF NoHalfBuilt
  <2>3. CASE evaluated
    <3>1. cache' = cache /\ done' = done \cup {Last(stack)}
      BY <2>3 DEF evaluated
    <3> QED BY <2>1, <2>2, <3>1 DEF NoHalfBuilt
  <2>4. CASE throw
    <3>1. cache' = cache \ {Last(stack)} /\ done' = done
      BY <2>4 DEF throw, Evicted
    <3> QED BY <2>1, <2>2, <3>1 DEF NoHalfBuilt
  <2> QED BY <1>2, <2>3, <2>4
<1>3. CASE catch
  BY <1>3 DEF NoHalfBuilt, catch
<1>4. ASSUME NEW p \in Procs, die(p)
      PROVE  NoHalfBuilt'
  <2>1. CASE p = Main
    <3>1. cache' = {} /\ stack' = <<>> /\ done' = {}
      BY <1>4, <2>1 DEF die
    <3>2. <<>> \in Seq(Paths) /\ Len(<<>>) = 0
      BY EmptySeq
    <3>3. DOMAIN <<>> = 1 .. 0 /\ 1 .. 0 = {}
      BY <3>2, OnStack
    <3>4. IsInjective(<<>>) /\ ToSet(<<>>) = {}
      BY <3>3 DEF IsInjective, ToSet
    <3> QED BY <3>1, <3>4 DEF NoHalfBuilt
  <2>2. CASE p # Main
    BY <1>4, <2>2 DEF die, loader, NoHalfBuilt
  <2> QED BY <2>1, <2>2
<1>5. CASE UNCHANGED loader
  BY <1>5 DEF loader, NoHalfBuilt
<1> QED BY <1>1, <1>2, <1>3, <1>4, <1>5 DEF Loads

-----------------------------------------------------------------------------
(* All of it.                                                              *)

Counters == starts \in 0 .. MaxStarts /\ edits \in 0 .. MaxEdits /\ own \subseteq Files

\* The bounds on restarts and edits, and the user's own scripts.
LEMMA CountersKept ==
    ASSUME TypeOK, [Next]_vars
    PROVE  Counters'
<1>1. MaxStarts \in Nat /\ MaxEdits \in Nat
  BY ConstantsAssumption
<1>2. starts \in 0 .. MaxStarts /\ edits \in 0 .. MaxEdits /\ own \subseteq Files
  BY DEF TypeOK
<1>3. ASSUME NEW p \in Procs, NEW i \in Pids, NEW v \in Vers, start(p, i, v)
      PROVE  Counters'
  <2>1. starts < MaxStarts /\ starts' = starts + 1 /\ UNCHANGED <<edits, own>>
    BY <1>3 DEF start
  <2> QED BY <1>1, <1>2, <2>1 DEF Counters
<1>4. ASSUME NEW f \in Files, edit(f)
      PROVE  Counters'
  <2>1. edits < MaxEdits /\ edits' = edits + 1 /\ UNCHANGED starts
    BY <1>4 DEF edit
  <2>2. own' \subseteq Files
    BY <1>2, <1>4 DEF edit
  <2> QED BY <1>1, <1>2, <2>1, <2>2 DEF Counters
<1>5. CASE UNCHANGED <<starts, edits, own>>
  BY <1>2, <1>5 DEF Counters
<1> QED
  BY <1>3, <1>4, <1>5
     DEF Next, vars, probe, giveUp, mkdir, writeFails, rename, clean, die, create,
         write, load, resolveOnly, evaluated, throw, catch

\* A step of the loader, or of the user, is not about the cache directory.
LEMMA DiskAlone ==
    ASSUME RequireInv, UNCHANGED <<proc, disk, reused>>
    PROVE  Disk'
BY DEF RequireInv, TypeOK, Disk, disk, PidsInv, UntarInv, ClosedInv, FloorExact, At,
       Ps, Running

\* Every step keeps the invariant.
LEMMA RequireStep ==
    ASSUME RequireInv, [Next]_vars
    PROVE  RequireInv'
<1> DEFINE Shared(p) == \/ probe(p) \/ giveUp(p) \/ mkdir(p) \/ writeFails(p)
                        \/ rename(p) \/ clean(p) \/ create(p) \/ write(p)
           Alone == \/ \E f \in Files : edit(f)
                    \/ Loads
                    \/ evaluated \/ throw \/ catch
                    \/ UNCHANGED vars
<1> USE DEF RequireInv
<1>1. Counters'
  BY CountersKept
<1>2. ASSUME NEW p \in Procs, Shared(p)
      PROVE  Disk' /\ LoaderOK' /\ NoHalfBuilt'
  <2>1. UNCHANGED loader
    BY <1>2 DEF probe, giveUp, mkdir, writeFails, rename, clean, create, write
  <2>2. Disk'
    BY <1>2, QuietDisk, MkdirDisk, RenameDisk, CleanDisk, CreateDisk, WriteDisk
  <2> QED BY <2>1, <2>2, LoaderTypes, LoaderKeeps
<1>3. ASSUME NEW p \in Procs, die(p)
      PROVE  Disk' /\ LoaderOK' /\ NoHalfBuilt'
  <2>1. LoaderOK'
    <3>1. <<>> \in Seq(Paths)
      BY EmptySeq
    <3> QED BY <1>3, <3>1 DEF die, LoaderOK, TypeOK, loader
  <2> QED BY <1>3, <2>1, QuietDisk, LoaderKeeps
<1>4. ASSUME NEW p \in Procs, NEW i \in Pids, NEW v \in Vers, start(p, i, v)
      PROVE  Disk' /\ LoaderOK' /\ NoHalfBuilt'
  <2>1. UNCHANGED loader
    BY <1>4 DEF start
  <2> QED BY <1>4, <2>1, StartDisk, LoaderTypes, LoaderKeeps
<1>5. ASSUME Alone
      PROVE  Disk' /\ LoaderOK' /\ NoHalfBuilt'
  <2>1. UNCHANGED <<proc, disk, reused>>
    BY <1>5 DEF Loads, edit, load, resolveOnly, evaluated, throw, catch, vars, disk
  <2>2. \/ Loads
        \/ evaluated \/ throw \/ catch
        \/ UNCHANGED loader
    BY <1>5 DEF edit, vars, loader
  <2> QED BY <2>1, <2>2, DiskAlone, LoaderTypes, LoaderKeeps
<1>6. Disk' /\ LoaderOK' /\ NoHalfBuilt'
  BY <1>2, <1>3, <1>4, <1>5 DEF Next, Loads
<1>7. TypeOK'
  BY <1>1, <1>6 DEF Disk, LoaderOK, Counters, TypeOK, Ps, Running
<1> QED BY <1>6, <1>7 DEF Disk

\* At first nothing runs, and there is no directory.
LEMMA RequireInit ==
    ASSUME Init
    PROVE  RequireInv
<1>1. <<>> \in Seq(Paths) /\ Len(<<>>) = 0
  BY EmptySeq
<1>2. DOMAIN <<>> = 1 .. 0 /\ 1 .. 0 = {}
  BY <1>1, OnStack
<1>3. IsInjective(<<>>) /\ ToSet(<<>>) = {}
  BY <1>2 DEF IsInjective, ToSet
<1>4. NoHalfBuilt
  BY <1>3 DEF Init, NoHalfBuilt
<1>5. NoProc.at = "none" /\ NoProc.file = NoFile /\ ~NoDir.there /\ NoDir \in Dirs
  BY DirShape DEF NoProc
<1>6. PidsInv /\ UntarInv /\ ClosedInv /\ FloorExact
  BY <1>5 DEF Init, PidsInv, UntarInv, ClosedInv, FloorExact, At
<1>7. Disk
  BY <1>5, <1>6 DEF Init, Disk, Ps
<1>8. Counters
  BY ConstantsAssumption DEF Init, Counters
<1>9. LoaderOK
  BY <1>1 DEF Init, LoaderOK
<1>10. TypeOK
  BY <1>7, <1>8, <1>9 DEF Disk, LoaderOK, Counters, TypeOK, Ps, Running
<1> QED BY <1>4, <1>6, <1>10 DEF RequireInv

\* The shared cache and the loader keep the inductive invariant, whichever
\* processes run, race, fail and die (packExtract, load).
THEOREM RequireSafe == Spec => []RequireInv
<1>1. Init => RequireInv
  BY RequireInit
<1>2. RequireInv /\ [Next]_vars => RequireInv'
  BY RequireStep
<1> QED BY <1>1, <1>2, PTL DEF Spec

\* Every variable keeps its type.
THEOREM RequireTypes == Spec => []TypeOK
<1>1. RequireInv => TypeOK
  BY DEF RequireInv
<1> QED BY <1>1, RequireSafe, PTL

\* A published directory is whole: packExtract renames only what one process
\* wrote to the end under its own id, and nothing writes it afterwards.
THEOREM FloorAlwaysExact == Spec => []FloorExact
<1>1. RequireInv => FloorExact
  BY DEF RequireInv
<1> QED BY <1>1, RequireSafe, PTL

\* load() leaves no half-built module in the cache, whatever throws in a chain
\* or a cycle of requires, and whatever happens to the files meanwhile.
THEOREM NothingHalfBuilt == Spec => []NoHalfBuilt
<1>1. RequireInv => NoHalfBuilt
  BY DEF RequireInv
<1> QED BY <1>1, RequireSafe, PTL
=============================================================================

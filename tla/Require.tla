------------------------------- MODULE Require -------------------------------
(***************************************************************************)
(* require.cpp: the unpacking of the built-in scripts into a cache         *)
(* directory that all processes of a user share, and the module loader.    *)
(* Processes start, run their steps in any interleaving, and die at any    *)
(* point; process ids are reused.                                          *)
(*                                                                         *)
(* The pack of a build is named by its content: a version.  The file       *)
(* system is external: mkdir takes an existing directory, creating a file  *)
(* empties it, renaming over a directory that is there fails.              *)
(***************************************************************************)
EXTENDS Integers, Sequences, FiniteSets, SequencesExt

CONSTANTS
    Procs,     \* processes
    Pids,      \* process ids
    Vers,      \* versions of the built-in scripts
    Files,     \* scripts, which are the modules
    First,     \* the version with all the scripts
    Gone,      \* the script only the first version has
    Main,      \* the process whose scripts are modelled
    Bases,     \* the directories whose modules call require(): "own", "floor"
               \* or "cwd", the "." of the top level
    Kinds,     \* how they name a module: "bare", or "near" (a ./path)
    MaxStarts, \* bound: processes started
    MaxEdits   \* bound: changes of the scripts of the user's own jsrc

ASSUME ConstantsAssumption ==
    /\ First \in Vers /\ Gone \in Files /\ Main \in Procs
    /\ Bases \subseteq {"own", "floor", "cwd"} /\ Kinds \subseteq {"bare", "near"}
    /\ MaxStarts \in Nat /\ MaxEdits \in Nat

VARIABLES
    proc,     \* the processes: where they are, id, version, files to write
    tmp,      \* the temporary directories .tmp-<pid>
    dir,      \* the published directories, by version
    starts,   \* processes started so far
    own,      \* the scripts in the user's own jsrc, which come first
    edits,    \* changes of them so far
    memo,     \* Main: resolved, where a module was found, by (baseDir, spec)
    cache,    \* Main: the modules in the cache, by path
    stack,    \* Main: the modules being evaluated, the innermost last
    throws,   \* Main: an exception is on its way out of require()
    done,     \* history, Main: modules whose evaluation ended well
    reused    \* history: a process found the temporary directory of a dead one

disk == <<tmp, dir>>
loader == <<memo, cache, stack, throws, done>>
vars == <<proc, tmp, dir, starts, own, edits, memo, cache, stack, throws, done, reused>>

Torn == "torn"
FilesOf(v) == IF v = First THEN Files ELSE Files \ {Gone}

\* A directory: what each of its files holds, the version it came with or Torn.
Dir(has) == [there |-> TRUE, has |-> has]
NoDir == [there |-> FALSE, has |-> <<>>]
Dirs == {NoDir} \cup
        {Dir(has) : has \in UNION {[fs -> Vers \cup {Torn}] : fs \in SUBSET Files}}
NoFile == "none"

\* The path of a module: the directory it is in and its name.  A path below
\* the working directory is relative, so that it is not the same as one in the
\* user's own jsrc, although it may lead to the same file.
Places == {"own", "floor", "cwd"}
Paths == Places \X Files
Keys == Bases \X Kinds \X Files

NoProc == [at |-> "none", pid |-> "none", ver |-> "none", todo |-> {}, file |-> NoFile]

TypeOK ==
    /\ proc \in [Procs -> {NoProc} \cup
         [at : {"probe", "mkdir", "untar", "clean", "up", "failed"},
          pid : Pids, ver : Vers, todo : SUBSET Files, file : Files \cup {NoFile}]]
    /\ tmp \in [Pids -> Dirs] /\ dir \in [Vers -> Dirs]
    /\ starts \in 0 .. MaxStarts /\ edits \in 0 .. MaxEdits
    /\ own \subseteq Files
    /\ memo \in [Keys -> Places \cup {"none"}]
    /\ cache \subseteq Paths /\ stack \in Seq(Paths) /\ throws \in BOOLEAN
    /\ done \subseteq Paths /\ reused \in BOOLEAN

Init ==
    /\ proc = [p \in Procs |-> NoProc]
    /\ tmp = [i \in Pids |-> NoDir] /\ dir = [v \in Vers |-> NoDir]
    /\ starts = 0 /\ own \in SUBSET Files /\ edits = 0
    /\ memo = [k \in Keys |-> "none"]
    /\ cache = {} /\ stack = <<>> /\ throws = FALSE /\ done = {}
    /\ reused = FALSE

At(p, where) == proc[p].at = where
Goes(p, where) == proc' = [proc EXCEPT ![p].at = where]

-----------------------------------------------------------------------------
(* packExtract.                                                            *)

\* A process of some version starts, with an id no live process has, and looks
\* up a bareword for the first time.
start(p, i, v) ==
    /\ At(p, "none") /\ starts < MaxStarts
    /\ \A q \in Procs : proc[q].pid # i
    /\ starts' = starts + 1
    /\ proc' = [proc EXCEPT ![p] = [at |-> "probe", pid |-> i, ver |-> v, todo |-> {},
                                    file |-> NoFile]]
    /\ UNCHANGED <<disk, own, edits, loader, reused>>

\* The cache probe: isDir(dir).
probe(p) ==
    /\ At(p, "probe")
    /\ Goes(p, IF dir[proc[p].ver].there THEN "up" ELSE "mkdir")
    /\ UNCHANGED <<disk, starts, own, edits, loader, reused>>

\* No pack, nowhere to unpack it, or it cannot be inflated or the directory made:
\* there will be no built-in scripts.
giveUp(p) ==
    /\ At(p, "probe") \/ At(p, "mkdir")
    /\ Goes(p, "failed")
    /\ UNCHANGED <<disk, starts, own, edits, loader, reused>>

\* Mutant: one temporary directory for all processes.
TmpOf_One(p) == CHOOSE i \in Pids : TRUE

\* The temporary directory of a process: .tmp-<pid>.
TmpOf(p) == proc[p].pid

\* Make the temporary directory, or find it there.
mkdir(p) ==
    /\ At(p, "mkdir")
    /\ LET t == TmpOf(p) IN
         /\ tmp' = [tmp EXCEPT ![t].there = TRUE]
         /\ reused' = (reused \/ tmp[t].there)
    /\ proc' = [proc EXCEPT ![p].at = "untar", ![p].todo = FilesOf(proc[p].ver)]
    /\ UNCHANGED <<dir, starts, own, edits, loader>>

With(d, f, c) ==
    Dir([g \in DOMAIN d.has \cup {f} |-> IF g = f THEN c ELSE d.has[g]])

\* packUntar, a file: create it (and the directories above it) ...
create(p) ==
    /\ At(p, "untar") /\ proc[p].file = NoFile
    /\ \E f \in proc[p].todo :
         /\ proc' = [proc EXCEPT ![p].file = f]
         /\ tmp' = [tmp EXCEPT ![TmpOf(p)] = With(@, f, Torn)]
    /\ UNCHANGED <<dir, starts, own, edits, loader, reused>>

\* ... and write it.
write(p) ==
    /\ At(p, "untar") /\ proc[p].file # NoFile
    /\ tmp' = [tmp EXCEPT ![TmpOf(p)] = With(@, proc[p].file, proc[p].ver)]
    /\ proc' = [proc EXCEPT ![p].todo = @ \ {proc[p].file}, ![p].file = NoFile]
    /\ UNCHANGED <<dir, starts, own, edits, loader, reused>>

\* An open or a write fails.
writeFails(p) ==
    /\ At(p, "untar") /\ proc[p].todo # {}
    /\ proc' = [proc EXCEPT ![p].at = "clean", ![p].file = NoFile]
    /\ UNCHANGED <<disk, starts, own, edits, loader, reused>>

\* io.rename(tmp, dir): it takes the place, or loses the race.
rename(p) ==
    /\ At(p, "untar") /\ proc[p].todo = {}
    /\ IF tmp[TmpOf(p)].there /\ ~dir[proc[p].ver].there
       THEN /\ dir' = [dir EXCEPT ![proc[p].ver] = tmp[TmpOf(p)]]
            /\ tmp' = [tmp EXCEPT ![TmpOf(p)] = NoDir]
            /\ Goes(p, "up")
       ELSE UNCHANGED disk /\ Goes(p, "clean")
    /\ UNCHANGED <<starts, own, edits, loader, reused>>

\* The catch: drop the temporary directory, then use the winner's or fail.
\* When the removal throws, that is the error.
clean(p) ==
    /\ At(p, "clean")
    /\ \/ /\ tmp' = [tmp EXCEPT ![TmpOf(p)] = NoDir]
          /\ Goes(p, IF dir[proc[p].ver].there THEN "up" ELSE "failed")
       \/ UNCHANGED tmp /\ Goes(p, "failed")
    /\ UNCHANGED <<dir, starts, own, edits, loader, reused>>

\* The process ends, or dies, wherever it is.
die(p) ==
    /\ ~At(p, "none")
    /\ proc' = [proc EXCEPT ![p] = NoProc]
    /\ IF p = Main
       THEN /\ memo' = [k \in Keys |-> "none"]
            /\ cache' = {} /\ stack' = <<>> /\ throws' = FALSE /\ done' = {}
       ELSE UNCHANGED loader
    /\ UNCHANGED <<disk, starts, own, edits, reused>>

-----------------------------------------------------------------------------
(* The loader, in the process Main once its jsrc stack is pinned.          *)

Pinned == At(Main, "up") \/ At(Main, "failed")

\* Somebody adds a script to the user's own jsrc, or removes one.
edit(f) ==
    /\ edits < MaxEdits /\ edits' = edits + 1
    /\ own' = IF f \in own THEN own \ {f} ELSE own \cup {f}
    /\ UNCHANGED <<proc, disk, starts, loader, reused>>

InFloor(f) == At(Main, "up") /\ f \in DOMAIN dir[proc[Main].ver].has

\* There is a file of that path.  The working directory is that of the user's
\* own scripts.
IsFile(place, f) == IF place = "floor" THEN InFloor(f) ELSE f \in own

\* resolveJsrc: the user's own first, the built-in scripts last.
ResolveJsrc(f) ==
    IF IsFile("own", f) THEN "own" ELSE IF InFloor(f) THEN "floor" ELSE "none"

\* resolve: a ./path is looked for next to the module that asks.
Resolve(b, k, f) ==
    IF k = "bare" THEN ResolveJsrc(f) ELSE IF IsFile(b, f) THEN b ELSE "none"

\* A ./path off the relative base "." is looked up every time.
Memoized(b, k) == ~(k = "near" /\ b = "cwd")

\* resolveMemo: where it was found the first time; not finding it is not kept.
ResolveMemo(b, k, f) ==
    IF memo[<<b, k, f>>] # "none" THEN memo[<<b, k, f>>] ELSE Resolve(b, k, f)

Remembered(b, k, f) ==
    IF Memoized(b, k)
    THEN [memo EXCEPT ![<<b, k, f>>] = ResolveMemo(b, k, f)]
    ELSE memo

\* require.resolve(spec), for any module's require function: it may outlive the
\* module.
resolveOnly(b, k, f) ==
    /\ Pinned /\ ~throws
    /\ memo' = Remembered(b, k, f)
    /\ throws' = (ResolveMemo(b, k, f) = "none")
    /\ UNCHANGED <<proc, disk, starts, own, edits, cache, stack, done, reused>>

\* load(spec, baseDir): a cached module returns what it exports by now.
\* Otherwise it is cached, then evaluated.  Not finding or not reading the file
\* throws.
load(b, k, f) ==
    /\ Pinned /\ ~throws
    /\ memo' = Remembered(b, k, f)
    /\ LET place == ResolveMemo(b, k, f)
           abs == <<place, f>> IN
       IF place # "none" /\ abs \in cache
       THEN UNCHANGED <<cache, stack, throws>>
       ELSE IF place # "none" /\ IsFile(place, f)
       THEN /\ cache' = cache \cup {abs}
            /\ stack' = Append(stack, abs)
            /\ UNCHANGED throws
       ELSE throws' = TRUE /\ UNCHANGED <<cache, stack>>
    /\ UNCHANGED <<proc, disk, starts, own, edits, done, reused>>

\* The innermost module has been evaluated.
evaluated ==
    /\ Pinned /\ ~throws /\ stack # <<>>
    /\ stack' = Front(stack)
    /\ done' = done \cup {Last(stack)}
    /\ UNCHANGED <<proc, disk, starts, own, edits, memo, cache, throws, reused>>

\* Mutant: a module that threw stays in the cache.
Evicted_Not(abs) == cache

\* The catch of load(): the module that threw leaves the cache.
Evicted(abs) == cache \ {abs}

\* The innermost module throws, or does not catch what it called threw.
throw ==
    /\ Pinned /\ stack # <<>>
    /\ cache' = Evicted(Last(stack))
    /\ stack' = Front(stack)
    /\ throws' = TRUE
    /\ UNCHANGED <<proc, disk, starts, own, edits, memo, done, reused>>

\* Whoever called require() catches it, or the program's top level reports it.
catch ==
    /\ Pinned /\ throws
    /\ throws' = FALSE
    /\ UNCHANGED <<proc, disk, starts, own, edits, memo, cache, stack, done, reused>>

Next ==
    \/ \E p \in Procs :
          \/ probe(p) \/ giveUp(p) \/ mkdir(p) \/ writeFails(p) \/ rename(p)
          \/ clean(p) \/ die(p)
          \/ \E i \in Pids, v \in Vers : start(p, i, v)
          \/ create(p) \/ write(p)
    \/ \E f \in Files : edit(f)
    \/ \E b \in Bases, k \in Kinds, f \in Files :
          load(b, k, f) \/ resolveOnly(b, k, f)
    \/ evaluated \/ throw \/ catch

Spec == Init /\ [][Next]_vars

-----------------------------------------------------------------------------
(* Properties.                                                             *)

\* A published directory holds every script of its version, whole, whichever
\* processes raced for it, failed or died on the way; and no other script,
\* unless somebody unpacked into the leavings of a dead process with its id.
FloorExact ==
    \A v \in Vers : dir[v].there =>
        /\ FilesOf(v) \subseteq DOMAIN dir[v].has
        /\ \A f \in FilesOf(v) : dir[v].has[f] = v
        /\ DOMAIN dir[v].has # FilesOf(v) => reused

\* A module in the cache has been evaluated to its end or is being evaluated,
\* once; and one whose evaluation ended stays: a throw anywhere in a chain or
\* a cycle of requires leaves no half-built module behind (JS-112).
NoHalfBuilt ==
    /\ IsInjective(stack)
    /\ cache = ToSet(stack) \cup done
    /\ ToSet(stack) \cap done = {}
=============================================================================

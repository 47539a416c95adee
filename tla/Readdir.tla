------------------------------- MODULE Readdir -------------------------------
(***************************************************************************)
(* io.readdir of io.cpp: one directory scan, one level or deep, that fills *)
(* an array or runs a callback inside the scan, whose answers prune,       *)
(* descend into, stop or abort the scan.  A "recur" answer starts a nested *)
(* scan from within the callback's own frame, so that a stop has to leave  *)
(* through every scan on the C stack.                                      *)
(*                                                                         *)
(* FILEScanDir and FILEDeepScanDir are external: they deliver the entries  *)
(* of a directory once each, in any order, take FILESKIP as "go on, do not *)
(* descend", and return any other code that is not OK at once.             *)
(***************************************************************************)
EXTENDS Integers, Sequences, SequencesExt, FiniteSets

CONSTANT N      \* entries below the scanned root

ASSUME EntriesAssumption == N \in Nat

Root == 0
Entries == 1 .. N
Directives == {"more", "skip", "recur", "enough", "throw"}

\* The trees over the entries, up to renaming: a parent is a directory with a
\* smaller number; a directory or a file may have a dot name.
Trees == {t \in [up : [Entries -> Root .. N], dir : SUBSET Entries, dot : SUBSET Entries] :
            \A n \in Entries : t.up[n] < n /\ t.up[n] \in t.dir \cup {Root}}

VARIABLES
    tree,       \* the directory tree below the root
    cb,         \* there is a callback
    recursive,  \* the deep scan runs
    hidden,     \* entries with a dot name are taken too
    stack,      \* the scans on the C stack: the path of a directory and the
                \* entries it has yet to deliver
    code,       \* what the scan or callback that just ended returned
    stop,       \* the callback asked for the end of the scan
    exception,  \* the callback threw
    out,        \* the names delivered to the callback or the array, in order
    result,     \* "idle", "scanning", or how readdir ended
    said        \* history: what the callback answered to each entry

readdirVars == <<tree, cb, recursive, hidden, stack, code, stop, exception, out,
                 result, said>>

options == <<tree, cb, recursive, hidden>>

Children(t, d) == {n \in Entries : t.up[n] = d}

\* A path is the entries it goes through, the scanned root first.
Paths == {<<Root>> \o p : p \in SeqOf(Entries, N)}

ReaddirTypeOK ==
    /\ tree \in Trees
    /\ cb \in BOOLEAN /\ recursive \in BOOLEAN /\ hidden \in BOOLEAN
    /\ stack \in Seq([path : Paths, left : SUBSET Entries])
    /\ code \in {"OK", "STOP", "FAIL"}
    /\ stop \in BOOLEAN /\ exception \in BOOLEAN
    /\ out \in Seq(Seq(Entries))
    /\ result \in {"idle", "scanning", "done", "threw", "failed"}
    /\ said \in [Entries -> Directives \cup {"-"}]

ReaddirInit ==
    /\ tree \in Trees
    /\ cb \in BOOLEAN /\ recursive \in BOOLEAN /\ hidden \in BOOLEAN
    /\ stack = <<>> /\ code = "OK" /\ stop = FALSE /\ exception = FALSE
    /\ out = <<>> /\ result = "idle"
    /\ said = [n \in Entries |-> "-"]

-----------------------------------------------------------------------------
(* The scan.                                                               *)

Scan(path) == [path |-> path, left |-> Children(tree, Last(path))]

\* JABCReaddirIsHidden: the base name alone decides.
IsHidden(n) == n \in tree.dot

\* JABCReaddirRel: the path below the original root.
Rel(full) == Tail(full)

\* JABCioReaddir: read the options, start the scan.
readdir ==
    /\ result = "idle"
    /\ result' = "scanning"
    /\ stack' = <<Scan(<<Root>>)>>
    /\ UNCHANGED <<options, code, stop, exception, out, said>>

\* The running scan hands out the next entry.
Hands(n) ==
    /\ result = "scanning" /\ code = "OK" /\ stack # <<>>
    /\ n \in Head(stack).left

Path(n) == Append(Head(stack).path, n)
Rest(n) == <<[Head(stack) EXCEPT !.left = @ \ {n}]>> \o Tail(stack)

\* FILESKIP: the hidden entry is left out, and is not descended into.
skipHidden(n) ==
    /\ Hands(n) /\ ~hidden /\ IsHidden(n)
    /\ stack' = Rest(n)
    /\ UNCHANGED <<options, code, stop, exception, out, result, said>>

\* FILE_SCAN_DEEP descends into a directory its callback did not skip.
Deep(n) == recursive /\ n \in tree.dir

\* JABCReaddirEmit: the array form takes every entry.
emit(n) ==
    /\ ~cb /\ Hands(n) /\ (hidden \/ ~IsHidden(n))
    /\ out' = Append(out, Rel(Path(n)))
    /\ stack' = IF Deep(n) THEN <<Scan(Path(n))>> \o Rest(n) ELSE Rest(n)
    /\ UNCHANGED <<options, code, stop, exception, result, said>>

\* JABCReaddirCall: a nested one-level scan, unless the scan is deep already.
Nested(n, d) == d = "recur" /\ ~recursive /\ n \in tree.dir

\* JABCReaddirCall and JABCReaddirDirective: the callback gets the name, then
\* its answer is obeyed.  A nested scan of a file fails.
call(n, d) ==
    /\ cb /\ Hands(n) /\ (hidden \/ ~IsHidden(n))
    /\ out' = Append(out, Rel(Path(n)))
    /\ said' = [said EXCEPT ![n] = d]
    /\ stop' = (stop \/ d = "enough")
    /\ exception' = (exception \/ d = "throw")
    /\ code' = CASE d \in {"enough", "throw"} -> "STOP"
                 [] d = "recur" /\ ~recursive /\ n \notin tree.dir -> "FAIL"
                 [] OTHER -> "OK"
    /\ stack' = (IF Nested(n, d) THEN <<Scan(Path(n))>> ELSE <<>>)
                \o (IF Deep(n) /\ d \in {"more", "recur"}
                    THEN <<Scan(Path(n))>> ELSE <<>>)
                \o Rest(n)
    /\ UNCHANGED <<options, result>>

\* A directory is exhausted: its scan returns OK to the one it is nested in.
leave ==
    /\ result = "scanning" /\ code = "OK" /\ stack # <<>>
    /\ Head(stack).left = {}
    /\ stack' = Tail(stack)
    /\ UNCHANGED <<options, code, stop, exception, out, result, said>>

\* Mutant: a stop ends the nested scan only.
Passed_Once(c) == "OK"

\* JABCReaddirCall: what a nested scan returned is passed on as it is.
Passed(c) == c

\* A scan returns a code that is not OK to its caller.
unwind ==
    /\ result = "scanning" /\ code # "OK" /\ stack # <<>>
    /\ stack' = Tail(stack)
    /\ code' = IF Len(stack) > 1 THEN Passed(code) ELSE code
    /\ UNCHANGED <<options, stop, exception, out, result, said>>

\* JABCioReaddir after the scan: an exception of the callback propagates, a
\* code other than the private one throws.
return ==
    /\ result = "scanning" /\ stack = <<>>
    /\ result' = IF exception THEN "threw" ELSE IF code = "FAIL" THEN "failed" ELSE "done"
    /\ UNCHANGED <<options, stack, code, stop, exception, out, said>>

ReaddirNext ==
    \/ readdir \/ leave \/ unwind \/ return
    \/ \E n \in Entries :
         skipHidden(n) \/ emit(n) \/ \E d \in Directives : call(n, d)

ReaddirSpec == ReaddirInit /\ [][ReaddirNext]_readdirVars

-----------------------------------------------------------------------------
(* Reference: which entries a scan reaches, told from the answers alone.   *)

Below(t, n) == {p \in SeqOf(Entries, N) :
                  /\ p # <<>> /\ Last(p) = n /\ t.up[Head(p)] = Root
                  /\ \A i \in 2 .. Len(p) : t.up[p[i]] = p[i - 1]}
NameOf(n) == CHOOSE p \in Below(tree, n) : TRUE

Shown(n) == hidden \/ n \notin tree.dot
Entered(n) == IF recursive THEN said[n] # "skip" ELSE said[n] = "recur"
Reached == {n \in Entries : LET p == NameOf(n) IN
              /\ \A i \in 1 .. Len(p) : Shown(p[i])
              /\ \A i \in 1 .. Len(p) - 1 : Entered(p[i])}

\* io.readdir hands out names below the scanned root, no name twice, a
\* directory before what is in it.  A scan that ends by itself has handed out
\* exactly the entries that are not hidden, nor below a hidden or skipped
\* directory, nor (one level) below one the callback did not "recur" into.
\* After "enough" or a throw, from however deep a nested scan, no further entry
\* is handed out, and a throw is what the call ends with.
ScanExact ==
    /\ IsInjective(out)
    /\ \A i \in 1 .. Len(out) :
         /\ Len(out[i]) > 0 /\ out[i] = NameOf(Last(out[i]))
         /\ Last(out[i]) \in Reached
         /\ Len(out[i]) > 1 => \E j \in 1 .. i - 1 : out[j] = Front(out[i])
         /\ said[Last(out[i])] \in {"enough", "throw"} => i = Len(out)
    /\ result = "done" /\ ~stop => {Last(out[i]) : i \in 1 .. Len(out)} = Reached
    /\ exception /\ result \notin {"idle", "scanning"} => result = "threw"
=============================================================================

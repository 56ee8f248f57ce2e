---------------------------- MODULE PatchEngine ----------------------------
(***************************************************************************)
(* The patch a modified file is written through (core/src/tools/patch.rs   *)
(* under ChangePlan): the diff of snapshot and target as one hunk from     *)
(* line 1, and the rebuild of the target from that hunk and the file as    *)
(* it is on disk when the patch is applied.                                *)
(*                                                                         *)
(* A text is its lines, whether it ends in a newline, and which lines end  *)
(* in a carriage return.  Of a line only its first character matters: hunk *)
(* lines are strings whose first character is the tag, and a context line  *)
(* is stored without one.                                                  *)
(***************************************************************************)
EXTENDS Integers, Sequences, FiniteSetsExt, SequencesExt

CONSTANTS
    Bodies,    \* what follows the first character
    Signs,     \* the signs a line of a file can begin with: "none", "-", "+"
    MaxLines   \* bound: lines of a file

ASSUME PatchAssumption == Signs \subseteq {"none", "-", "+"} /\ MaxLines \in Nat

VARIABLES
    backup,   \* the snapshot the patch is made from
    full_new, \* the declared target
    file,     \* the file on disk
    result    \* "prepared", "written" or "refused"

patchVars == <<backup, full_new, file, result>>

Empty == "empty"
Line == [sign : Signs, body : Bodies] \cup {[sign |-> "none", body |-> Empty]}
Blank(l) == l.sign = "none" /\ l.body = Empty

\* str::lines: the last line is followed by a newline or is not empty, and a
\* carriage return before a newline belongs to neither line.  One that no
\* newline follows does not occur in these texts.
Text ==
    {t \in [lines : UNION {[1..n -> Line] : n \in 0..MaxLines}, nl : BOOLEAN,
            cr : SUBSET (1..MaxLines)] :
        /\ t.lines = <<>> => ~ t.nl
        /\ t.lines # <<>> /\ Blank(Last(t.lines)) => t.nl
        /\ t.cr \subseteq DOMAIN t.lines
        /\ Len(t.lines) \in t.cr => t.nl}

----------------------------------------------------------------------------
(* create_patch *)

\* The two texts are walked in step: line i against line i, both without their
\* carriage returns.
DiffAt(old, new, i) ==
    IF i <= Len(old) /\ i <= Len(new) /\ old[i] = new[i]
    THEN <<[tag |-> "none", line |-> old[i]]>>
    ELSE (IF i <= Len(old) THEN <<[tag |-> "-", line |-> old[i]]>> ELSE <<>>)
      \o (IF i <= Len(new) THEN <<[tag |-> "+", line |-> new[i]]>> ELSE <<>>)

compute_diff(old, new) ==
    FlattenSeq([i \in 1..Max({Len(old), Len(new)}) |-> DiffAt(old, new, i)])

parse_hunks(diff) ==
    [lines |-> diff, old_count |-> Cardinality({i \in DOMAIN diff : diff[i].tag # "+"})]

----------------------------------------------------------------------------
(* apply *)

\* The first character of a hunk line: its tag or, on a context line, that of
\* the line itself.
First(h) == IF h.tag = "none" THEN h.line.sign ELSE h.tag

\* A tag is stripped; so is a plus sign that is part of a context line.
Kept(h) == IF h.tag = "none" /\ h.line.sign = "+" THEN [h.line EXCEPT !.sign = "none"] ELSE h.line

Output(h) == IF First(h) = "-" THEN <<>> ELSE <<Kept(h)>>

NewLines(hunk) == FlattenSeq([i \in DOMAIN hunk.lines |-> Output(hunk.lines[i])])

\* Trailing newlines are popped, up to a carriage return.
StripTrailing(lines, cr) ==
    SubSeq(lines, 1, Max({0} \cup {i \in DOMAIN lines : ~ Blank(lines[i]) \/ i \in cr}))

\* Mutant: what follows the hunk in the file is dropped.
Rebuilt_ignores_tail(base, hunk) ==
    IF hunk.lines = <<>> THEN base ELSE NewLines(hunk)

\* The hunk replaces the first old_count lines of the base, whatever they
\* hold; the rest of the base follows.  With no hunk line there is no hunk.
Rebuilt(base, hunk) ==
    IF hunk.lines = <<>> THEN base
    ELSE NewLines(hunk) \o SubSeq(base, Min({hunk.old_count, Len(base)}) + 1, Len(base))

\* Every line of a rebuild ends in a plain newline.
CarriageReturns(base, hunk) == IF hunk.lines = <<>> THEN base.cr ELSE {}

\* Mutant: the final newline is left as the line-based rebuild made it.
reconstruct_from_patch_newline(base, hunk, target) ==
    LET lines == Rebuilt(base.lines, hunk)
    IN  [lines |-> lines, nl |-> lines # <<>>, cr |-> CarriageReturns(base, hunk)]

reconstruct_from_patch(base, hunk, target) ==
    LET lines == Rebuilt(base.lines, hunk)
        cr == CarriageReturns(base, hunk)
    IN  IF target.nl THEN [lines |-> lines, nl |-> lines # <<>>, cr |-> cr]
        ELSE [lines |-> StripTrailing(lines, cr), nl |-> FALSE, cr |-> cr]

Patch == parse_hunks(compute_diff(backup.lines, full_new.lines))

\* The exactness gate: only the declared target is ever written.
apply ==
    LET new_content == reconstruct_from_patch(file, Patch, full_new)
    IN  /\ result = "prepared"
        /\ IF new_content = full_new
           THEN file' = new_content /\ result' = "written"
           ELSE file' = file /\ result' = "refused"
        /\ UNCHANGED <<backup, full_new>>

\* Someone writes the file after the staleness check.
OutsideEdit(t) ==
    /\ result = "prepared"
    /\ file = backup /\ t # file
    /\ file' = t
    /\ UNCHANGED <<backup, full_new, result>>

\* prepare has taken its snapshot and knows the target.
PatchInit ==
    /\ backup \in Text /\ full_new \in Text
    /\ file = backup
    /\ result = "prepared"

PatchNext == apply \/ \E t \in Text : OutsideEdit(t)

PatchSpec == PatchInit /\ [][PatchNext]_patchVars

----------------------------------------------------------------------------
(* Properties *)

\* A line unchanged at its place that begins with a tag character.
MarkedContext ==
    \E i \in DOMAIN backup.lines \cap DOMAIN full_new.lines :
        backup.lines[i] = full_new.lines[i] /\ backup.lines[i].sign # "none"

\* Exactness: whatever the file held when the patch was applied, and whatever
\* its lines look like, a patch that reports success has left exactly the
\* declared target.
ExactTarget == result = "written" => file = full_new

\* Completeness where no context line can be mistaken for a tag and the target
\* has no carriage return: applied to its own snapshot a patch always goes
\* through, for files with and without a final newline, with blank lines,
\* growing, shrinking or emptied, also when the edit takes carriage returns out.
\* With one in the target it never does, although str::lines hides it from the
\* diff (compute_diff, reconstruct_from_patch, the gate).
RoundTripsUnmarked ==
    [][/\ result' = "refused" /\ file = backup => MarkedContext \/ full_new.cr # {}
       /\ result' = "written" => full_new.cr = {}]_patchVars

\* The rebuild counts lines from the snapshot and takes the file as it is now:
\* what someone has added below the snapshot's last line meanwhile is in the
\* file that a successful patch leaves, or the patch is refused; only blank
\* lines at its end may go (reconstruct_from_patch, the gate in apply).
AddedLinesKept ==
    [][result' = "written" =>
          \A i \in DOMAIN file.lines :
              i > Len(backup.lines) /\ ~ Blank(file.lines[i]) =>
                  \E j \in DOMAIN file'.lines : file'.lines[j] = file.lines[i]]_patchVars

============================================================================

------------------------------- MODULE Images -------------------------------
(***************************************************************************)
(* `docs-cli workspace images check --apply`: the tree of images is made   *)
(* to agree with the topics of data/gh                                     *)
(* (internal/docs/workspace/images/check.go).  It removes duplicates,      *)
(* hides the directories no topic asks for, and moves stray files to       *)
(* ../.temp, one file operation at a time, from a list it made before the  *)
(* first.  A file operation may fail, and the command may be killed.  What *)
(* earlier runs left in ../.temp is still there.                           *)
(*                                                                         *)
(* A component of a path is <<name, n>>: n = 0 is the name itself, n = 1   *)
(* the name after a dot, n > 1 with a number too (.name.1).  A file's base *)
(* name is <<stem, chain>>: the numbers of its suffixes, <<1, 2>> for      *)
(* stem__1__2.png.  The order in which files of different names are met    *)
(* is left open.                                                           *)
(***************************************************************************)
EXTENDS Naturals, Sequences, FiniteSets, SequencesExt

CONSTANTS
  Expected,    \* collectExpectedImageDirs: one directory per topic
  Dirs,        \* the directories a tree may have, and
  Files        \* the files

Component == STRING \X Nat
Bases     == STRING \X Seq(STRING)

Root == <<>>

\* .temp beside the tree: no directory of the tree has a slash in its name.
Temp == <<<<"../temp", 1>>>>

ImagesAssumption ==
  /\ Expected \subseteq Dirs
  /\ IsFiniteSet(Dirs)
  /\ Dirs \subseteq Seq(Component) \ {<<>>}
  /\ \A d \in Dirs : d[1][1] # "../temp"
  /\ \A f \in Files : f = [dir |-> f.dir, base |-> f.base, id |-> f.id]
  /\ \A f \in Files : f.dir \in Dirs \cup {Root, Temp} /\ f.base \in Bases
  /\ \A f, g \in Files : f.id = g.id => f = g

Parents(d) == {SubSeq(d, 1, n) : n \in 1..(Len(d) - 1)}

VARIABLES
  dirs,      \* the directories there are, hidden ones too
  files,     \* the files, those of ../.temp too
  pc,        \* "idle", "remove", "hide" or "move"
  list,      \* result.ActualFiles
  extra,     \* result.ExtraDirs
  left,      \* what is left of the list the loop goes over
  before,    \* history: the directories of the scan, and its files
  settled    \* history: the last run was complete, and nothing failed

tree == <<dirs, files>>
run  == <<pc, list, extra, left>>
hist == <<before, settled>>
vars == <<tree, run, hist>>

Path(f) == [dir |-> f.dir, base |-> f.base]

Init ==
  /\ files \in {fs \in SUBSET Files : \A f, g \in fs : Path(f) = Path(g) => f = g}
  /\ dirs \in {ds \in SUBSET Dirs :
        /\ \A f \in files : f.dir \in ds \cup {Root, Temp}
        /\ \A d \in ds : Parents(d) \subseteq ds}
  /\ pc = "idle"
  /\ list = {} /\ extra = {} /\ left = {}
  /\ before = tree
  /\ settled = FALSE

-----------------------------------------------------------------------------
Visible(d) == \A n \in DOMAIN d : d[n][2] = 0

\* collectExistingFilesAndDirs skips what is hidden.
Existing    == {d \in dirs : Visible(d)}
ActualFiles == {Path(f) : f \in {g \in files : Visible(g.dir)}}

IsParentOfExpected(d) == \E e \in Expected : d \in Parents(e)

DirHasDirectFiles(d) == \E f \in ActualFiles : f.dir = d

\* A container of expected directories is extra only with files of its own.
ExtraDirs ==
  {d \in Existing : d \notin Expected /\ ~(IsParentOfExpected(d) /\ ~DirHasDirectFiles(d))}

(* RunImagesCheck up to applyFixes *)
Scan ==
  /\ pc = "idle"
  /\ pc' = "remove"
  /\ list' = ActualFiles /\ left' = ActualFiles
  /\ extra' = ExtraDirs
  /\ before' = tree
  /\ settled' = TRUE
  /\ UNCHANGED tree

-----------------------------------------------------------------------------
\* duplicateFileRe: name__NUMBER.ext, and the name without its last suffix
IsCopy(f)   == f.base[2] # <<>>
Original(f) == [f EXCEPT !.base = <<f.base[1], Front(f.base[2])>>]

There(f) == \E g \in files : Path(g) = f
Delete(f) == files' = {g \in files : Path(g) # f}

\* Any operation may fail; the loops go on without it.
Fail == settled' = FALSE /\ UNCHANGED tree

(* Mutant of RemoveDuplicate: nobody looks for the original. *)
RemoveDuplicateBlindly(f) ==
  /\ pc = "remove" /\ f \in left
  /\ ~(IsCopy(f) /\ Original(f) \in left)
  /\ left' = left \ {f}
  /\ IF IsCopy(f) /\ There(f)
     THEN Fail \/ (Delete(f) /\ UNCHANGED <<dirs, settled>>)
     ELSE UNCHANGED <<tree, settled>>
  /\ UNCHANGED <<pc, list, extra, before>>

(* removeDuplicateFiles: a copy goes if its original is there now; it is   *)
(* listed after it.                                                        *)
RemoveDuplicate(f) ==
  /\ pc = "remove" /\ f \in left
  /\ ~(IsCopy(f) /\ Original(f) \in left)
  /\ left' = left \ {f}
  /\ IF IsCopy(f) /\ There(Original(f))
     THEN Fail \/ (Delete(f) /\ UNCHANGED <<dirs, settled>>)
     ELSE UNCHANGED <<tree, settled>>
  /\ UNCHANGED <<pc, list, extra, before>>

\* The name that hides d: the first that is free.
Hidden(d) ==
  LET Named(n) == Front(d) \o <<<<Last(d)[1], n>>>>
  IN  Named(CHOOSE n \in 1..(Cardinality(dirs) + 1) :
              Named(n) \notin dirs /\ \A m \in 1..(n - 1) : Named(m) \in dirs)

\* What was under d is under e.
Under(p, d)     == Len(p) >= Len(d) /\ SubSeq(p, 1, Len(d)) = d
Moved(p, d, e)  == IF Under(p, d) THEN e \o SubSeq(p, Len(d) + 1, Len(p)) ELSE p

(* hideExtraDirs: a directory in one that is hidden already is not found;  *)
(* the walk lists a directory before what is in it.                        *)
HideExtraDir(d) ==
  /\ pc = "hide" /\ d \in left
  /\ Parents(d) \cap left = {}
  /\ left' = left \ {d}
  /\ IF d \in dirs
     THEN \/ Fail
          \/ /\ dirs'  = {Moved(p, d, Hidden(d)) : p \in dirs}
             /\ files' = {[f EXCEPT !.dir = Moved(@, d, Hidden(d))] : f \in files}
             /\ UNCHANGED settled
     ELSE UNCHANGED <<tree, settled>>
  /\ UNCHANGED <<pc, list, extra, before>>

(* moveExtraFiles: a file of that name in .temp is overwritten. *)
MoveExtraFile(f) ==
  /\ pc = "move" /\ f \in left
  /\ left' = left \ {f}
  /\ IF (f.dir = Root \/ f.dir \in extra) /\ There(f)
     THEN \/ Fail
          \/ /\ files' = {[g EXCEPT !.dir = IF Path(g) = f THEN Temp ELSE @] :
                            g \in {h \in files : ~(h.dir = Temp /\ h.base = f.base)}}
             /\ UNCHANGED <<dirs, settled>>
     ELSE UNCHANGED <<tree, settled>>
  /\ UNCHANGED <<pc, list, extra, before>>

(* applyFixes goes from one loop to the next. *)
NextLoop ==
  /\ pc # "idle" /\ left = {}
  /\ CASE pc = "remove" -> pc' = "hide" /\ left' = extra
       [] pc = "hide"   -> pc' = "move" /\ left' = list
       [] pc = "move"   -> pc' = "idle" /\ left' = {}
  /\ UNCHANGED <<tree, list, extra, hist>>

(* The command is killed. *)
Kill ==
  /\ pc # "idle"
  /\ pc' = "idle" /\ left' = {}
  /\ settled' = FALSE
  /\ UNCHANGED <<tree, list, extra, before>>

Next ==
  \/ Scan \/ NextLoop \/ Kill
  \/ \E f \in left : RemoveDuplicate(f) \/ MoveExtraFile(f)
  \/ \E d \in left : HideExtraDir(d)

Spec == Init /\ [][Next]_vars

-----------------------------------------------------------------------------
\* What may happen to a file of the scan.
Kept(f)        == \E g \in files : g.id = f.id /\ g.base = f.base
Duplicate(f)   == IsCopy(f) /\ \E o \in before[2] : Path(o) = Original(Path(f))
Overwritten(f) == \E g \in files : g.dir = Temp /\ g.base = f.base /\ g.id # f.id

(* A run deletes copies of files that were beside them, and loses, without *)
(* a word, what another file of the same base name goes over in .temp      *)
(* (check.go:253-255): a file that .temp had before the run, or else, only *)
(* when an operation has failed, one of the stray files themselves.        *)
LossesAreNamed ==
  \A f \in before[2] :
    Kept(f) \/ Duplicate(f) \/ (Overwritten(f) /\ (f.dir = Temp \/ ~settled))

(* One complete run settles the tree: the next finds no duplicate, no      *)
(* extra directory and no stray file.                                      *)
OneApplySettles ==
  settled /\ pc = "idle" =>
    /\ ExtraDirs = {}
    /\ \A f \in ActualFiles : f.dir # Root /\ ~(IsCopy(f) /\ There(Original(f)))

(* A directory a topic asks for disappears only inside one that holds a    *)
(* file of its own: containers are never hidden for nothing.               *)
OnlyStrayFilesHide ==
  \A d \in Expected : d \in before[1] /\ d \notin dirs =>
    \E p \in Parents(d), f \in before[2] : f.dir = p
=============================================================================

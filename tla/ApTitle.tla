------------------------------- MODULE ApTitle -------------------------------
(***************************************************************************)
(* ApTitles, as c1222aptitle.c reads and converts them.  A title is its tag, *)
(* the root an absolute one starts with, and the terms below the root; a    *)
(* term is encoded in one byte.                                             *)
(***************************************************************************)
EXTENDS Integers, SequencesExt

CONSTANT ApTitleLength      \* C1222_APTITLE_LENGTH, the size of a title's buffer

\* An element that is absent, or a conversion that failed; and the title of a
\* node that has none: its buffer is zero.
None  == [tag |-> "none", root |-> "none", name |-> <<>>]
Unset == [tag |-> "00", root |-> "none", name |-> <<>>]

Relative(tag, name)  == [tag |-> tag, root |-> "none", name |-> name]
Absolute(root, name) == [tag |-> "06", root |-> root, name |-> name]

\* C1222ApTitleRootMarch2006, C1222ApTitleRoot2008, and any other root.
RootLength(root) ==
    CASE root = "2006" -> 7 [] root = "2008" -> 8 [] root = "other" -> 5 [] root = "none" -> 0

ApTitles ==
    [tag : {"06", "0d", "80", "00"}, root : {"2006", "2008", "other", "none"}, name : Seq(Nat)]

EncodedLength(t) == 2 + RootLength(t.root) + Len(t.name)

IsRelative(t) == t.tag \in {"0d", "80"}
IsAbsolute(t) == t.tag = "06"

-----------------------------------------------------------------------------
\* ValidateACSEApTitle: at least one term, and the title fits its buffer.
ValidFor(t, relativeTag) ==
    /\ t.tag \in {"06", relativeTag}
    /\ EncodedLength(t) \in 3..ApTitleLength

RelativeTag(standard) == IF standard = "2008" THEN "80" ELSE "0d"

ValidateACSEFormat(t, standard) == ValidFor(t, RelativeTag(standard))

\* C1222ApTitle_Validate of a title read from a message of that standard.
Validate(t, standard) ==
    \/ ValidFor(t, "80")
    \/ standard # "2008" /\ ValidFor(t, "0d")

\* C1222ApTitle_MakeRelativeFrom: the table form, below the C12.22 root.
MakeRelativeFrom(t) ==
    IF ~IsAbsolute(t) THEN [t EXCEPT !.tag = IF @ = "80" THEN "0d" ELSE @]
    ELSE IF t.root \in {"2006", "2008"} /\ t.name # <<>> THEN Relative("0d", t.name)
    ELSE None

\* C1222ApTitle_MakeAbsoluteFrom: an absolute title is copied, whatever its root.
CanBeAbsolute(t, root) ==
    IsAbsolute(t) \/ 2 + RootLength(root) + Len(t.name) <= ApTitleLength

MakeAbsoluteFrom(t, root) ==
    IF IsAbsolute(t) THEN t
    ELSE IF CanBeAbsolute(t, root) THEN Absolute(root, t.name)
    ELSE Absolute(root, <<>>)

\* C1222ApTitle_Compare and a difference of 0.
SameTitle(t, u) ==
    /\ MakeRelativeFrom(t) # None
    /\ MakeRelativeFrom(t) = MakeRelativeFrom(u)

-----------------------------------------------------------------------------
\* C1222ApTitle_Is2ndBranchOf1st: the second title is strictly below the first.
IsBranchOf(t, branch) ==
    LET top   == MakeRelativeFrom(t)
        below == MakeRelativeFrom(branch)
    IN  /\ None \notin {top, below}
        /\ IsStrictPrefix(top.name, below.name)

\* C1222ApTitle_IsApTitleMyCommModule: <my title>.1 or <my title>.1.0.
IsApTitleMyCommModule(t, mine) ==
    /\ IsBranchOf(mine, t)
    /\ \E suffix \in {<<1>>, <<1, 0>>} : t.name = mine.name \o suffix

=============================================================================

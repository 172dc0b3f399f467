----------------------------- MODULE DataRules -----------------------------
(***************************************************************************)
(* The two readings of a directory of data, `data-cli check <domain>` and  *)
(* `data-cli duplicate <domain>` (internal/data/ops/usecase.go and         *)
(* internal/gh/domrules: check.go, dedup.go, domains.go).  The first       *)
(* parses a file into an AST and judges every field, the second decodes it *)
(* into a struct and compares the items: what one of them skips in silence *)
(* is to be reported by the other.                                         *)
(*                                                                         *)
(* A file is a document: a list of items, in which the user writes.  An    *)
(* item is a function from the keys it has to values; of a value only what *)
(* the checks tell apart is kept: "null", "" and "list" are themselves,    *)
(* "bad" is of the wrong form for its key, and any other is good; the      *)
(* value of `sub` is a list of items that have no `sub` of their own.      *)
(***************************************************************************)
EXTENDS Naturals, Sequences, FiniteSets

CONSTANTS
  Files,       \* the names of the files
  Items,       \* the items the user may write
  Domain,      \* the domain: "books", "music", "diary", "movie", ...
  MaxItems     \* bound: items per file

\* ContentFields, MusicFields and DiaryFields, as far as keys matter here
ContentFields == {"name", "author", "score", "readAt", "publishAt", "des", "record",
                  "sub", "table", "recite", "item", "url", "tags"}
MusicFields   == {"name", "author", "score", "publishAt", "des", "url", "tags", "record"}
DiaryFields   == {"date", "des", "score", "url"}

Forbidden == {"category"}

DataRulesAssumption ==
  /\ IsFiniteSet(Files)
  /\ Domain \in {"books", "movie", "music", "diary"}
  /\ MaxItems \in Nat

VARIABLES
  data,      \* the items of each file
  broken,    \* the files that are no YAML any more
  issues,    \* what the last check said of each file, and of which data
  report     \* what the last duplicate check said, and of which data

vars == <<data, broken, issues, report>>

\* The value of a field that is not there.
NoText == ""

Value(item, key) == IF key \in DOMAIN item THEN item[key] ELSE NoText

-----------------------------------------------------------------------------
\* ResolveScope with the domain's own scope, and AllowedFieldsForScope
Allowed ==
  CASE Domain = "music" -> MusicFields
    [] Domain = "diary" -> DiaryFields
    [] OTHER            -> ContentFields

\* checkFieldValueAST, `sub` excepted.  A null is of no form but a null.
FieldIssues(key, value) ==
  CASE key \in {"score", "readAt"} /\ value \in {"bad", "null", "list"} -> {"error"}
    [] key = "publishAt" /\ Domain # "music" /\ value \in {"bad", "null", "list"} -> {"error"}
    [] key \in {"record", "item", "table", "recite"} /\ value # "list" -> {"error"}
    [] key = "tags" /\ value # "list" -> {"warn"}
    [] OTHER -> {}

\* IsNullOrEmptyString
Empty(value) == value \in {"null", NoText}

\* checkKeyValueAST
KeyIssues(key, value) ==
  IF key \in Forbidden THEN {"error"}
  ELSE (IF key \in Allowed THEN {} ELSE {"warn"})
       \cup (IF Empty(value) /\ key # "des" THEN {"warn"} ELSE {})
       \cup FieldIssues(key, value)

\* The name is required everywhere but in a diary.
NameIssues(item) ==
  IF Domain # "diary" /\ "name" \notin DOMAIN item THEN {"error"} ELSE {}

\* checkMappingAST and checkSubFieldAST: the items of `sub` are items too.
MappingIssues(item) ==
  LET Flat(i) == NameIssues(i)
                 \cup UNION {KeyIssues(k, i[k]) : k \in DOMAIN i \ {"sub"}}
  IN  Flat(item)
      \cup (IF "sub" \notin DOMAIN item THEN {}
            ELSE (IF "sub" \in Allowed THEN {} ELSE {"warn"})
                 \cup UNION {Flat(item.sub[n]) : n \in DOMAIN item.sub})

\* checkFile
FileIssues(f) ==
  IF f \in broken THEN {"error"}
  ELSE UNION {MappingIssues(data[f][n]) : n \in DOMAIN data[f]}

-----------------------------------------------------------------------------
\* yamlItem: a field of another form fails the decoding of its whole file.
Decodes(f) ==
  /\ f \notin broken
  /\ \A n \in DOMAIN data[f] :
       /\ \A key \in {"name", "author", "url"} : Value(data[f][n], key) # "list"
       /\ Value(data[f][n], "score") \notin {"bad", "list"}
       /\ Value(data[f][n], "tags") \in {"list", "null", NoText}

\* An item is known by its file and its number.  A null is an empty string.
Text(x, key) ==
  LET value == Value(data[x[1]][x[2]], key) IN IF value = "null" THEN NoText ELSE value

Places == {x \in Files \X (1..MaxItems) : x[2] \in DOMAIN data[x[1]]}

\* parseDomainFiles and parseYAMLDocItems: the items that take part have a name.
Parsed == {x \in Places : Decodes(x[1]) /\ Text(x, "name") # NoText}

\* Those of S that agree with x on the keys.
Alike(x, S, keys) == {y \in S : \A key \in keys : Text(y, key) = Text(x, key)}

\* groupByURL: the groups of more than one
UrlGroups ==
  LET linked == {x \in Parsed : Text(x, "url") # NoText}
  IN  {g \in {Alike(x, linked, {"url"}) : x \in linked} : Cardinality(g) > 1}

\* urlMatchItems: by file and name, so that namesakes in a file are one
UrlMatched(x) ==
  \E y \in UNION UrlGroups : y[1] = x[1] /\ Text(y, "name") = Text(x, "name")

(* Mutant of NameAuthorGroups: an item with a URL is taken for caught. *)
NameAuthorGroupsUnlinked ==
  LET uncaught == {x \in Parsed : Text(x, "url") = NoText}
  IN  {g \in {Alike(x, Parsed, {"name", "author"}) \cap uncaught : x \in Parsed} :
         Cardinality(g) > 1}

\* groupByNameAuthor: of the groups of more than one, what no URL has caught
NameAuthorGroups ==
  LET uncaught == {x \in Parsed : ~UrlMatched(x)}
  IN  {g \in {Alike(x, Parsed, {"name", "author"}) \cap uncaught : x \in Parsed} :
         Cardinality(g) > 1}

-----------------------------------------------------------------------------
Nothing == [f \in Files |-> <<>>]

Init ==
  /\ data = Nothing
  /\ broken = {}
  /\ issues = [of |-> Nothing, found |-> [f \in Files |-> {}]]
  /\ report = [of |-> Nothing, groups |-> {}]

(* The user appends an item, or breaks a file. *)
Edit(f) ==
  /\ f \notin broken
  /\ \/ /\ Len(data[f]) < MaxItems
        /\ \E item \in Items : data' = [data EXCEPT ![f] = Append(@, item)]
        /\ UNCHANGED broken
     \/ /\ broken' = broken \cup {f}
        /\ UNCHANGED data
  /\ UNCHANGED <<issues, report>>

(* RunStructuredDataCheck *)
Check ==
  /\ issues' = [of |-> data, found |-> [f \in Files |-> FileIssues(f)]]
  /\ UNCHANGED <<data, broken, report>>

(* RunDuplicateCheck *)
FindDuplicates ==
  /\ report' = [of |-> data, groups |-> UrlGroups \cup NameAuthorGroups]
  /\ UNCHANGED <<data, broken, issues>>

Next == (\E f \in Files : Edit(f)) \/ Check \/ FindDuplicates

Spec == Init /\ [][Next]_vars

-----------------------------------------------------------------------------
(* An item the comparison leaves out for want of a name is one the check   *)
(* complains about: what is missing, null or empty for the struct is       *)
(* missing, null or empty for the AST.                                     *)
NamelessReported ==
  issues.of = data /\ Domain # "diary" =>
    \A x \in Places : Decodes(x[1]) /\ Text(x, "name") = NoText => issues.found[x[1]] # {}

(* Two items of one name and author never pass the duplicate check: it     *)
(* names one of them, with its twin or with another of its URL, although   *)
(* an item in a URL group is no longer compared by name.                   *)
EveryTwinIsTold ==
  report.of = data =>
    \A x, y \in Parsed :
      x # y /\ (\A key \in {"name", "author"} : Text(x, key) = Text(y, key))
        => \E z \in UNION report.groups :
             \E t \in {x, y} : z[1] = t[1] /\ Text(z, "name") = Text(t, "name")
=============================================================================

------------------------------- MODULE NameLists -------------------------------
(***************************************************************************)
(* The include and exclude lists of the code (utils/utils.go and           *)
(* utils/validations.go).  The code's slices may hold a name several       *)
(* times: overlapping include entries put a name in the list once each,    *)
(* and an exclude entry takes out one occurrence (RemoveItem), so that a   *)
(* name is left when more entries include than exclude it.  A ResourceSpec *)
(* is a kind and the names it matches, by equality or regular expression.  *)
(***************************************************************************)
EXTENDS Naturals, Sequences, FiniteSets

ResourceSpec(kinds, names) == [kind : kinds, matches : SUBSET names]

\* How many entries of a list of specs put a name of a kind in the result.
GetSubItemStrings(kind, n, specs) ==
    Cardinality({i \in DOMAIN specs : specs[i].kind = kind /\ n \in specs[i].matches})

\* How often a list holds a name.
Occurrences(n, list) == Cardinality({i \in DOMAIN list : list[i] = n})

\* An empty list of candidates stands for the include list itself.
GetResultantItems(allList, includeList, excludeList) ==
    LET included   == {includeList[i] : i \in DOMAIN includeList}
        candidates == IF allList = {} THEN included ELSE allList
    IN  {n \in candidates :
            (IF includeList = <<>> THEN 1 ELSE Occurrences(n, includeList))
                > Occurrences(n, excludeList)}

FindMatchedStrings(kind, allList, includeList, excludeList) ==
    {n \in allList :
        (IF includeList = <<>> THEN 1 ELSE GetSubItemStrings(kind, n, includeList))
            > GetSubItemStrings(kind, n, excludeList)}

=============================================================================

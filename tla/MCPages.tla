---- MODULE MCPages ----
(***************************************************************************)
(* Model-checking instances of Pages: two directories, two branches and    *)
(* sites with different rules.                                             *)
(***************************************************************************)
EXTENDS Pages

CONSTANTS alice, bob, staff

TwoBranches == [s \in {"@main", "@dev"} |-> IF s = "@main" THEN "main" ELSE "dev"]

RequestSegments == {"", "a", "b", "__ROOT__", "@main", "@dev"}

AliceAndBob == {[username |-> alice, roles |-> {staff}],
                [username |-> bob, roles |-> {}]}

Begins(segment) == {path \in Paths : path[1] = segment}

\* An intranet: the pages below /a/ are for the staff, but not for bob.
Intranet == <<
    [branches |-> {"dev"},
     rules |-> << [pages |-> Paths, allow |-> {staff}, deny |-> {}] >>],
    [branches |-> {"main", "dev"},
     rules |-> << [pages |-> Begins("a"), allow |-> {"AUTHENTICATED"}, deny |-> {bob}],
                  [pages |-> Begins("a") \cup Begins("b"), allow |-> {bob}, deny |-> {}] >>]
    >>

\* A public site, whose development branch is for everyone known.
Public == <<
    [branches |-> {"main"},
     rules |-> << [pages |-> Paths, allow |-> {"ANONYMOUS"}, deny |-> {}] >>],
    [branches |-> {"dev"}, rules |-> << >>]
    >>

TwoConfigs == [config \in {"intranet", "public"} |->
    IF config = "intranet" THEN Intranet ELSE Public]

\* The last one is below the directories searched for root sites.
Directories == { <<>>, <<"a">>, <<"__ROOT__">>, <<"a", "__ROOT__">>,
                 <<"a", "b", "a", "__ROOT__">> }

\* With $pages_site_root_uri declared by js_var, and without.
TwoDeployments == {[minDepth |-> 0, declared |-> TRUE], [minDepth |-> 1, declared |-> FALSE]}

\* What DirOf is: the segments of a path without the empty ones.
ASSUME DirOfSelects == \A path \in Paths :
    DirOf(path) = SelectSeq(path, LAMBDA segment : segment # "")
====

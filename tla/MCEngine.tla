------------------------------ MODULE MCEngine ------------------------------
(***************************************************************************)
(* The two ends of the normalize engine for TLC: a process builds one from *)
(* a file, or matches inputs with rules, and the variables of the other    *)
(* stay as they were initialised.                                          *)
(***************************************************************************)
EXTENDS EngineBuild, RadixMata

VARIABLE which
-----------------------------------------------------------------------------
\* The files: two or three groups whose lists of delimiters overlap within
\* a group and between groups, with the group sets that may name them; the same
\* with the sets in another order, with lines that belong nowhere; and sets that
\* name what no group is called, or one group where another's name begins so.
Set(kind) == <<[set |-> kind]>>
Item(name, value) == <<[item |-> name, value |-> value]>>

Common(text) == Set("common") \o Item("engine_size", 1) \o Item("text_mode", text)
Order(names, ess) == Set("group_set") \o Item("group_order", names)
                     \o Item("essential_group", ess) \o Item("group_delim_reuse", 1)
Grp(name, l) == Set("group") \o Item("name", name) \o Item("start_flag", l[1])
                \o Item("end_flag", l[2]) \o Item("seg_delim", l[3])
                \o Item("seg_in_order", l[4])
Rule == Set("rule") \o Item("match_rule", "m") \o Item("normal_rule", "n")

Delims == {<< <<"x">>, <<"y">>, <<>>, 1>>,
           << <<"x", "y">>, <<"x">>, <<"y", "x">>, 0>>,
           << <<"y", "x">>, <<"z">>, <<"x">>, 1>>}
Ends == << <<"^", "x">>, <<"z", "$">>, <<"z", "y">>, 0>>

Orders == {<<>>, Order(<<"A", "B">>, <<"B">>), Order(<<"B">>, <<"B">>),
           Order(<<"A">>, <<"B">>), Order(<<"C">>, <<"C">>),
           Order(<<"A", "B">>, <<"B", "A">>), Order(<<"AB", "B">>, <<"AB">>)}
Twice == Order(<<"B", "A", "B">>, <<"B", "B">>)

\* A third group, between a set nobody knows and an item nobody knows.
Third(l) == Set("groups") \o Item("remark", "r")
            \o Order(<<"C", "B", "A">>, <<"C", "A">>) \o Grp("C", l)

\* "AB" begins with "A".  ne_test/normalize_engine.cfg has the order title,title
\* with the essential_group 2, and describes the group html_tag too.
MCBeginnings == {<<"A", "AB">>}
Longer == Common(0) \o Order(<<"AB">>, <<"AB">>) \o Grp("A", Ends)
Shipped == Common(0) \o Order(<<"B", "B">>, <<"2">>) \o Grp("A", Ends) \o Grp("B", Ends)

MCFiles ==
    {Common(0) \o o \o Grp("A", a) \o Grp("B", b) \o Rule :
        o \in Orders, a \in Delims \cup {Ends}, b \in Delims \cup {Ends}}
    \cup {Common(0) \o Twice \o Grp("A", a) \o Grp("B", b) \o Rule :
             a \in Delims, b \in Delims}
    \cup {Grp("B", b) \o Common(t) \o Third(a) \o Order(<<"B", "A">>, <<"A">>)
             \o Item("essential_group", <<"B">>) \o Grp("A", a) :
             a \in Delims, b \in Delims, t \in {0, 1}}
    \cup {Longer \o Grp("AB", l) : l \in Delims}
    \cup {Shipped, Common(0) \o Order(<<"AB", "B">>, <<"B">>) \o Grp("A", Ends) \o Grp("B", Ends)}
    \cup {Item("engine_size", 1) \o Common(1), Common(0) \o Rule, Third(Ends),
          Common(1) \o Grp("A", << <<"^">>, <<"$">>, <<>>, 1>>)}

ShippedFile == {Shipped}

MCPoolSizes == 0 .. 5 \cup {9, 12, 17, 22, 27, 30, 33, 36, 39, 42, 45, 48, 51, 80}

\* Up to three rules at a time of a pool that has wildcards in every place and
\* rules that share their beginnings, and every input over two letters up to a
\* length at which two wildcards may share it in several ways.
Words1To(n) == UNION {[1..i -> {1, 2}] : i \in 1..n}
Pool == {<<0>>, <<1>>, <<1, 0>>, <<0, 1>>, <<1, 2>>, <<1, 0, 2>>, <<0, 2, 0>>,
         <<1, 2, 0, 1>>, <<1, 0, 2, 0, 1>>, <<0, 1, 0, 2, 1>>}
RuleSetsOf(n) == {R \in SUBSET Pool : Cardinality(R) \in 1..n}
MCRuleSets == RuleSetsOf(3)
OneRule == {{<<1>>}}
MCInputs == Words1To(4)
-----------------------------------------------------------------------------
EngineInit ==
    /\ \/ which = "build" /\ rules \in OneRule
       \/ which = "match" /\ file = Common(0) \o Rule /\ pool_size = 0
    /\ Init /\ RmInit

\* A build ends; the matcher is always there for another input.
Ended == /\ which = "build" /\ pc \in {"null", "leaked", "crashed"}
         /\ UNCHANGED <<vars, rm_vars>>

EngineNext ==
    /\ \/ which = "build" /\ Next /\ UNCHANGED rm_vars
       \/ which = "match" /\ RmNext /\ UNCHANGED vars
       \/ Ended
    /\ UNCHANGED which

EngineSpec == EngineInit /\ [][EngineNext]_<<which, vars, rm_vars>>
-----------------------------------------------------------------------------
\* ne_test/normalize_engine.cfg:47 of essential_group: the groups that must be
\* there are marked by their number in the order and not by name, as the second
\* title is by the 2 of line 50 (SortSet compares names).
Numerals == <<"1", "2", "3">>
EssentialByNumber ==
    \A k \in 1 .. NrSets(file, "group_set") :
       LET numbers == ToSet(Written(file, "group_set", k, "essential_group"))
       IN k <= Len(grp_set) /\ numbers \subseteq ToSet(Numerals) =>
            \A m \in DOMAIN grp_set[k].ess_grps :
               grp_set[k].ess_grps[m] <=> Numerals[m] \in numbers
=============================================================================

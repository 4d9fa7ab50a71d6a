---------------------------- MODULE ReadConfig ----------------------------
(***************************************************************************)
(* read_config of config.c with the tables of normalize_engine.c.  A file  *)
(* is a sequence of lines, each a [set] or an item with its value.  The    *)
(* first pass counts the sets of each kind, then there is an array for     *)
(* each kind, and the second pass fills the arrays: an item goes to the    *)
(* set that was opened last, even if a set of an unknown kind has come in  *)
(* between.  Arrays and strings are pieces of the pool, one unit each, an  *)
(* array for no set included.  A read that fails leaves its file open.     *)
(*                                                                         *)
(* The reading of characters is left out: a list is a sequence of names, a *)
(* line that is neither set nor item has no trace.                         *)
(***************************************************************************)
EXTENDS SequencesExt, StackPool

CONSTANTS Files, NULL

Kinds == <<"common", "group_set", "group", "rule">>

ItemsOf ==                              \* g_config
    [common |-> {"engine_size", "text_mode"},
     group_set |-> {"group_order", "essential_group", "group_delim_reuse"},
     group |-> {"name", "start_flag", "end_flag", "seg_delim", "seg_in_order"},
     rule |-> {"match_rule", "normal_rule"}]

StringItems == {"group_order", "essential_group", "name", "start_flag",
                "end_flag", "seg_delim", "match_rule", "normal_rule"}

VARIABLES file, pc, spool,
          line,     \* the line, or the kind, that is next
          nr_sets,  \* of each kind
          cfgs,     \* the array of each kind
          current,  \* <<kind, index>> of the set opened last
          open      \* the uses of the file whose handles are open

config == <<file, line, nr_sets, cfgs, current>>

ConfigInit ==
    /\ file \in Files /\ line = 1
    /\ nr_sets = [k \in DOMAIN ItemsOf |-> 0]
    /\ cfgs = [k \in DOMAIN ItemsOf |-> <<>>]
    /\ current = NULL /\ open = {}

IsSet(l) == "set" \in DOMAIN l
IsKnown(l) == IsSet(l) /\ l.set \in DOMAIN ItemsOf

\* On to the next line, and after the last one to the next phase.
Advance(last, phase) ==
    /\ line' = IF line = last THEN 1 ELSE line + 1
    /\ pc' = IF line = last THEN phase ELSE pc

OpenConfig ==
    /\ pc = "open"
    /\ \/ pc' = "count" /\ open' = open \cup {"config"}
       \/ pc' = "out" /\ UNCHANGED open          \* the file cannot be opened
    /\ UNCHANGED <<config, spool>>

OneMore(kind) == nr_sets' = [nr_sets EXCEPT ![kind] = @ + 1]

CountSet ==
    /\ pc = "count"
    /\ \/ IsKnown(file[line]) /\ OneMore(file[line].set)
       \/ ~IsKnown(file[line]) /\ UNCHANGED nr_sets
    /\ Advance(Len(file), "alloc")
    /\ UNCHANGED <<file, spool, cfgs, current, open>>

\* When there is no room for one of the later arrays, those before it, which
\* are pieces of the pool, are passed to free.  Nobody closes the file.
AllocSets ==
    LET kind == Kinds[line]
    IN /\ pc = "alloc"
       /\ \/ /\ SpFits(spool, 1)
             /\ spool' = SpAlloc(spool, 1)
             /\ cfgs' = [cfgs EXCEPT ![kind] = [n \in 1 .. nr_sets[kind] |->
                                                 [i \in ItemsOf[kind] |-> NULL]]]
             /\ nr_sets' = [nr_sets EXCEPT ![kind] = 0]
             /\ Advance(Len(Kinds), "defaults")
          \/ /\ ~SpFits(spool, 1)
             /\ pc' = IF line = 1 THEN "out" ELSE "crashed"
             /\ UNCHANGED <<spool, cfgs, nr_sets, line>>
       /\ UNCHANGED <<file, current, open>>

\* set_default_config: a string for each wildcard, as far as there is room.
NrWildcards == 4
SetDefaults ==
    /\ pc = "defaults" /\ pc' = "read"
    /\ \E n \in 0 .. NrWildcards :
          /\ SpFits(spool, n)
          /\ n = NrWildcards \/ ~SpFits(spool, n + 1)
          /\ spool' = SpAlloc(spool, n)
    /\ UNCHANGED <<config, open>>

\* The index of the set that opens: current_item_cfg.
Opened(kind) == nr_sets[kind] + 1

OpenSet(l) ==
    /\ IsSet(l)
    /\ \/ /\ IsKnown(l)
          /\ current' = <<l.set, Opened(l.set)>>
          /\ OneMore(l.set)
       \/ ~IsKnown(l) /\ UNCHANGED <<current, nr_sets>>
    /\ Advance(Len(file), "sort")
    /\ UNCHANGED <<spool, cfgs>>

\* An item before the first set is looked up through a NULL current_set.
ReadItem(l) ==
    /\ ~IsSet(l)
    /\ \/ /\ current = NULL
          /\ pc' = "crashed"
          /\ UNCHANGED <<spool, cfgs, line>>
       \/ /\ current # NULL /\ l.item \notin ItemsOf[current[1]]
          /\ Advance(Len(file), "sort")
          /\ UNCHANGED <<spool, cfgs>>
       \/ LET units == IF l.item \in StringItems THEN 1 ELSE 0
          IN /\ current # NULL /\ l.item \in ItemsOf[current[1]]
             /\ \/ /\ SpFits(spool, units)
                   /\ spool' = IF units = 1 THEN SpAlloc(spool, 1) ELSE spool
                   /\ cfgs' = [cfgs EXCEPT
                                 ![current[1]][current[2]][l.item] = l.value]
                   /\ Advance(Len(file), "sort")
                \/ /\ ~SpFits(spool, units)
                   /\ pc' = "out"
                   /\ UNCHANGED <<spool, cfgs, line>>
    /\ UNCHANGED <<nr_sets, current>>

\* The file is closed at its end, and only there: not when an item has failed.
ReadLine ==
    /\ pc = "read"
    /\ OpenSet(file[line]) \/ ReadItem(file[line])
    /\ open' = IF pc' = "sort" THEN open \ {"config"} ELSE open
    /\ UNCHANGED file

ReadConfigStep == OpenConfig \/ CountSet \/ AllocSets \/ SetDefaults \/ ReadLine
-----------------------------------------------------------------------------
\* What a file says, for the properties: an item of the n-th set of a kind has
\* the value of the last such line before the next set of a known kind.
SetLines(f, kind) == {l \in DOMAIN f : IsKnown(f[l]) /\ f[l].set = kind}
NrSets(f, kind) == Cardinality(SetLines(f, kind))

Top(f, kind, n) == CHOOSE l \in SetLines(f, kind) :
                      Cardinality({m \in SetLines(f, kind) : m <= l}) = n

Written(f, kind, n, item) ==
    LET top == Top(f, kind, n)
        mine == {m \in DOMAIN f :
                   /\ m > top /\ \A x \in top + 1 .. m : ~IsKnown(f[x])
                   /\ ~IsSet(f[m]) /\ f[m].item = item}
    IN IF mine = {} THEN NULL ELSE f[Max(mine)].value

\* Every set of a file has the lists that are gone through without asking for
\* them, and names an essential group; every group has a name of its own.
Lists == <<"start_flag", "end_flag", "seg_delim">>      \* DT_START, ...
SetLists == {"group_order", "essential_group"}
IsList(s) == Len(s) \in Nat /\ s = [i \in 1 .. Len(s) |-> s[i]]

ASSUME FilesAreComplete ==
    \A f \in Files :
       /\ IsList(f)
       /\ \A k \in 1 .. NrSets(f, "group_set") : \A item \in SetLists :
             IsList(Written(f, "group_set", k, item))
       /\ \A k \in 1 .. NrSets(f, "group_set") :
             Written(f, "group_set", k, "essential_group") # <<>>
       /\ \A g \in 1 .. NrSets(f, "group") : \A item \in ToSet(Lists) :
             IsList(Written(f, "group", g, item))
       /\ \A g \in 1 .. NrSets(f, "group") : Written(f, "group", g, "name") # NULL
       /\ \A g, h \in 1 .. NrSets(f, "group") :
             Written(f, "group", g, "name") = Written(f, "group", h, "name") => g = h
=============================================================================

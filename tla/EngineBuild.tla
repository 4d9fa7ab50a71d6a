---------------------------- MODULE EngineBuild ----------------------------
(***************************************************************************)
(* build_normalize_engine and destroy_normalize_engine: from a file to the *)
(* group sets and the delimiters that the matcher works with.  The engine  *)
(* lives in one block of memory, spool, whose pieces it never gives back   *)
(* but for the spare pattern of each list of delimiters; a second block,   *)
(* tpool, and a second automaton serve the building only.                  *)
(*                                                                         *)
(* A delimiter string has one pattern_t, however many groups of however    *)
(* many sets it delimits; the pattern points to an index with an entry for *)
(* each group set, and the entry to an array that tells for each group of  *)
(* the set what the string is to it.  mem holds what patterns, strings,    *)
(* indices and arrays contain, by address, so a piece given out twice      *)
(* would lose its contents.                                                *)
(*                                                                         *)
(* Every piece takes one unit of spool.  tpool has the same size in bytes: *)
(* it holds a node of the tree for each string, and may be full at any     *)
(* delimiter (TreeIsFull), but not before, when it holds next to nothing.  *)
(* Bounds on the files: there is one [common]; every set has its lists and *)
(* an essential group, and every group a name of its own                   *)
(* (FilesAreComplete); no lone set that names a group twice has a ^ or $;  *)
(* and there are no more group sets than groups (FewSets): the arrays for  *)
(* the sets, and for the groups of a lone set, have an element for each    *)
(* group.  Beginnings tells which names begin with which others.           *)
(* The automata (acsmx2.c) may be refused when they are made; that they    *)
(* have no memory for a pattern, which ends the program, is left out.      *)
(***************************************************************************)
EXTENDS ReadConfig

CONSTANTS PoolSizes, Beginnings

ASSUME PoolSizesNat == PoolSizes \subseteq Nat
ASSUME NullIsNoAddress == NULL \notin Int

VARIABLES pool_size,
          live,         \* the blocks and automata that are allocated
          grp_set,      \* model->grp_set
          mem,          \* what the pieces of spool contain
          tree,         \* ne_arg->pat_tree: the pattern of each string
          delim_ac,     \* what has been put into model->delim_ac
          seg_pat,      \* the first segment delimiter of each group
          special,      \* head_grps and tail_grps have been allocated
          at,           \* where parse_delims is: set, group, list, item
          pat           \* the spare pattern of parse_group_delim_string

model == <<grp_set, mem, tree, delim_ac, seg_pat, special>>
vars == <<config, pc, spool, open, pool_size, live, model, at, pat>>

\* The first of the groups whose names begin a name (add_group_flag): the name
\* is compared as far as the group's goes.
Begins(a, b) == a = b \/ <<a, b>> \in Beginnings
CountsFor(names, g, name) == /\ Begins(names[g], name)
                             /\ \A h \in 1 .. g - 1 : ~Begins(names[h], name)

\* The names in a file, and the sets that it makes: one for each group that no
\* name in a set counts for.
FileNames == [g \in 1 .. NrSets(file, "group") |-> Written(file, "group", g, "name")]
NamedGroups == UNION {ToSet(Written(file, "group_set", k, "group_order")) :
                         k \in 1 .. NrSets(file, "group_set")}
Uncounted == {g \in DOMAIN FileNames : \A name \in NamedGroups : ~CountsFor(FileNames, g, name)}
FewSets == NrSets(file, "group_set") + Cardinality(Uncounted) <= NrSets(file, "group")

Init ==
    /\ ConfigInit /\ FewSets /\ pc = "start"
    /\ pool_size \in PoolSizes /\ spool = SpInit(0)
    /\ live = {}
    /\ grp_set = <<>> /\ mem = <<>> /\ tree = <<>> /\ delim_ac = {}
    /\ seg_pat = <<>> /\ special = FALSE
    /\ at = [i |-> 1, j |-> 1, list |-> 1, n |-> 1] /\ pat = NoPiece

\* The file is opened, and on no way out of get_engine_size closed.
GetEngineSize ==
    /\ pc = "start"
    /\ \/ /\ open' = open \cup {"size"}
          /\ pc' = IF \E l \in DOMAIN file : /\ ~IsSet(file[l])
                                             /\ file[l].item = "engine_size"
                   THEN "arg" ELSE "null"
       \/ pc' = "null" /\ UNCHANGED open          \* the file cannot be opened
    /\ UNCHANGED <<config, spool, pool_size, live, model, at, pat>>

\* ne_arg_init: rm_process_arg puts a node into spool, and does not ask
\* whether there was room for it.  Without memory for the automaton of the
\* rules both blocks are lost.
ArgInit ==
    /\ pc = "arg"
    /\ \/ pc' = "null" /\ UNCHANGED <<spool, live>>     \* no memory for them
       \/ /\ pc' = "leaked"
          /\ live' = {"spool", "tpool"}
          /\ UNCHANGED spool
       \/ /\ live' = {"spool", "tpool", "rule_ac"}
          /\ spool' = SpAlloc(SpInit(pool_size), 1)
          /\ pc' = IF pool_size > 0 THEN "model" ELSE "crashed"
    /\ UNCHANGED <<config, open, pool_size, model, at, pat>>

\* Without room for the model itself, the clean-up reads through NULL; without
\* its automaton, it frees what model->memory happens to be.
ModelInit ==
    /\ pc = "model"
    /\ \/ /\ SpFits(spool, 1)
          /\ spool' = SpAlloc(spool, 1)
          /\ live' = live \cup {"delim_ac"}
          /\ pc' = "open"
       \/ /\ live' = live \ {"rule_ac", "tpool"}
          /\ pc' = "crashed"
          /\ UNCHANGED spool
    /\ UNCHANGED <<config, open, pool_size, model, at, pat>>

ReadNeConfig == ReadConfigStep /\ UNCHANGED <<pool_size, live, model, at, pat>>
-----------------------------------------------------------------------------
Group == cfgs["group"]
GroupSet == cfgs["group_set"]
Ids == DOMAIN Group
Names == [g \in Ids |-> Group[g].name]
IdOf(name) == CHOOSE g \in Ids : Group[g].name = name
Ordered(k) == ToSet(GroupSet[k].group_order)
Flagged == {g \in Ids : \E k \in DOMAIN GroupSet : \E name \in Ordered(k) :
                           CountsFor(Names, g, name)}

\* What the later steps leave alone.
Keeps == UNCHANGED <<file, line, nr_sets, cfgs, current, open, pool_size, live>>

\* sort_cfg_group, first the counting (add_group_flag) and the allocations.  An
\* empty order is one empty name, which no group's begins.
AllCounted == \A k \in DOMAIN GroupSet :
                /\ GroupSet[k].group_order # <<>>
                /\ \A name \in Ordered(k) : \E g \in Ids : Begins(Names[g], name)

CountGroups ==
    LET pieces == 2 + 2 * Len(GroupSet)
    IN /\ pc = "sort"
       /\ \/ /\ SpFits(spool, pieces) /\ AllCounted
             /\ spool' = SpAlloc(spool, pieces)
             /\ seg_pat' = [g \in Ids |-> NULL]
             /\ pc' = "sets"
          \/ /\ ~SpFits(spool, pieces) \/ ~AllCounted
             /\ pc' = "out"
             /\ UNCHANGED <<spool, seg_pat>>
       /\ Keeps
       /\ UNCHANGED <<grp_set, mem, tree, delim_ac, special, at, pat>>

\* The essential group that is looked for after one of the order has been
\* compared: the names of essential_group come in the order of the groups.
LookForAll(next, same) == next + 1      \* defect: each is compared once
LookFor(next, same) == IF same THEN next + 1 ELSE next

Essential(order, names) ==
    LET looked[j \in 0 .. Len(order)] ==
          IF j = 0 THEN 1
          ELSE LookFor(looked[j - 1], /\ looked[j - 1] <= Len(names)
                                      /\ order[j] = names[looked[j - 1]])
    IN [j \in DOMAIN order |-> /\ looked[j - 1] <= Len(names)
                               /\ order[j] = names[looked[j - 1]]]

GrpSet(grps, ess_grps, reuse) ==
    [grps |-> grps, ess_grps |-> ess_grps, group_delim_reuse |-> reuse,
     disorder_seg |-> \E j \in DOMAIN grps : Group[grps[j]].seg_in_order = 0]

\* Each name that is a group's puts the group into the next place of the set; a
\* name that a group's only begins puts nothing there, and the last places of the
\* set keep what the memory held, to be taken for groups later on.
IsGroup(name) == \E g \in Ids : Group[g].name = name
Found(order) == [j \in DOMAIN order |-> IF IsGroup(order[j]) THEN order[j] ELSE NULL]

SortSet ==
    LET k == Len(grp_set) + 1
        order == GroupSet[k].group_order
        allFound == \A name \in Ordered(k) : IsGroup(name)
        ess == Essential(Found(order), GroupSet[k].essential_group)
    IN /\ pc = "sets" /\ k <= Len(GroupSet)
       /\ \/ /\ allFound
             /\ grp_set' = Append(grp_set,
                   GrpSet([j \in DOMAIN order |-> IdOf(order[j])], ess,
                          GroupSet[k].group_delim_reuse))
             /\ pc' = IF \E j \in DOMAIN order : ess[j] THEN pc ELSE "out"
          \/ /\ ~allFound
             /\ pc' = IF \E j \in DOMAIN order : ess[j] THEN "crashed" ELSE "out"
             /\ UNCHANGED grp_set
       /\ Keeps
       /\ UNCHANGED <<spool, mem, tree, delim_ac, seg_pat, special, at, pat>>

\* The groups that no set names get a set each.
Unnamed == Ids \ Flagged
LeftOver == CHOOSE s \in [1 .. Cardinality(Unnamed) -> Unnamed] :
               \A i, j \in DOMAIN s : i < j => s[i] < s[j]
SortSingles ==
    /\ pc = "sets" /\ Len(grp_set) = Len(GroupSet)
    /\ \/ /\ SpFits(spool, 2 * Len(LeftOver))
          /\ spool' = SpAlloc(spool, 2 * Len(LeftOver))
          /\ grp_set' = grp_set \o [n \in DOMAIN LeftOver |->
                                       GrpSet(<<LeftOver[n]>>, <<TRUE>>, 0)]
          /\ pc' = IF grp_set' = <<>> THEN "rules" ELSE "list"
       \/ /\ ~SpFits(spool, 2 * Len(LeftOver))
          /\ pc' = "out"
          /\ UNCHANGED <<spool, grp_set>>
    /\ Keeps
    /\ UNCHANGED <<mem, tree, delim_ac, seg_pat, special, at, pat>>
-----------------------------------------------------------------------------
Hat == "^"
Dollar == "$"

GrpId(i, j) == grp_set[i].grps[j]
DelimStr == Group[GrpId(at.i, at.j)][Lists[at.list]]

\* What f holds after v has been written to x, and after a pattern has been
\* made at address p.
Put(f, x, v) == [y \in DOMAIN f \cup {x} |-> IF y = x THEN v ELSE f[y]]
PutPat(m, p) == Put(m, p, [str |-> p + 1, grpset_index |-> NULL])

BeginList ==
    /\ pc = "list"
    /\ \/ /\ SpFits(spool, 2)
          /\ pat' = spool.cur
          /\ mem' = PutPat(mem, spool.cur)
          /\ spool' = SpAlloc(SpAlloc(spool, 1), 1)
          /\ pc' = "item"
       \/ /\ ~SpFits(spool, 2)
          /\ pc' = "out"
          /\ UNCHANGED <<pat, mem, spool>>
    /\ Keeps
    /\ UNCHANGED <<grp_set, tree, delim_ac, seg_pat, special, at>>

InList == pc = "item" /\ at.n <= Len(DelimStr)
NextItem == at' = [at EXCEPT !.n = @ + 1]

\* ^ or $: only for the groups of a lone set, and not between segments.
\* head_grps and tail_grps are counted up; their entries, which nobody has
\* cleared and nobody reads, are left out.
SpecialItem ==
    LET pieces == IF special THEN 0 ELSE 2
        refused == \/ Lists[at.list] = "seg_delim" \/ Len(grp_set) > 1
                   \/ cfgs["common"][1].text_mode = 1
    IN /\ InList /\ DelimStr[at.n] \in {Hat, Dollar}
       /\ \/ /\ ~refused /\ SpFits(spool, pieces)
             /\ spool' = IF special THEN spool ELSE SpAlloc(SpAlloc(spool, 1), 1)
             /\ special' = TRUE
             /\ NextItem /\ UNCHANGED pc
          \/ /\ refused \/ ~SpFits(spool, pieces)
             /\ pc' = "out"
             /\ UNCHANGED <<spool, special, at>>
       /\ Keeps
       /\ UNCHANGED <<grp_set, mem, tree, delim_ac, seg_pat, pat>>

\* What a string is to a group, after one more list has named it.
LastType(types, list) == {list}         \* defect: = for |=
WithType(types, list) == types \cup {list}

\* No room in tpool, for the node of the string, or, once the tree may have
\* split a node, for the dummy that rt_process_arg writes to unasked.
TreeIsFull ==
    \/ pc' = "out"
    \/ Cardinality(DOMAIN tree) > 1 /\ pc' = "crashed"

\* The pattern kept as the first segment delimiter of a group.
FirstSeg(old, p) == IF old = NULL THEN p ELSE old

(***************************************************************************)
(* A delimiter.  It is written into the spare pattern; if the tree has the *)
(* string already, the pattern found there takes the spare one's place and *)
(* the spare one is kept for the next item, otherwise the spare one gets   *)
(* an index and goes into tree and automata, and a new spare one is made.  *)
(***************************************************************************)
DelimItem ==
    LET s == DelimStr[at.n]
        written == Put(mem, mem[pat].str, s)
        isNew == s \notin DOMAIN tree
        index == IF isNew THEN spool.cur ELSE mem[tree[s]].grpset_index
        p == IF isNew THEN pat ELSE tree[s]
        indexed == IF isNew
                   THEN Put(Put(written, p, [written[p] EXCEPT !.grpset_index = index]),
                            index, [g \in Ids |-> NULL])
                   ELSE written
        known == indexed[index][at.i] # NULL
        types == IF known THEN indexed[index][at.i]
                          ELSE spool.cur + (IF isNew THEN 1 ELSE 0)
        before == IF known THEN indexed[types]
                           ELSE [j \in DOMAIN grp_set[at.i].grps |-> {}]
        typed == Put(Put(indexed, index, [indexed[index] EXCEPT ![at.i] = types]),
                     types, [before EXCEPT ![at.j] = WithType(@, Lists[at.list])])
        pieces == (IF isNew THEN 3 ELSE 0) + (IF known THEN 0 ELSE 1)
        spare == spool.cur + 2
    IN /\ InList /\ s \notin {Hat, Dollar}
       /\ \/ /\ SpFits(spool, pieces)
             /\ spool' = IF pieces = 0 THEN spool
                         ELSE SpAlloc(SpAlloc(spool, pieces - 1), 1)
             /\ mem' = IF isNew THEN PutPat(typed, spare) ELSE typed
             /\ pat' = IF isNew THEN spare ELSE pat
             /\ tree' = Put(tree, s, p)
             /\ delim_ac' = IF isNew THEN delim_ac \cup {<<s, p>>} ELSE delim_ac
             /\ seg_pat' = IF Lists[at.list] = "seg_delim"
                           THEN [seg_pat EXCEPT
                                   ![GrpId(at.i, at.j)] = FirstSeg(@, p)]
                           ELSE seg_pat
             /\ NextItem /\ UNCHANGED pc
          \/ /\ \/ ~SpFits(spool, pieces) /\ pc' = "out"
                \/ TreeIsFull
             /\ UNCHANGED <<spool, mem, pat, tree, delim_ac, seg_pat, at>>
       /\ Keeps
       /\ UNCHANGED <<grp_set, special>>

\* delete_pat: first the string of the spare pattern, then the pattern.
DeletePat(sp, p) == SpFree(SpFree(sp, mem[p].str), p)

EndList ==
    /\ pc = "item" /\ at.n > Len(DelimStr)
    /\ spool' = DeletePat(spool, pat)
    /\ \/ /\ at.list < Len(Lists)
          /\ at' = [at EXCEPT !.list = @ + 1, !.n = 1]
          /\ pc' = "list"
       \/ /\ at.list = Len(Lists) /\ at.j < Len(grp_set[at.i].grps)
          /\ at' = [at EXCEPT !.j = @ + 1, !.list = 1, !.n = 1]
          /\ pc' = "list"
       \/ /\ at.list = Len(Lists) /\ at.j = Len(grp_set[at.i].grps)
          /\ at' = [i |-> at.i + 1, j |-> 1, list |-> 1, n |-> 1]
          /\ pc' = IF at.i < Len(grp_set) THEN "list" ELSE "rules"
    /\ Keeps
    /\ UNCHANGED <<model, pat>>
-----------------------------------------------------------------------------
\* parse_rules allocates the rules of each group set, and reads none.
ParseRules ==
    /\ pc = "rules"
    /\ \/ /\ SpFits(spool, Len(grp_set))
          /\ spool' = SpAlloc(spool, Len(grp_set))
          /\ pc' = "finish"
       \/ /\ ~SpFits(spool, Len(grp_set))
          /\ pc' = "out"
          /\ UNCHANGED spool
    /\ Keeps
    /\ UNCHANGED <<model, at, pat>>

ScratchWithoutPool == {"rule_ac"}       \* defect: tpool.pool forgotten
Scratch == {"rule_ac", "tpool"}

Finish ==
    /\ pc = "finish" /\ pc' = "built"
    /\ live' = live \ Scratch
    /\ UNCHANGED <<config, open, spool, pool_size, model, at, pat>>

\* The label out, and destroy_normalize_engine.
Out ==
    /\ pc = "out" /\ pc' = "null"
    /\ live' = (live \ Scratch) \ {"delim_ac", "spool"}
    /\ UNCHANGED <<config, open, spool, pool_size, model, at, pat>>

Destroy ==
    /\ pc = "built" /\ pc' = "null"
    /\ live' = live \ {"delim_ac", "spool"}
    /\ UNCHANGED <<config, open, spool, pool_size, model, at, pat>>

Next ==
    \/ GetEngineSize \/ ArgInit \/ ModelInit \/ ReadNeConfig
    \/ CountGroups \/ SortSet \/ SortSingles
    \/ BeginList \/ SpecialItem \/ DelimItem \/ EndList
    \/ ParseRules \/ Finish \/ Out \/ Destroy

Spec == Init /\ [][Next]_vars
-----------------------------------------------------------------------------
\* The group sets of an engine are those of the file, in its order, followed by
\* one for each group that none of them names; the essential groups of a set
\* spell its essential_group, which is read as names, or as much of it as the
\* order allows.  Where a name
\* begins with that of another group the two passes over the names disagree, and
\* this need not be so (FlagSaysNamed); no set names such a group here.
NamesApart == \A g \in DOMAIN FileNames : \A name \in NamedGroups :
                 Begins(FileNames[g], name) => FileNames[g] = name
SingleGroups == {g \in DOMAIN FileNames : FileNames[g] \notin NamedGroups}

SetAsWritten(k) ==
    LET set == grp_set[k]
        order == Written(file, "group_set", k, "group_order")
        names == Written(file, "group_set", k, "essential_group")
        spelled == [n \in 1 .. Cardinality({j \in DOMAIN order : set.ess_grps[j]}) |->
                      order[CHOOSE j \in DOMAIN order :
                              /\ set.ess_grps[j]
                              /\ n = Cardinality({m \in 1 .. j : set.ess_grps[m]})]]
    IN /\ [j \in DOMAIN set.grps |-> Written(file, "group", set.grps[j], "name")] = order
       /\ spelled # <<>>
       /\ IsPrefix(spelled, names)
       /\ spelled # names =>
            LET last == CHOOSE j \in DOMAIN order :
                           /\ set.ess_grps[j]
                           /\ \A m \in j + 1 .. Len(order) : ~set.ess_grps[m]
            IN \A m \in last + 1 .. Len(order) :
                  order[m] # names[Len(spelled) + 1]

GroupsAsWritten == pc = "built" /\ NamesApart =>
    LET nr == NrSets(file, "group_set")
    IN /\ \A k \in 1 .. nr : SetAsWritten(k)
       /\ Len(grp_set) = nr + Cardinality(SingleGroups)
       /\ {grp_set[k].grps : k \in nr + 1 .. Len(grp_set)} = {<<g>> : g \in SingleGroups}
       /\ \A k \in DOMAIN grp_set :
             grp_set[k].disorder_seg <=> \E j \in DOMAIN grp_set[k].grps :
                Written(file, "group", grp_set[k].grps[j], "seg_in_order") = 0

\* Every delimiter string of the file has exactly one pattern in the automaton,
\* and through it a match finds for every group of every set exactly what the
\* file says the string is to that group; a group's segments are completed with
\* the first of its segment delimiters.  With names that are not apart, a group
\* may be in no set, and its delimiters in no automaton.
Delimiters == (UNION {UNION {ToSet(Written(file, "group", g, list)) : list \in ToSet(Lists)} :
                         g \in 1 .. NrSets(file, "group")}) \ {Hat, Dollar}

TypesOf(p, i, j) ==
    LET types == mem[mem[p].grpset_index][i]
    IN IF types = NULL THEN {} ELSE mem[types][j]

DelimitersAsWritten == pc = "built" /\ NamesApart =>
    /\ \A s \in Delimiters : \E p \in {e[2] : e \in delim_ac} :
          /\ delim_ac \cap ({s} \X {e[2] : e \in delim_ac}) = {<<s, p>>}
          /\ mem[mem[p].str] = s
          /\ \A i \in DOMAIN grp_set : \A j \in DOMAIN grp_set[i].grps :
                TypesOf(p, i, j) = {list \in ToSet(Lists) :
                   s \in ToSet(Written(file, "group", grp_set[i].grps[j], list))}
    /\ Cardinality(delim_ac) = Cardinality(Delimiters)
    /\ \A g \in DOMAIN seg_pat :
          LET segs == Written(file, "group", g, "seg_delim")
          IN IF segs = <<>> THEN seg_pat[g] = NULL
                            ELSE <<segs[1], seg_pat[g]>> \in delim_ac

\* A build that fails after ne_arg_init and answers keeps no memory, whatever
\* the step that failed; a built engine keeps its memory and its automaton, and
\* its destruction gives back both.  What stays are handles of the file: always
\* the one of get_engine_size, and the one of read_config where the memory ran
\* out while it read.
Reading == {"count", "alloc", "defaults", "read"}
ReleasesAll ==
    /\ pc = "null" => live = {}
    /\ pc = "built" => live = {"spool", "delim_ac"} /\ open = {"size"}
    /\ "config" \in open => pc \in Reading \cup {"crashed"} \/ ~SpFits(spool, 1)

\* normalize_engine.c:2650 of the flag that sort_cfg_group counts up: it is
\* "a mark of whether the group appears in a group set".
FlagSaysNamed ==
    pc = "sets" => Flagged = {g \in Ids : \E k \in DOMAIN GroupSet : Names[g] \in Ordered(k)}
=============================================================================

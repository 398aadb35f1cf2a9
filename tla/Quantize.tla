------------------------------ MODULE Quantize ------------------------------
(***************************************************************************)
(* runtime/quantize.py: the rows of a weight matrix to INT8, and the two   *)
(* walks over a module, the one that lists its quantised linears and the   *)
(* one that puts them in its place.                                        *)
(*                                                                         *)
(* A module is a graph: a name may be given to a module that is already    *)
(* part of it, in the same parent or elsewhere.  Weights are whole numbers *)
(* of some unit; a row's scale is its largest weight over 127.             *)
(***************************************************************************)
EXTENDS Integers, Sequences, SequencesExt, FiniteSetsExt

CONSTANTS
    Graphs,   \* [node -> sequence of [name, node]]; 0 is the root
    Linears,  \* the nodes that are nn.Linear
    Filters,  \* [name_filter -> the names it is a part of]
    Rows      \* rows of weights

\* [graph, filter], or [row], or NoJob.
VARIABLE job

QuantizeAssumption ==
    /\ 0 \notin Linears
    /\ \A f \in DOMAIN Filters : f # "none"
    /\ \A g \in Graphs : \A n \in DOMAIN g : n \in Linears => g[n] = << >>
    /\ \A r \in Rows : Len(r) > 0

NoJob == [kind |-> "none"]

-----------------------------------------------------------------------------
(* quantize_linear_symmetric, of one row *)

Magnitude(x) == IF x < 0 THEN -x ELSE x

(* The largest weight, or a floor when all are zero.                       *)
RowMax(row) ==
    LET largest == Max({Magnitude(row[i]) : i \in DOMAIN row})
    IN  IF largest = 0 THEN 1 ELSE largest

(* n / d to the nearest, a tie to the even one.                            *)
RoundHalfEven(n, d) ==
    LET up == (2 * n + d) \div (2 * d)
    IN  IF (2 * n + d) % (2 * d) = 0 /\ up % 2 = 1 THEN up - 1 ELSE up

Clamp(x) == IF x > 127 THEN 127 ELSE IF x < -128 THEN -128 ELSE x

QuantizeRow(row) == [i \in DOMAIN row |-> Clamp(RoundHalfEven(127 * row[i], RowMax(row)))]

(* dequantize_linear, and forward: 127 times the weight.                   *)
Dequantize(row) == [i \in DOMAIN row |-> QuantizeRow(row)[i] * RowMax(row)]

-----------------------------------------------------------------------------
(* The walks.  What replaces linear n is named -n. *)

IsLinear(n) == n \in Linears

ChildrenOf(graph, n) == IF n \in DOMAIN graph THEN graph[n] ELSE << >>

(* A filter is a substring of the dotted name; without one all are wanted. *)
Wanted(filter, path) == filter = "none" \/ ToSet(path) \cap Filters[filter] # {}

(* named_children: a child under its first name only.                      *)
NamedChildren(graph, n) ==
    LET all == ChildrenOf(graph, n)
        firsts == SetToSortSeq(
                      {i \in DOMAIN all : \A j \in 1..i - 1 : all[j].node # all[i].node}, <)
    IN  [k \in DOMAIN firsts |-> all[firsts[k]]]

(* named_modules from one module on, the root first: the paths found and   *)
(* the modules met, each module under the first path that leads to it.     *)
RECURSIVE NamedModules(_, _, _, _)
NamedModules(graph, n, path, found) ==
    IF \E i \in DOMAIN found : found[i].node = n
    THEN found
    ELSE FoldLeft(LAMBDA acc, c : NamedModules(graph, c.node, Append(path, c.name), acc),
                  Append(found, [path |-> path, node |-> n]), ChildrenOf(graph, n))

(* The paths of what is quantised, with the linear at each.                *)
QuantizeModuleLinears(graph, filter) ==
    LET all == NamedModules(graph, 0, << >>, << >>)
    IN  {m \in ToSet(all) : IsLinear(m.node) /\ Wanted(filter, m.path)}

(* Mutant: the filter is looked for in the child's own name.               *)
MatchesName(filter, prefix, name) == Wanted(filter, <<name>>)

(* A linear is replaced where its dotted name has what the filter asks.    *)
Matches(filter, prefix, name) == Wanted(filter, Append(prefix, name))

SwapChild(graph, parent, name, n) ==
    [graph EXCEPT ![parent] =
        [i \in DOMAIN @ |-> IF @[i].name = name THEN [@[i] EXCEPT !.node = n] ELSE @[i]]]

(* _recurse: the children a parent had when it was reached, each replaced  *)
(* in the parent or walked in turn; state is the graph so far and count.   *)
RECURSIVE Recurse(_, _, _, _)
Recurse(state, parent, prefix, filter) ==
    FoldLeft(
        LAMBDA acc, c :
            IF IsLinear(c.node) /\ Matches(filter, prefix, c.name)
            THEN [graph |-> SwapChild(acc.graph, parent, c.name, -c.node),
                  count |-> acc.count + 1]
            ELSE Recurse(acc, c.node, Append(prefix, c.name), filter),
        state, NamedChildren(state.graph, parent))

ReplaceLinears(graph, filter) == Recurse([graph |-> graph, count |-> 0], 0, << >>, filter)

-----------------------------------------------------------------------------
Jobs ==
    {NoJob}
    \cup [kind : {"row"}, row : Rows]
    \cup [kind : {"walk"}, graph : Graphs, filter : DOMAIN Filters \cup {"none"}]

(* The module at a path. *)
RECURSIVE At(_, _, _)
At(graph, n, path) ==
    IF path = << >> THEN n
    ELSE LET i == CHOOSE i \in DOMAIN ChildrenOf(graph, n) :
                      ChildrenOf(graph, n)[i].name = Head(path)
         IN  At(graph, ChildrenOf(graph, n)[i].node, Tail(path))

NodesMet(graph) ==
    LET all == NamedModules(graph, 0, << >>, << >>) IN {all[i].node : i \in DOMAIN all}

(* No module has a second name anywhere. *)
IsTree(graph) ==
    \A m \in NodesMet(graph) :
        Cardinality({<<p, i>> \in NodesMet(graph) \X (1..3) :
                        i \in DOMAIN ChildrenOf(graph, p) /\ ChildrenOf(graph, p)[i].node = m}) <= 1

(* "with the same semantics as quantize_module_linears": every linear that *)
(* is listed is found quantised under its listed name once the linears are *)
(* replaced; and in a module whose parts have one name each, exactly what  *)
(* is listed is replaced, and a second call finds nothing to do.           *)
(*                                                                         *)
(* A row comes back within half a step of its scale, and its codes are     *)
(* symmetric: the 128th negative one is never used.                        *)
QuantisedAlike ==
    /\ job.kind = "walk" =>
          LET listed == QuantizeModuleLinears(job.graph, job.filter)
              after  == ReplaceLinears(job.graph, job.filter)
          IN  /\ \A m \in listed : At(after.graph, 0, m.path) = -m.node
              /\ IsTree(job.graph) =>
                    /\ after.count = Cardinality(listed)
                    /\ \A m \in ToSet(NamedModules(job.graph, 0, << >>, << >>)) \ listed :
                          At(after.graph, 0, m.path) = m.node
                    /\ ReplaceLinears(after.graph, job.filter) = [after EXCEPT !.count = 0]
    /\ job.kind = "row" =>
          \A i \in DOMAIN job.row :
              /\ 2 * Magnitude(127 * job.row[i] - Dequantize(job.row)[i]) <= RowMax(job.row)
              /\ QuantizeRow(job.row)[i] \in -127..127
              /\ job.row[i] # 0 /\ Magnitude(job.row[i]) = RowMax(job.row) =>
                    Magnitude(QuantizeRow(job.row)[i]) = 127

=============================================================================

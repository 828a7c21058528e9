----------------------------- MODULE Selection ------------------------------
(***************************************************************************)
(* From the tests a client selects to the rows of an execution, and back.  *)
(*                                                                         *)
(* A TestSelection is a dictionary of dictionaries, of which Python keeps  *)
(* the order: here a sequence of [collection, suites], suites a sequence   *)
(* of [suite, cases] and cases one of [case, times].  The rows of an       *)
(* execution are a sequence of [collection, suite, mandatory, cases] with  *)
(* cases a sequence of the names of cases, one for each iteration.         *)
(*                                                                         *)
(* A case of the performance suite gets a single row.  Its iterations go   *)
(* to an attribute of the metadata that is not a column: no row has them.  *)
(***************************************************************************)
EXTENDS Integers, Sequences, FiniteSets

CONSTANTS
    Catalogue,        \* collection -> suite -> [mandatory, cases] (test_collections)
    PerformanceSuite  \* "Performance Test Suite"

Suite(collection, suite) == Catalogue[collection][suite]

\* Every suite is declared mandatory or not.
ASSUME CatalogueAssumption ==
    \A collection \in DOMAIN Catalogue : \A suite \in DOMAIN Catalogue[collection] :
        Suite(collection, suite).mandatory \in BOOLEAN

\* The types of what is selected and of the rows.  A client may give any
\* number of iterations, and any names.
TestSelection ==
    Seq([collection : STRING,
         suites : Seq([suite : STRING, cases : Seq([case : STRING, times : Int])])])

SuiteRow == [collection : STRING, suite : STRING, mandatory : BOOLEAN, cases : Seq(STRING)]

\* No dictionary has a key twice.
IsDictionary(selection) ==
    /\ \A i, j \in DOMAIN selection :
          selection[i].collection = selection[j].collection => i = j
    /\ \A i \in DOMAIN selection :
          LET suites == selection[i].suites
          IN /\ \A j, k \in DOMAIN suites : suites[j].suite = suites[k].suite => j = k
             /\ \A j \in DOMAIN suites : \A k, l \in DOMAIN suites[j].cases :
                   suites[j].cases[k].case = suites[j].cases[l].case => k = l

\* Each level looks its name up, and a missing one ends the request.
Known(selection) ==
    \A i \in DOMAIN selection :
        /\ selection[i].collection \in DOMAIN Catalogue
        /\ \A j \in DOMAIN selection[i].suites :
              LET entry == selection[i].suites[j]
              IN /\ entry.suite \in DOMAIN Catalogue[selection[i].collection]
                 /\ \A k \in DOMAIN entry.cases :
                       entry.cases[k].case \in Suite(selection[i].collection, entry.suite).cases

-----------------------------------------------------------------------------
(* Sequences by the positions of their elements.  Positions are pairs, such *)
(* as the turns of two nested loops, in lexicographic order.                *)

Before(p, q) == p[1] < q[1] \/ (p[1] = q[1] /\ p[2] <= q[2])

InOrder(S) ==
    [n \in 1..Cardinality(S) |-> CHOOSE p \in S : Cardinality({q \in S : Before(q, p)}) = n]

\* A loop of which turn k has a loop of n[k] turns.
Turns(n) == UNION {{k} \X (1..n[k]) : k \in DOMAIN n}

\* The elements of a sequence at some of its positions.
Filtered(s, I) ==
    LET kept == InOrder({0} \X I)
    IN [n \in DOMAIN kept |-> s[kept[n][2]]]

-----------------------------------------------------------------------------
Iterations(suite, entry) == IF suite = PerformanceSuite THEN 1 ELSE entry.times

PendingSuite(collection, entry) ==
    LET turns == InOrder(Turns([k \in DOMAIN entry.cases |-> Iterations(entry.suite, entry.cases[k])]))
    IN [collection |-> collection, suite |-> entry.suite,
        mandatory |-> Suite(collection, entry.suite).mandatory,
        cases |-> [n \in DOMAIN turns |-> entry.cases[turns[n][1]].case]]

PendingSuites(selection) ==
    LET turns == InOrder(Turns([i \in DOMAIN selection |-> Len(selection[i].suites)]))
    IN [n \in DOMAIN turns |->
          PendingSuite(selection[turns[n][1]].collection, selection[turns[n][1]].suites[turns[n][2]])]

\* The mandatory ones first, each kind in the order it has.
SortSelected(suites) ==
    LET sorted == InOrder({<<IF suites[i].mandatory THEN 0 ELSE 1, i>> : i \in DOMAIN suites})
    IN [n \in DOMAIN sorted |-> suites[sorted[n][2]]]

\* The keys of a dictionary, in the order of their first insertion.
Keys(s) == Filtered(s, {i \in DOMAIN s : \A j \in 1..(i - 1) : s[j] # s[i]})

Occurrences(s, e) == Cardinality({i \in DOMAIN s : s[i] = e})

\* Mutant: a case that is already there is not counted again.
CountedCasesOnce(cases) ==
    [k \in DOMAIN Keys(cases) |-> [case |-> Keys(cases)[k], times |-> 1]]

CountedCases(cases) ==
    [k \in DOMAIN Keys(cases) |->
        [case |-> Keys(cases)[k], times |-> Occurrences(cases, Keys(cases)[k])]]

\* No two rows are about the same suite, see WellFormed in RecordsProofs: none
\* are merged here.
SelectedTests(suites) ==
    LET collections == Keys([i \in DOMAIN suites |-> suites[i].collection])
        Of(collection) == Filtered(suites, {i \in DOMAIN suites : suites[i].collection = collection})
    IN [c \in DOMAIN collections |->
          [collection |-> collections[c],
           suites |-> [i \in DOMAIN Of(collections[c]) |->
                         [suite |-> Of(collections[c])[i].suite,
                          cases |-> CountedCases(Of(collections[c])[i].cases)]]]]
=============================================================================

--------------------------- MODULE Applicability ----------------------------
(***************************************************************************)
(* Which test cases apply to a project: from the PICS files uploaded for   *)
(* it and the list of tests its DMP skips.                                 *)
(*                                                                         *)
(* A title is a record [id, semi, partial]: the name of the test and the   *)
(* two suffixes, " (Semi-automated)" and " (Steps Disabled)", that the     *)
(* YAML parser may append to it.  An element of a PICS file is a record    *)
(* [number, support]; an absent or empty child of it is Missing.           *)
(***************************************************************************)
EXTENDS Naturals, Sequences, FiniteSets, SequencesExt, FiniteSetsExt

CONSTANTS
    Tests,           \* the declared cases: records [title, pics, negated, collection]
    Mandatory,       \* the collections that are mandatory
    Performance,     \* STRESS_TEST_COLLECTION
    PlatformTests,   \* PlatformTestCasesToRun of the generated file
    PlatCert,        \* "PLAT.CERT"
    Derived,         \* "PLAT.CERT.TESTS.DONE"
    Failure,         \* the request is answered with an error
    Missing

Plain(id) == [id |-> id, semi |-> FALSE, partial |-> FALSE]

----------------------------------------------------------------------------
(* A PICS file, a record [tag, name, elements], becomes a cluster.         *)

Readable(file) ==
    /\ file.tag \in {"clusterPICS", "generalPICS"}
    /\ Missing \notin {file.name} \cup UNION {{e.number, e.support} : e \in ToSet(file.elements)}

\* The last element of a number is the one that counts; "true" may be in
\* any case, everything else is a no.
Items(file) ==
    LET Numbers == {e.number : e \in ToSet(file.elements)}
        LastOf(n) == Max({i \in DOMAIN file.elements : file.elements[i].number = n})
    IN [n \in Numbers |-> file.elements[LastOf(n)].support \in {"true", "True"}]

\* The clusters of a project: a function from their names to their items.
NoClusters == [name \in {} |-> Missing]

\* The next file of a cluster replaces it; one that cannot be parsed is refused.
AddCluster(clusters, file) ==
    IF ~Readable(file) THEN clusters
    ELSE [name \in DOMAIN clusters \cup {file.name} |->
            IF name = file.name THEN Items(file) ELSE clusters[name]]

EnabledItems(items) == {n \in DOMAIN items : items[n]}

Enabled(clusters) == UNION {EnabledItems(clusters[name]) : name \in DOMAIN clusters}

\* The file given to the YAML tests has a line for each item of each cluster.
PicsFile(clusters) ==
    UNION {{[number |-> n, value |-> clusters[name][n]] : n \in DOMAIN clusters[name]} :
             name \in DOMAIN clusters}

----------------------------------------------------------------------------
(* The applicable cases.                                                   *)

\* RetrievePics of a case is its two sets, pics and negated.
Matches(test, enabled) == test.pics \subseteq enabled /\ test.negated \cap enabled = {}

ApplicableOf(enabled, collections, considered) ==
    {t.title : t \in {u \in Tests :
        /\ u.collection \in collections \ {Performance}
        /\ considered = {} \/ u.title \in {Plain(id) : id \in considered}
        /\ Matches(u, enabled)}}

\* A variant of a title is itself or itself with one more suffix.
Variants(title) ==
    {title, [title EXCEPT !.semi = TRUE], [title EXCEPT !.partial = TRUE]}

AllCollections == {t.collection : t \in Tests}

ProcessPlatformTests(enabled) ==
    UNION {Variants(t) : t \in ApplicableOf(enabled, AllCollections, PlatformTests)}

\* Mutant: only the test as it is listed is skipped.
ProcessDerivedExactly(skipped, titles) == titles \ {Plain(id) : id \in skipped}

ProcessDerived(skipped, titles) == titles \ UNION {Variants(Plain(id)) : id \in skipped}

Applicable(clusters, skipped) ==
    LET enabled == Enabled(clusters)
        all == ApplicableOf(enabled, AllCollections \cap Mandatory, {})
                 \cup ApplicableOf(enabled, AllCollections \ Mandatory, {})
    IN IF DOMAIN clusters = {} THEN {}
       ELSE IF {PlatCert, Derived} \subseteq enabled THEN {Failure}
       ELSE IF PlatCert \in enabled THEN ProcessPlatformTests(enabled)
       ELSE IF Derived \in enabled THEN ProcessDerived(skipped, all)
       ELSE all
=============================================================================

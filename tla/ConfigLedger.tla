--------------------------- MODULE ConfigLedger ---------------------------
(***************************************************************************)
(* What the configuration transactions of one device promise, free of      *)
(* files, locks and failures: a ledger that only grows, one transaction    *)
(* per generation, each at most once and only on the content its request   *)
(* expects; and acknowledgements that only repeat what the ledger says.    *)
(***************************************************************************)
EXTENDS Naturals, FiniteSets

CONSTANTS
    Transactions,  \* operation ids
    Contents,      \* what the configuration may say
    Legacy,        \* what it says first
    AnyContent,           \* no particular content
    Requests,      \* mutations: the content each expects, and the one it writes
    NoRequest      \* the request of the import

VARIABLES
    ledger,  \* committed transaction -> its generation, request and content
    acked    \* the acknowledgements given

Committed == DOMAIN ledger

Init == ledger = [t \in {} |-> {}] /\ acked = {}

Latest == CHOOSE t \in Committed : \A u \in Committed : ledger[u].gen <= ledger[t].gen

Enter(t, r, content) ==
    /\ t \notin Committed
    /\ ledger' = [u \in Committed \cup {t} |->
                    IF u = t THEN [gen |-> Cardinality(Committed), request |-> r, content |-> content]
                             ELSE ledger[u]]
    /\ UNCHANGED acked

Import(t) == Committed = {} /\ Enter(t, NoRequest, Legacy)

Commit(t, r) ==
    /\ Committed # {}
    /\ LET current == ledger[Latest].content IN
       /\ r.expects \in {AnyContent, current}
       /\ Enter(t, r, IF r.writes = AnyContent THEN current ELSE r.writes)

Acknowledge(t) ==
    /\ t \in Committed
    /\ acked' = acked \cup {<<t, ledger[t].request, ledger[t].gen>>}
    /\ UNCHANGED ledger

Next == \E t \in Transactions :
            Import(t) \/ Acknowledge(t) \/ \E r \in Requests : Commit(t, r)

Spec == Init /\ [][Next]_<<ledger, acked>>
============================================================================

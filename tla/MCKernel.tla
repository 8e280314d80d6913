------------------------------ MODULE MCKernel ------------------------------
(* A deployment of embedded modules and guests for TLC.                      *)
EXTENDS KernelApp

MCHooks ==
    [check |-> [kind |-> "validator", policy |-> "fail_closed"],
     price |-> [kind |-> "transformer", policy |-> "fail_open"]]

Embedded(id, rank, provides, exposed, calls, offers, install, models, schema) ==
    [tier |-> "embedded", id |-> id, rank |-> rank, storage |-> "kernel",
     provides |-> provides, exposed |-> exposed, consumes |-> <<>>, publishes |-> <<>>,
     calls |-> calls, offers |-> offers, install |-> install, models |-> models, schema |-> schema, nilModel |-> FALSE]

Sandboxed(id, rank, abi, provides, exposed, consumes, publishes, subscribes) ==
    [tier |-> "sandboxed", id |-> id, rank |-> rank, storage |-> "none", abi |-> abi, bytes |-> "reactor",
     provides |-> provides, exposed |-> exposed, consumes |-> consumes, publishes |-> publishes,
     offers |-> <<>>, subscribes |-> subscribes, models |-> {}, schema |-> <<>>]

Serve(c) == [do |-> "capability", arg |-> c]
Attend(h) == [do |-> "subscribe", arg |-> h, priority |-> 1]
Grant(h, kind) == [hook |-> h, kind |-> kind, priority |-> 1]

\* Two modules whose identifiers differ in a separator only, a subscriber, a
\* guest with grants and one without, and a manifest that is refused.
MCCatalogue ==
    [crm    |-> Embedded(<<"a", ".", "b">>, 2, <<"e">>, <<"e">>, {}, <<"check", "price">>, <<Serve("e")>>,
                         {"contacts"}, <<"contacts", "notes">>),
     alt    |-> Embedded(<<"a", "-", "b">>, 1, <<"s", "e">>, <<"e">>, {}, <<>>, <<Attend("check"), Serve("s"), Serve("e")>>,
                         {"deals"}, [v \in {2} |-> "deals"]),
     sub    |-> Embedded(<<"c">>, 3, <<>>, <<>>, {"w"}, <<>>, <<Attend("check")>>, {}, <<>>),
     guest  |-> Sandboxed(<<"d">>, 4, 2, <<"w">>, <<"w">>, <<"w", "e", "x", "y">>, <<"ev">>,
                          <<Grant("check", "validator"), Grant("price", "transformer")>>),
     legacy |-> Sandboxed(<<"f">>, 5, 1, <<"x", "y">>, <<>>, <<>>, <<>>, <<>>),
     bad    |-> Sandboxed(<<"g">>, 6, 1, <<"x">>, <<>>, <<"e">>, <<>>, <<>>)]

MCWirings == {<<"crm", "alt", "crm">>, <<"crm", "sub", "legacy", "guest", "bad">>}

\* Statements that read at most one table beside their own and mention at most
\* two, with or without an alias, and those of the store.
MCIssued ==
    {s \in [op : {"query", "update", "delete", "create", "exec"}, by : {"model", "name", "sql"}, table : Tables,
            called : Tables \cup {NoTable},
            joins : {{}} \cup {{a} : a \in Tables}, mentions : {{}} \cup {{a, b} : a, b \in Tables},
            records : SUBSET {"t", "none"}, moves : {"none", "u"},
            via : {"connection"}, conditions : {{}}] : s \in Statements}
    \cup
    {s \in [op : {"query", "update", "delete", "create"}, by : {"model"}, table : Tables, called : Tables,
            joins : {{}}, mentions : {{}}, records : SUBSET {"t", "none"}, moves : {"none", "u"},
            via : {"store"}, conditions : SUBSET Conditions] : s \in Statements}

\* One statement of each form Unconfined names, that reaches another tenant's
\* contacts although these are registered.
OfContacts ==
    [op |-> "query", by |-> "name", table |-> "contacts", called |-> "contacts", joins |-> {}, mentions |-> {},
     records |-> {}, moves |-> NoTenant, via |-> "connection", conditions |-> {}]

Escaping ==
    {[OfContacts EXCEPT !.op = "update", !.moves = "u"],
     [OfContacts EXCEPT !.op = "create", !.records = {"u"}],
     [OfContacts EXCEPT !.joins = {"contacts"}, !.mentions = {"contacts"}],
     [OfContacts EXCEPT !.called = NoTable],
     [OfContacts EXCEPT !.by = "model", !.joins = {"contacts"}]}

ASSUME EscapingAssumption ==
    \A s \in Escaping :
        /\ s \in Statements /\ Unconfined(s)
        /\ \E o \in Outcomes(s, [tenant |-> "t", system |-> FALSE], {"contacts"}) : "u" \in o.rows

MCClients == {<<"http", "e">>, <<"grpc", "w">>}
MCCapabilities == {"e", "s", "w", "x", "y"}
=============================================================================

------------------------------ MODULE MCService ------------------------------
(* Service with two proxies at most, one interface address (l1), the       *)
(* wildcard of the same port (l2), another port (l3), and a text that is   *)
(* no socket address (l4).                                                 *)
EXTENDS Service

CONSTANTS none, s1, s2, l1, l2, l3, l4

MCSocketsOf ==
    [l \in {l1, l2, l3, l4} |->
        CASE l = l1 -> {"lo:1"} [] l = l2 -> {"lo:1", "eth:1"}
          [] l = l3 -> {"lo:2"} [] OTHER -> {}]
MCSessions == {s1, s2}
MCSlots == 2
MCStopTimeout == 3
MCMaxLag == 1

Proxy(listen, enabled, output) ==
    [listen |-> listen, enabled |-> enabled, log_payloads |-> listen # l3,
     output |-> output]
Profile(name, format, direction) ==
    [name |-> name, format |-> format, direction |-> direction]
Small(word) == [word |-> word, capitals |-> FALSE]
Caps(word) == [word |-> word, capitals |-> TRUE]
File(proxies, profiles, drain) ==
    [parses |-> TRUE,
     config |-> [proxies |-> proxies, profiles |-> profiles, drain |-> drain,
                 capture_log |-> drain = 1]]

Web == Profile("web", Caps("json"), Caps("inbound"))
Later == Profile("web", Small("raw"), none)

MCContent ==
    [good |-> File(<<Proxy(l1, TRUE, "web"), Proxy(l3, TRUE, none)>>,
                   <<Web, Later>>, 1),
     slow |-> File(<<Proxy(l1, FALSE, "gone"), Proxy(l1, TRUE, "web")>>,
                   <<Later>>, 3),
     edge |-> File(<<Proxy(l1, TRUE, none)>>, <<>>, 2),
     overlap |-> File(<<Proxy(l1, TRUE, none), Proxy(l2, TRUE, none)>>, <<>>, 0),
     idle |-> File(<<Proxy(l1, FALSE, none)>>, <<>>, 1),
     same |-> File(<<Proxy(l1, TRUE, none), Proxy(l1, TRUE, none)>>, <<>>, 1),
     address |-> File(<<Proxy(l4, TRUE, none)>>, <<>>, 1),
     output |-> File(<<Proxy(l1, TRUE, "gone")>>, <<Web>>, 1),
     format |-> File(<<Proxy(l1, TRUE, "web")>>,
                     <<Profile("web", Small("xml"), none)>>, 1),
     direction |-> File(<<Proxy(l1, TRUE, "web")>>,
                        <<Profile("web", Small("hex"), Small("both"))>>, 1),
     torn |-> [parses |-> FALSE]]
MCFiles == DOMAIN MCContent
=============================================================================

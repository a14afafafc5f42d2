------------------------------ MODULE MCPortal ------------------------------
(* Two peers and one request of every kind that the portal treats apart.      *)
EXTENDS Portal

Req(method, uri, host, body, q, b) ==
    [valid |-> TRUE, method |-> method, uri |-> uri, host |-> host, body |-> body, q |-> q, b |-> b]

Visitor == {
    [Req("GET", "root", "ip", "none", <<>>, <<>>) EXCEPT !.valid = FALSE],
    Req("GET", "other", "name", "none", <<>>, <<>>),
    Req("POST", "wifisave", "ip", "empty", <<>>, <<>>),
    Req("POST", "wifisave", "ip", "encoded", <<>>, <<"lab">>),
    Req("POST", "wifi", "ip", "form", <<>>, <<"lab">>),
    Req("GET", "reset", "ip", "none", <<>>, <<>>) }

Probe == { Req("GET", "root", None, "none", <<>>, <<>>) }

PortalSetups == {
    [timeout |-> 0, brk |-> TRUE, flash |-> Blank],
    [timeout |-> PortalTimeout, brk |-> FALSE, flash |-> "home"] }

TimeoutSetups == { s \in PortalSetups : s.timeout # 0 }

PortalSends == [c \in {"visitor", "probe"} |-> IF c = "visitor" THEN Visitor ELSE Probe]
=============================================================================

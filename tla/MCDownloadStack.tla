--------------------------- MODULE MCDownloadStack ---------------------------
(***************************************************************************)
(* Finite instances of DownloadStack for TLC.                              *)
(***************************************************************************)
EXTENDS DownloadStack

NoWant == [c \in ClientNames |-> [s \in Settings |-> NoValue]]

Want(limit, flag) ==
    [c \in ClientNames |-> [s \in Settings |-> IF s = "limit" THEN limit ELSE flag]]

Stack(vpn, cred, region, clients, want) ==
    [vpn |-> vpn, cred |-> cred, region |-> region, restart |-> TRUE,
     suspend |-> FALSE, clients |-> clients, want |-> want]

\* Clients of both ways of writing, split between two specs: an edit goes from
\* one type of VPN to the other and from some clients to the others.  The
\* switch that is off is sent to Deluge and not to SABnzbd.
SyncSpecs ==
    {Stack("openvpn", TRUE, NoValue, {"Transmission", "RTorrent"}, Want(1, 1)),
     Stack("wireguard", FALSE, "eu", {"QBittorrent", "Deluge", "SABnzbd"},
           [Want(1, 0) EXCEPT !["QBittorrent"] = NoWant["QBittorrent"]])}

\* For liveness: a change of credentials, an object without clients, suspension.
LiveSpecs ==
    {Stack("openvpn", TRUE, NoValue, {"NZBGet"}, Want(1, 0)),
     Stack("openvpn", FALSE, NoValue, {}, NoWant),
     [Stack("openvpn", TRUE, NoValue, {"NZBGet"}, Want(1, 0)) EXCEPT !.suspend = TRUE]}

=============================================================================

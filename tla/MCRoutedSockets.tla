---------------------------- MODULE MCRoutedSockets ----------------------------
(***************************************************************************)
(* Small platforms of multi sockets: chains of initiators, chains of       *)
(* targets, both kinds bound to one another, and a router.                 *)
(***************************************************************************)
EXTENDS RoutedSockets

CONSTANTS m1, m2, m3, w1, w2, w3, j1, j2, t1, t2

\* The router's sockets are w1 and m1.
NotRouted == {{m1, m2, m3, t1, t2}, {w1, w2, w3, j1, j2}, {m1, m2, w2, t1}, {m2, w1, w2, j1}}

\* Two initiators and two targets; a second multi target, around the input
\* socket or beside it; a second multi initiator, around the output socket or
\* bound to the input.
Answering == {{w1, w2, m1, j1, j2, t1}, {w1, m1, m2, j1, t1, t2}}
Invalidating == {{w1, m1, j1, j2, t1, t2}, {w1, m1, m2, j1, t1}}

SmallPlatforms ==
    [sockets : NotRouted, kinds : {{"nb_transport_bw", "b_transport"}}]
    \cup [sockets : Answering, kinds : {{"nb_transport_fw", "nb_transport_bw"}}]
    \cup [sockets : Invalidating,
           kinds : {Kinds}]
=============================================================================

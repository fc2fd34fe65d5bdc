------------------------------- MODULE MCLinks -------------------------------
(***************************************************************************)
(* Small platforms for Links: each of the ways two sockets can be linked.  *)
(***************************************************************************)
EXTENDS Links

CONSTANTS m1, g1, g2, t1, u1, w1, v1, b1, b2, b3, o1, x1, y1

Ok == <<"TLM_OK_RESPONSE", "MEM_MAP_OK_RESPONSE">>
AddressError == <<"TLM_ADDRESS_ERROR_RESPONSE", "MEM_MAP_ADDRESS_ERROR_RESPONSE">>

PlatformOf(present, n, optional, kinds, statuses) ==
    [present |-> present, limit |-> [s \in Sockets \cup Adapted |-> n], optional |-> optional,
     plain |-> {}, kinds |-> kinds, answers |-> [status : statuses, dmi : {TRUE}]]

SmallPlatforms == {
    \* peers of both kinds at one target: two places for three, or no limit
    PlatformOf({m1, g1, g2, t1}, 2, {g1, g2, m1}, {"transport_dbg", "nb_transport_bw"}, {AddressError}),
    PlatformOf({m1, g1, g2, t1}, 0, {t1}, {"b_transport"}, {AddressError}),
    \* plain sockets of a module that binds its interfaces late
    [PlatformOf({m1, x1, g1, t1}, 0, {m1, x1, g1, t1}, {"nb_transport_bw"}, {Ok})
        EXCEPT !.plain = {m1, t1}],
    \* an initiator whose adapter has a generic target, directly or through a
    \* socket around; every status
    PlatformOf({m1, u1, w1}, 2, {u1}, {"b_transport", "nb_transport_bw"}, Status),
    PlatformOf({m1, w1, t1}, 2, {m1, t1}, {"b_transport"}, {Ok}),
    \* a bidirectional socket behind an initiator socket with an adapter
    PlatformOf({b1, b2, x1, w1}, 2, {b1, b2, x1}, {}, {Ok}),
    \* a target behind a socket around, alone or with three places and peers of
    \* its own
    PlatformOf({g1, v1, t1}, 0, {t1, g1}, {"b_transport", "nb_transport_bw"}, {Ok}),
    PlatformOf({m1, b1, g1, g2, v1, t1}, 3, {m1, b1, g1, g2, t1}, {}, {Ok}),
    \* two adapters in a row
    PlatformOf({m1, t1}, 1, {}, {"nb_transport_fw", "nb_transport_bw", "get_direct_mem_ptr",
                                 "invalidate_direct_mem_ptr"}, Status),
    \* bidirectional sockets, with one around and with one-way peers
    PlatformOf({b1, b2, o1}, 1, {}, {"b_transport", "nb_transport_bw"}, {Ok}),
    PlatformOf({b1, b2, b3}, 2, {b1, b2, b3}, {}, {Ok}),
    [PlatformOf({b1, b2, t1}, 2, {b1, b2, t1}, {"nb_transport_fw"}, {Ok}) EXCEPT !.plain = {b1, t1}],
    PlatformOf({m1, b1, t1}, 1, {}, {"b_transport", "nb_transport_bw"}, {AddressError}),
    \* memory-mapped sockets around: of an initiator, of a target with two places,
    \* and of the two directions of a bidirectional socket
    PlatformOf({m1, x1, u1, t1}, 2, {m1, x1, u1, t1}, {"b_transport", "nb_transport_bw"}, {AddressError}),
    PlatformOf({y1, t1, g1, g2, m1}, 2, {y1, t1, g1, g2, m1}, {}, {Ok}),
    PlatformOf({b1, b2, x1, y1}, 1, {b1, b2, x1, y1}, {"nb_transport_bw"}, {Ok})}

\* The first of them with the target behind a socket around.
BehindPlatform == {p \in SmallPlatforms : v1 \in p.present /\ m1 \notin p.present}

SomeRequests == {
    [cmd |-> <<"TLM_READ_COMMAND", "MEM_MAP_READ_COMMAND">>, data |-> "here", len |-> 1],
    [cmd |-> <<"TLM_WRITE_COMMAND", "MEM_MAP_WRITE_COMMAND">>, data |-> "there", len |-> 5]}
=============================================================================

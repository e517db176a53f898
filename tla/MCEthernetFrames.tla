-------------------------- MODULE MCEthernetFrames --------------------------
(***************************************************************************)
(* Three workloads: frames at any time, also two at once, from a host that *)
(* is known and one outside the network; the stack's own packets to a host *)
(* that changes its hardware address; and the announcements of three hosts *)
(* to a table for two, with the timer running around its counter.          *)
(***************************************************************************)
EXTENDS EthernetFrames

Bursts ==
    [frames |-> {Incoming("REQUEST", "a", "1"), Incoming("IP", "far", "9")},
     depth |-> 2, timers |-> {}, calm |-> FALSE]

Periodic ==
    [frames |-> {Incoming("REQUEST", "a", "1"), Incoming("REPLY", "a", "2")},
     depth |-> 1, timers |-> {"periodic"}, calm |-> FALSE]

Announcements ==
    [frames |-> {Incoming("REPLY", "a", "1"), Incoming("REPLY", "a", "2"),
                 Incoming("REPLY", "b", "3"), Incoming("REPLY", "c", "4")},
     depth |-> 1, timers |-> {"arp"}, calm |-> TRUE]

Workloads == {Bursts, Periodic, Announcements}

=============================================================================

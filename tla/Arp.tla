-------------------------------- MODULE Arp ---------------------------------
(***************************************************************************)
(* The table of hardware addresses of uip_arp.c and the three functions    *)
(* that use it, as operators on its contents.                              *)
(*                                                                         *)
(* Times are those of arptime, a counter of one byte which uip_arp_timer   *)
(* increments; differences are taken as int.  A dropped entry loses its IP *)
(* address and keeps the rest.  No default router is ever set: its address *)
(* is that of an unused entry.                                             *)
(***************************************************************************)
EXTENDS Integers, FiniteSets

CONSTANTS
    TableSize,    \* UIP_ARPTAB_SIZE
    TimeModulus,  \* 256, the values of arptime
    MaxAge,       \* UIP_ARP_MAXAGE
    Local         \* the addresses on the local network

NoIp == "0.0.0.0"
NoMac == "0"
Broadcast == "ff"

ASSUME ArpAssumption ==
    /\ TableSize \in Nat \ {0} /\ TimeModulus \in Nat \ {0}
    /\ MaxAge \in 1 .. TimeModulus
    /\ NoIp \notin Local

Slot == 1 .. TableSize
Time == 0 .. TimeModulus - 1
EmptyTable == [i \in Slot |-> [ip |-> NoIp, mac |-> NoMac, time |-> 0]]

First(S) == CHOOSE i \in S : \A j \in S : i <= j

At(table, ip) == {i \in Slot : table[i].ip = ip}

\* Mutant of Drop: the distance of the two times counts, in both directions.
DropDistant(table, now) ==
    LET Distance(i) == IF now >= table[i].time THEN now - table[i].time
                                               ELSE table[i].time - now IN
    [i \in Slot |-> IF table[i].ip # NoIp /\ Distance(i) >= MaxAge
                    THEN [table[i] EXCEPT !.ip = NoIp] ELSE table[i]]

\* uip_arp_timer.
Drop(table, now) ==
    [i \in Slot |-> IF table[i].ip # NoIp /\ now - table[i].time >= MaxAge
                    THEN [table[i] EXCEPT !.ip = NoIp] ELSE table[i]]

\* The entry thrown away when none is unused: the first one of the greatest
\* age, as far as ages are positive, or the first entry.
Oldest(table, now) ==
    LET Older(i, j) == now - table[i].time > now - table[j].time
        Positive == {i \in Slot : now - table[i].time > 0} IN
    IF Positive = {} THEN 1
    ELSE First({i \in Positive : \A j \in Positive : ~Older(j, i)})

\* Mutant of Place: a new entry is made without looking for an old one.
PlaceAnew(table, ip, now) ==
    IF At(table, NoIp) # {} THEN First(At(table, NoIp)) ELSE Oldest(table, now)

Place(table, ip, now) ==
    IF At(table, ip) # {} THEN First(At(table, ip))
    ELSE IF At(table, NoIp) # {} THEN First(At(table, NoIp))
    ELSE Oldest(table, now)

\* uip_arp_update.
Update(table, ip, mac, now) ==
    [table EXCEPT ![Place(table, ip, now)] = [ip |-> ip, mac |-> mac, time |-> now]]

\* uip_arp_out: the address looked for, and the entry found for it.
NextHop(ip) == IF ip \in Local THEN ip ELSE NoIp
Known(table, ip) == At(table, NextHop(ip)) # {}
MacFor(table, ip) == table[First(At(table, NextHop(ip)))].mac

=============================================================================

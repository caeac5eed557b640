------------------------------ MODULE Services -------------------------------
(***************************************************************************)
(* The programs of several machines that agree on addresses, gateways and  *)
(* name servers by heartbeats (src/applications): inject probes the        *)
(* Internet, sets up the firewall and sends the beat; sniff keeps the host *)
(* table, the route, /etc/resolv.conf and two files; arpupdater and the    *)
(* display read those files.  They share nothing but files, each of which  *)
(* is emptied before it is written.  What a beat says of the links is the  *)
(* subject of Heartbeats.                                                  *)
(***************************************************************************)
EXTENDS Integers, Sequences, FiniteSets

CONSTANTS
  Node,           \* machines, named by their MAC address
  LittleEndian,   \* those that swap in htonl and ntohl: laptops, not routers
  Embedded,       \* those that run the OpenWRT build: routers
  Servers,        \* the name servers in each machine's own resolv.conf
  MaxHosts,       \* MAX_NUM_OF_HOSTS
  Shown,          \* 30 seconds: how long the display shows a host's numbers
  Plans           \* what a behaviour may do: the machines' addresses, the WANs
                  \* that are up at first, who runs inject, sniff, arpupdater and the
                  \* display, and how many beats are sent, WANs change, machines
                  \* restart and seconds pass

Octets == [1 .. 4 -> Nat]

ASSUME ServicesAssumption ==
  /\ LittleEndian \subseteq Node /\ Embedded \subseteq Node
  /\ Servers \in [Node -> Seq(Octets)]
  /\ MaxHosts \in Nat \ {0} /\ Shown \in Nat
  /\ Plans \subseteq [addr : [Node -> Octets], up : SUBSET Node,
                      senders : SUBSET Node, listeners : SUBSET Node,
                      fixers : SUBSET Node, watchers : SUBSET Node,
                      beats : Nat, flips : Nat, restarts : Nat, ticks : Nat]

VARIABLES
  addr,       \* each machine's address
  wan,        \* the Internet answers on its WAN interface
  inject,     \* where inject stands: "asleep", "probed", "emptied", "written"
  online,     \* the answer to inject's last ping
  isGw,       \* the gateway file: "1", "0" or "" while it is written
  flag,       \* g_is_gw_flag
  firewall,   \* the rules last loaded: "forward" or "flush"
  sniff,      \* where sniff stands: "idle", "gateway", "servers", "table", "dead"
  held,       \* the beat sniff is working on
  table,      \* hostlist: address and time of the hosts heard
  hosts,      \* the hosts file: addresses by MAC
  routes,     \* default routes, by gateway address
  resolv,     \* /etc/resolv.conf
  gnst,       \* the statistics file: per sender, the time its numbers carry
  arp,        \* the fixed ARP entries
  display,    \* the display: its names, the last cell it has printed, alive
  heard,      \* history: when each machine last accepted each host
  air,        \* beats on their way
  now,
  plan

injectVars == <<inject, online, isGw, flag, firewall>>
sniffVars == <<sniff, held, table, hosts, routes, resolv, gnst, heard>>
readerVars == <<arp, display>>
vars == <<addr, wan, injectVars, sniffVars, readerVars, air, now, plan>>

NoHosts == [m \in {} |-> 0]
NoBeat == [src |-> CHOOSE n \in Node : TRUE, ip |-> <<0, 0, 0, 0>>, gw |-> FALSE,
           dns |-> <<>>]
Beat == [src : Node, ip : Octets, gw : BOOLEAN, dns : Seq(Octets)]
NoCell == [host |-> CHOOSE n \in Node : TRUE, numbers |-> FALSE, at |-> 0]

Init ==
  /\ plan \in Plans
  /\ addr = plan.addr /\ wan = [n \in Node |-> n \in plan.up]
  /\ inject = [n \in Node |-> "asleep"] /\ online = [n \in Node |-> FALSE]
  /\ isGw = [n \in Node |-> "0"] /\ flag = [n \in Node |-> 0]
  /\ firewall = [n \in Node |-> "flush"]
  /\ sniff = [n \in Node |-> "idle"] /\ held = [n \in Node |-> NoBeat]
  /\ table = [n \in Node |-> NoHosts] /\ hosts = [n \in Node |-> NoHosts]
  /\ routes = [n \in Node |-> {}] /\ resolv = Servers
  /\ gnst = [n \in Node |-> NoHosts] /\ arp = [n \in Node |-> NoHosts]
  /\ display = [n \in Node |-> [names |-> {}, cell |-> NoCell, alive |-> TRUE]]
  /\ heard = [n \in Node |-> NoHosts]
  /\ air = {} /\ now = 0

Spend(what) == plan[what] > 0 /\ plan' = [plan EXCEPT ![what] = @ - 1]
With(f, m, v) == [k \in DOMAIN f \cup {m} |-> IF k = m THEN v ELSE f[k]]

------------------------------------------------------------------------------
(* Addresses on the wire                                                   *)

Swapped(a) == <<a[4], a[3], a[2], a[1]>>

\* inet_addr and htonl, on the way out; ntohl and inet_ntoa, on the way in.
\* Between machines of different byte order the octets arrive in reverse.
Wire(n, a) == IF n \in LittleEndian THEN Swapped(a) ELSE a
Received(n, a) == IF n \in LittleEndian THEN Swapped(a) ELSE a

------------------------------------------------------------------------------
(* inject                                                                  *)

\* set_gw_status: one ping, which may also be lost
Probe(n) ==
  /\ inject[n] = "asleep" /\ n \in plan.senders /\ plan.beats > 0
  /\ inject' = [inject EXCEPT ![n] = "probed"]
  /\ \E answer \in {FALSE, wan[n]} : online' = [online EXCEPT ![n] = answer]
  /\ UNCHANGED <<addr, wan, isGw, flag, firewall, sniffVars, readerVars, air, now, plan>>

\* write_gw_status_into_file: the shell empties the file, then echo writes it.
EmptyStatus(n) ==
  /\ inject[n] = "probed"
  /\ inject' = [inject EXCEPT ![n] = "emptied"]
  /\ isGw' = [isGw EXCEPT ![n] = ""]
  /\ UNCHANGED <<addr, wan, online, flag, firewall, sniffVars, readerVars, air, now, plan>>

WriteStatus(n) ==
  /\ inject[n] = "emptied"
  /\ inject' = [inject EXCEPT ![n] = "written"]
  /\ isGw' = [isGw EXCEPT ![n] = IF online[n] THEN "1" ELSE "0"]
  /\ UNCHANGED <<addr, wan, online, flag, firewall, sniffVars, readerVars, air, now, plan>>

\* read_and_pack_dns: the first MAX_NUM_DNS_TX lines
FirstThree(s) == IF Len(s) > 3 THEN SubSeq(s, 1, 3) ELSE s
PackDns(n) == LET s == FirstThree(resolv[n]) IN [i \in 1 .. Len(s) |-> Wire(n, s[i])]

\* The rules that flush_all.sh leaves.  The router's build takes its path for a
\* laptop's, because the code tests IS_EMB_GW, and does not find it.
Flushed(n) == IF n \in Embedded THEN firewall[n] ELSE "flush"

\* Mutant: the rules are flushed only if this process has loaded them
FlushOnce(n) ==
  /\ firewall' = [firewall EXCEPT ![n] =
       IF online[n] THEN "forward" ELSE IF flag[n] = 1 THEN Flushed(n) ELSE @]
  /\ flag' = [flag EXCEPT ![n] = IF online[n] THEN 1 ELSE 0]

\* handle_dns_and_iptables: the rules are loaded once and flushed every time.
SetFirewall(n) ==
  /\ firewall' = [firewall EXCEPT ![n] =
       IF ~online[n] THEN Flushed(n) ELSE IF flag[n] = 0 THEN "forward" ELSE @]
  /\ flag' = [flag EXCEPT ![n] = IF online[n] THEN 1 ELSE 0]

\* create_gnsm_packet and SendRawPacket; any set of machines hears it.
SendBeat(n) ==
  /\ inject[n] = "written" /\ Spend("beats")
  /\ inject' = [inject EXCEPT ![n] = "asleep"]
  /\ SetFirewall(n)
  /\ \E S \in SUBSET plan.listeners :
       air' = air \cup {[to |-> m, beat |->
         [src |-> n, ip |-> Wire(n, addr[n]), gw |-> online[n],
          dns |-> IF online[n] THEN PackDns(n) ELSE <<>>]] : m \in S}
  /\ UNCHANGED <<addr, wan, online, isGw, sniffVars, readerVars, now>>

------------------------------------------------------------------------------
(* sniff                                                                   *)

\* Mutant: only the machine's own address is protected
OwnAddressOnly(n, ip) == n \in DOMAIN table[n] /\ table[n][n].ip = ip

SameAddress(n, ip) == \E m \in DOMAIN table[n] : table[n][m].ip = ip

\* Mutant: one host too many
FullTooLate(n) == Cardinality(DOMAIN table[n]) > MaxHosts

Full(n) == Cardinality(DOMAIN table[n]) >= MaxHosts

\* check_and_add_new_host, which rewrites the hosts file first
Hear(n) ==
  /\ sniff[n] = "idle"
  /\ \E f \in air :
       /\ f.to = n
       /\ air' = air \ {f}
       /\ held' = [held EXCEPT ![n] = f.beat]
       /\ LET src == f.beat.src
              ip == Received(n, f.beat.ip)
              new == src \notin DOMAIN table[n]
              clash == new /\ ~Full(n) /\ SameAddress(n, ip)
              refused == clash \/ (new /\ Full(n))
          IN /\ sniff' = [sniff EXCEPT ![n] =
                  IF clash /\ src = n THEN "dead" ELSE IF refused THEN "idle" ELSE "gateway"]
             /\ IF refused
                THEN UNCHANGED <<table, heard>>
                ELSE /\ table' = [table EXCEPT ![n] = With(@, src, [ip |-> ip, at |-> now])]
                     /\ heard' = [heard EXCEPT ![n] = With(@, src, now)]
  /\ hosts' = [hosts EXCEPT ![n] = [m \in DOMAIN table[n] |-> table[n][m].ip]]
  /\ UNCHANGED <<addr, wan, injectVars, routes, resolv, gnst, readerVars, now, plan>>

\* The route command is refused unless the gateway is on the mesh's network;
\* a router has no sudo.
Routable(n, ip) == n \notin Embedded /\ \A k \in 1 .. 3 : ip[k] = addr[n][k]

\* The end of parse_ethernet_packet: a laptop opens the statistics file, which
\* empties it, and a router writes none.
OpenTable(n) ==
  IF n \in Embedded
  THEN sniff' = [sniff EXCEPT ![n] = "idle"] /\ UNCHANGED gnst
  ELSE sniff' = [sniff EXCEPT ![n] = "table"] /\ gnst' = [gnst EXCEPT ![n] = NoHosts]

\* Mutant: resolv.conf is opened for appending
ReadStatusAppends(n) ==
  /\ sniff[n] = "gateway"
  /\ IF isGw[n] # "1" /\ held[n].gw
     THEN LET ip == Received(n, held[n].ip)
          IN /\ routes' = [routes EXCEPT ![n] = IF Routable(n, ip) THEN @ \cup {ip} ELSE @]
             /\ UNCHANGED resolv
             /\ sniff' = [sniff EXCEPT ![n] = "servers"]
             /\ UNCHANGED gnst
     ELSE /\ OpenTable(n)
          /\ UNCHANGED <<routes, resolv>>
  /\ UNCHANGED <<addr, wan, injectVars, held, table, hosts, heard, readerVars, air, now, plan>>

\* my_gw_status and process_gw_info, up to the emptied resolv.conf
ReadStatus(n) ==
  /\ sniff[n] = "gateway"
  /\ IF isGw[n] # "1" /\ held[n].gw
     THEN LET ip == Received(n, held[n].ip)
          IN /\ routes' = [routes EXCEPT ![n] = IF Routable(n, ip) THEN @ \cup {ip} ELSE @]
             /\ resolv' = [resolv EXCEPT ![n] = <<>>]
             /\ sniff' = [sniff EXCEPT ![n] = "servers"]
             /\ UNCHANGED gnst
     ELSE /\ OpenTable(n)
          /\ UNCHANGED <<routes, resolv>>
  /\ UNCHANGED <<addr, wan, injectVars, held, table, hosts, heard, readerVars, air, now, plan>>

\* process_gw_info, the rest, and the emptied statistics file
WriteServers(n) ==
  /\ sniff[n] = "servers"
  /\ resolv' = [resolv EXCEPT ![n] =
       @ \o [i \in 1 .. Len(held[n].dns) |-> Received(n, held[n].dns[i])]]
  /\ OpenTable(n)
  /\ UNCHANGED <<addr, wan, injectVars, held, table, hosts, routes, heard, readerVars,
                 air, now, plan>>

\* Mutant: a row carries the time at which it is written
RowsOfNow(t) == [m \in DOMAIN t |-> now]

\* write_gnst: a row per ordered pair of hosts, none for a host alone
Rows(t) == IF Cardinality(DOMAIN t) > 1 THEN [m \in DOMAIN t |-> t[m].at] ELSE NoHosts

WriteTable(n) ==
  /\ sniff[n] = "table"
  /\ sniff' = [sniff EXCEPT ![n] = "idle"]
  /\ gnst' = [gnst EXCEPT ![n] = Rows(table[n])]
  /\ UNCHANGED <<addr, wan, injectVars, held, table, hosts, routes, resolv, heard,
                 readerVars, air, now, plan>>

------------------------------------------------------------------------------
(* The readers of the files                                                *)

\* Mutant: every address is taken as it is
TakenAsIs(a) == a

\* An address that does not begin with 192 is taken to be reversed.
Straightened(a) == IF a[1] = 192 THEN a ELSE Swapped(a)

\* arpupdater, on laptops
UpdateArp(n) ==
  /\ n \in plan.fixers \ Embedded
  /\ arp' = [arp EXCEPT ![n] =
       [m \in DOMAIN @ \cup (DOMAIN hosts[n] \ {n}) |->
          IF m \in DOMAIN hosts[n] \ {n} THEN Straightened(hosts[n][m]) ELSE @[m]]]
  /\ UNCHANGED <<addr, wan, injectVars, sniffVars, display, air, now, plan>>

Displaying(n) == n \in plan.watchers \ Embedded /\ display[n].alive

\* add_or_update_hosts: names come and never go.
CollectNames(n) ==
  /\ Displaying(n)
  /\ display' = [display EXCEPT ![n].names = @ \cup DOMAIN gnst[n]]
  /\ UNCHANGED <<addr, wan, injectVars, sniffVars, arp, air, now, plan>>

\* get_stats_from_file, once per cell: the file may be another one by then, and
\* the array it returns, dead by the time it is copied, may be overwritten.
Cells(n, m) ==
  LET fresh == m \in DOMAIN gnst[n] /\ now - gnst[n][m] <= Shown
  IN {[host |-> m, numbers |-> b, at |-> now] : b \in {FALSE, fresh}}

\* display_gnst
PrintCell(n) ==
  /\ Displaying(n)
  /\ \E m \in display[n].names : \E c \in Cells(n, m) :
       display' = [display EXCEPT ![n].cell = c]
  /\ UNCHANGED <<addr, wan, injectVars, sniffVars, arp, air, now, plan>>

\* display_distances parses the cells of its own row, and dies of one that is
\* empty or overwritten.
PrintDistance(n) ==
  /\ Displaying(n) /\ display[n].names \ {n} # {}
  /\ \/ /\ n \in DOMAIN gnst[n]
        /\ \E c \in Cells(n, n) : display' = [display EXCEPT ![n].cell = c]
     \/ display' = [display EXCEPT ![n].alive = FALSE]
  /\ UNCHANGED <<addr, wan, injectVars, sniffVars, arp, air, now, plan>>

------------------------------------------------------------------------------
(* The machines around them                                                *)

ChangeWan(n) ==
  /\ Spend("flips")
  /\ wan' = [wan EXCEPT ![n] = ~@]
  /\ UNCHANGED <<addr, injectVars, sniffVars, readerVars, air, now>>

\* lifenet_stop and lifenet_start: inject and sniff are killed wherever they
\* stand, taking the interface down clears its routes and ARP entries, a laptop
\* removes its hosts file and the other files stay.
Restart(n) ==
  /\ Spend("restarts")
  /\ inject' = [inject EXCEPT ![n] = "asleep"] /\ flag' = [flag EXCEPT ![n] = 0]
  /\ sniff' = [sniff EXCEPT ![n] = "idle"]
  /\ table' = [table EXCEPT ![n] = NoHosts]
  /\ hosts' = [hosts EXCEPT ![n] = IF n \in Embedded THEN @ ELSE NoHosts]
  /\ routes' = [routes EXCEPT ![n] = {}] /\ arp' = [arp EXCEPT ![n] = NoHosts]
  /\ UNCHANGED <<addr, wan, online, isGw, firewall, held, resolv, gnst, display, heard,
                 air, now>>

Tick ==
  /\ Spend("ticks")
  /\ now' = now + 1
  /\ UNCHANGED <<addr, wan, injectVars, sniffVars, readerVars, air>>

Next ==
  \/ \E n \in Node :
       \/ Probe(n) \/ EmptyStatus(n) \/ WriteStatus(n) \/ SendBeat(n)
       \/ Hear(n) \/ ReadStatus(n) \/ WriteServers(n) \/ WriteTable(n)
       \/ UpdateArp(n) \/ CollectNames(n) \/ PrintCell(n) \/ PrintDistance(n)
       \/ ChangeWan(n) \/ Restart(n)
  \/ Tick

Spec == Init /\ [][Next]_vars

------------------------------------------------------------------------------
TypeOK ==
  /\ addr \in [Node -> Octets] /\ wan \in [Node -> BOOLEAN]
  /\ inject \in [Node -> {"asleep", "probed", "emptied", "written"}]
  /\ online \in [Node -> BOOLEAN] /\ isGw \in [Node -> {"1", "0", ""}]
  /\ flag \in [Node -> 0 .. 1] /\ firewall \in [Node -> {"forward", "flush"}]
  /\ sniff \in [Node -> {"idle", "gateway", "servers", "table", "dead"}]
  /\ held \in [Node -> Beat]
  /\ \A n \in Node :
       /\ table[n] \in [DOMAIN table[n] -> [ip : Octets, at : Nat]]
       /\ hosts[n] \in [DOMAIN hosts[n] -> Octets]
       /\ arp[n] \in [DOMAIN arp[n] -> Octets]
       /\ gnst[n] \in [DOMAIN gnst[n] -> Nat]
       /\ heard[n] \in [DOMAIN heard[n] -> Nat]
       /\ Cardinality(DOMAIN table[n]) <= MaxHosts
  /\ resolv \in [Node -> Seq(Octets)]
  /\ now \in Nat

(***************************************************************************)
(* An ARP entry that arpupdater fixed gives a machine's MAC its own        *)
(* address, whatever byte orders the beat has crossed, as long as the      *)
(* mesh's addresses begin with 192 and the machine's does not end with it  *)
(* (ArpUpdater/main.c, 118): the test on the first octet undoes a swap     *)
(* that inject and sniff do not know of.                                   *)
(***************************************************************************)
ArpRight ==
  \A n, m \in Node :
    m \in DOMAIN arp[n] /\ addr[m][1] = 192 /\ addr[m][4] # 192 => arp[n][m] = addr[m]

(***************************************************************************)
(* When inject has sent a beat, a laptop forwards if and only if the        *)
(* gateway file, which sniff reads, says that it is a gateway: whatever     *)
(* rules an inject that was killed has left behind.  A router forwards at   *)
(* least when it says so (Inject/supporting_functions.c, 123).              *)
(***************************************************************************)
FirewallFollows ==
  [][\A n \in Node :
       inject[n] = "written" /\ inject'[n] = "asleep" /\ plan'.beats < plan.beats
         => /\ isGw'[n] = "1" => firewall'[n] = "forward"
            /\ n \notin Embedded => (firewall'[n] = "forward" => isGw'[n] = "1")]_vars

(***************************************************************************)
(* Two machines of one address are in a host table together only if their  *)
(* byte orders differ, so that their addresses look different there        *)
(* (Sniff/supporting_functions.c, 161).                                    *)
(***************************************************************************)
ConflictsApart ==
  \A n \in Node : \A m1, m2 \in DOMAIN table[n] :
    m1 # m2 /\ addr[m1] = addr[m2] => (m1 \in LittleEndian) # (m2 \in LittleEndian)

\* A list of servers as it looks after one change of byte order
Reversed(s) == [i \in 1 .. Len(s) |-> Swapped(s[i])]

(***************************************************************************)
(* However gateways come, go and learn from each other, resolv.conf is one *)
(* machine's list, at most cut to three and reversed, or empty: never a    *)
(* mixture of two (Sniff/supporting_functions.c, 621).                     *)
(***************************************************************************)
ServersOfOneGateway ==
  \A n \in Node :
    \/ resolv[n] = <<>> \/ resolv[n] = Servers[n]
    \/ \E g \in Node : resolv[n] \in {FirstThree(Servers[g]), Reversed(FirstThree(Servers[g]))}

(***************************************************************************)
(* A cell of the display shows numbers only of a host that was heard       *)
(* within the last half minute, although it is read from a file that other *)
(* hosts' beats rewrite, from one that is being written, or from one that  *)
(* a sniffer killed since has left (DisplayGnst/main.c, 213).              *)
(***************************************************************************)
ShownIsFresh ==
  \A n \in Node : LET c == display[n].cell IN
    c.numbers => /\ c.host \in DOMAIN heard[n]
                 /\ c.at - heard[n][c.host] <= Shown
==============================================================================

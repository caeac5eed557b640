--------------------------- MODULE ServicesProofs ----------------------------
(***************************************************************************)
(* Proofs about Services, for every set of machines, mixture of byte       *)
(* orders, address plan, server list, table size and number of restarts.   *)
(* AddrInv says what a machine's address looks like in a host table        *)
(* (Look), FireInv ties the firewall to the gateway file, ListInv says     *)
(* which lists of servers can be on their way, and TimeInv orders the      *)
(* times in the table, the statistics file and the history.                *)
(***************************************************************************)
EXTENDS Services, FiniteSetTheorems, TLAPS

------------------------------------------------------------------------------
(* Addresses and lists of them                                             *)

LEMMA SwappedType ==
  ASSUME NEW a \in Octets
  PROVE  Swapped(a) \in Octets
<1>1. a[1] \in Nat /\ a[2] \in Nat /\ a[3] \in Nat /\ a[4] \in Nat
  BY DEF Octets
<1>2. QED
  BY <1>1 DEF Octets, Swapped

LEMMA SwappedAt ==
  ASSUME NEW a \in Octets
  PROVE  /\ Swapped(a)[1] = a[4] /\ Swapped(a)[2] = a[3]
         /\ Swapped(a)[3] = a[2] /\ Swapped(a)[4] = a[1]
BY DEF Swapped

LEMMA SwappedTwice ==
  ASSUME NEW a \in Octets
  PROVE  Swapped(Swapped(a)) = a
<1>1. Swapped(a) \in Octets /\ Swapped(Swapped(a)) \in Octets
  BY SwappedType
<1>2. \A k \in 1 .. 4 : Swapped(Swapped(a))[k] = a[k]
  <2>1. 1 .. 4 = {1, 2, 3, 4}
    OBVIOUS
  <2>2. QED
    BY <1>1, <2>1, SwappedAt
<1>3. QED
  BY <1>1, <1>2 DEF Octets

LEMMA WireType ==
  ASSUME NEW n, NEW a \in Octets
  PROVE  Wire(n, a) \in Octets /\ Received(n, a) \in Octets
BY SwappedType DEF Wire, Received

LEMMA ReversedIs ==
  ASSUME NEW s \in Seq(Octets)
  PROVE  /\ Reversed(s) \in Seq(Octets)
         /\ Len(Reversed(s)) = Len(s)
         /\ \A i \in 1 .. Len(s) : Reversed(s)[i] = Swapped(s[i])
<1>1. \A i \in 1 .. Len(s) : Swapped(s[i]) \in Octets
  BY SwappedType
<1>2. QED
  BY <1>1 DEF Reversed

LEMMA ReversedTwice ==
  ASSUME NEW s \in Seq(Octets)
  PROVE  Reversed(Reversed(s)) = s
<1>1. Reversed(s) \in Seq(Octets) /\ Reversed(Reversed(s)) \in Seq(Octets)
  BY ReversedIs
<1>2. Len(Reversed(Reversed(s))) = Len(s)
  BY <1>1, ReversedIs
<1>3. ASSUME NEW i \in 1 .. Len(s)
      PROVE  Reversed(Reversed(s))[i] = s[i]
  <2>1. Reversed(Reversed(s))[i] = Swapped(Reversed(s)[i])
    BY <1>1, ReversedIs
  <2>2. Reversed(s)[i] = Swapped(s[i]) /\ s[i] \in Octets
    BY ReversedIs
  <2>3. QED
    BY <2>1, <2>2, SwappedTwice
<1>4. QED
  BY <1>1, <1>2, <1>3

LEMMA FirstThreeIs ==
  ASSUME NEW s \in Seq(Octets)
  PROVE  /\ FirstThree(s) \in Seq(Octets) /\ Len(FirstThree(s)) <= 3
         /\ Len(s) <= 3 => FirstThree(s) = s
BY DEF FirstThree

\* inject's and sniff's conversions of a whole list
Swaps(n, s) == IF n \in LittleEndian THEN Reversed(s) ELSE s

LEMMA SwapsType ==
  ASSUME NEW n, NEW s \in Seq(Octets)
  PROVE  Swaps(n, s) \in Seq(Octets)
BY ReversedIs DEF Swaps

LEMMA PacksIs ==
  ASSUME NEW n, NEW s \in Seq(Octets)
  PROVE  [i \in 1 .. Len(s) |-> Wire(n, s[i])] = Swaps(n, s)
<1>1. CASE n \in LittleEndian
  BY <1>1 DEF Wire, Swaps, Reversed
<1>2. CASE n \notin LittleEndian
  BY <1>2 DEF Wire, Swaps
<1>3. QED
  BY <1>1, <1>2

LEMMA UnpacksIs ==
  ASSUME NEW n, NEW s \in Seq(Octets)
  PROVE  [i \in 1 .. Len(s) |-> Received(n, s[i])] = Swaps(n, s)
<1>1. CASE n \in LittleEndian
  BY <1>1 DEF Received, Swaps, Reversed
<1>2. CASE n \notin LittleEndian
  BY <1>2 DEF Received, Swaps
<1>3. QED
  BY <1>1, <1>2

------------------------------------------------------------------------------
(* Types                                                                   *)

\* Functions on some of the machines
Partial(S) == UNION {[D -> S] : D \in SUBSET Node}
Entry == [ip : Octets, at : Nat]

LEMMA PartialIs ==
  ASSUME NEW S, NEW f \in Partial(S)
  PROVE  f \in [DOMAIN f -> S] /\ DOMAIN f \subseteq Node
BY DEF Partial

LEMMA IntoPartial ==
  ASSUME NEW S, NEW D \in SUBSET Node, NEW f \in [D -> S]
  PROVE  f \in Partial(S)
BY DEF Partial

LEMMA NoHostsIs ==
  ASSUME NEW S
  PROVE  NoHosts \in Partial(S) /\ DOMAIN NoHosts = {}
BY DEF NoHosts, Partial

LEMMA WithRow ==
  ASSUME NEW f \in Partial(Entry), NEW m \in Node, NEW v \in Entry
  PROVE  /\ With(f, m, v) \in Partial(Entry)
         /\ DOMAIN With(f, m, v) = DOMAIN f \cup {m}
         /\ With(f, m, v)[m] = v
         /\ \A k \in DOMAIN f : k # m => With(f, m, v)[k] = f[k]
<1>1. f \in [DOMAIN f -> Entry] /\ DOMAIN f \cup {m} \in SUBSET Node
  BY PartialIs
<1>2. With(f, m, v) \in [DOMAIN f \cup {m} -> Entry]
  BY <1>1 DEF With
<1>3. With(f, m, v) \in Partial(Entry)
  BY <1>1, <1>2, IntoPartial
<1>4. QED
  BY <1>1, <1>2, <1>3 DEF With

LEMMA WithTime ==
  ASSUME NEW f \in Partial(Nat), NEW m \in Node, NEW v \in Nat
  PROVE  /\ With(f, m, v) \in Partial(Nat)
         /\ DOMAIN With(f, m, v) = DOMAIN f \cup {m}
         /\ With(f, m, v)[m] = v
         /\ \A k \in DOMAIN f : k # m => With(f, m, v)[k] = f[k]
<1>1. f \in [DOMAIN f -> Nat] /\ DOMAIN f \cup {m} \in SUBSET Node
  BY PartialIs
<1>2. With(f, m, v) \in [DOMAIN f \cup {m} -> Nat]
  BY <1>1 DEF With
<1>3. With(f, m, v) \in Partial(Nat)
  BY <1>1, <1>2, IntoPartial
<1>4. QED
  BY <1>1, <1>2, <1>3 DEF With

InjectStages == {"asleep", "probed", "emptied", "written"}
SniffStages == {"idle", "gateway", "servers", "table", "dead"}
GatewayFiles == {"1", "0", ""}
Rules == {"forward", "flush"}

InjectTypes ==
  /\ wan \in [Node -> BOOLEAN] /\ inject \in [Node -> InjectStages]
  /\ online \in [Node -> BOOLEAN] /\ isGw \in [Node -> GatewayFiles]
  /\ flag \in [Node -> 0 .. 1] /\ firewall \in [Node -> Rules]

SniffTypes ==
  /\ sniff \in [Node -> SniffStages] /\ held \in [Node -> Beat]
  /\ table \in [Node -> Partial(Entry)] /\ heard \in [Node -> Partial(Nat)]
  /\ hosts \in [Node -> Partial(Octets)] /\ gnst \in [Node -> Partial(Nat)]
  /\ resolv \in [Node -> Seq(Octets)]

TableBound ==
  \A n \in Node : IsFiniteSet(DOMAIN table[n]) /\ Cardinality(DOMAIN table[n]) <= MaxHosts

Types ==
  /\ addr \in [Node -> Octets]
  /\ InjectTypes /\ SniffTypes
  /\ arp \in [Node -> Partial(Octets)]
  /\ \A f \in air : f.beat \in Beat
  /\ now \in Nat
  /\ TableBound

\* The variables Types speaks of, by the parts it is made of
injectTyped == <<wan, injectVars>>
sniffTyped == <<sniff, held, table, heard, hosts, gnst, resolv>>

LEMMA InjectSame ==
  ASSUME InjectTypes, UNCHANGED injectTyped
  PROVE  InjectTypes'
BY DEF InjectTypes, injectTyped, injectVars

LEMMA SniffSame ==
  ASSUME SniffTypes, UNCHANGED sniffTyped
  PROVE  SniffTypes'
BY DEF SniffTypes, sniffTyped

LEMMA TableSame ==
  ASSUME TableBound, UNCHANGED table
  PROVE  TableBound'
BY DEF TableBound

LEMMA InjectTypesStep ==
  ASSUME Types, NEW n \in Node,
         Probe(n) \/ EmptyStatus(n) \/ WriteStatus(n) \/ ChangeWan(n)
  PROVE  Types'
<1>1. UNCHANGED <<addr, sniffTyped, arp, air, now>>
  BY DEF Probe, EmptyStatus, WriteStatus, ChangeWan, sniffTyped, sniffVars, readerVars
<1>2. InjectTypes'
  BY DEF Types, InjectTypes, InjectStages, GatewayFiles, Probe, EmptyStatus, WriteStatus,
         ChangeWan, injectVars
<1>3. SniffTypes' /\ TableBound'
  BY <1>1, SniffSame, TableSame DEF Types, sniffTyped
<1>4. QED
  BY <1>1, <1>2, <1>3 DEF Types

LEMMA PackDnsIs ==
  ASSUME NEW n, resolv[n] \in Seq(Octets)
  PROVE  PackDns(n) = Swaps(n, FirstThree(resolv[n])) /\ PackDns(n) \in Seq(Octets)
<1>1. FirstThree(resolv[n]) \in Seq(Octets)
  BY FirstThreeIs
<1>2. PackDns(n) = Swaps(n, FirstThree(resolv[n]))
  BY <1>1, PacksIs DEF PackDns
<1>3. QED
  BY <1>1, <1>2, SwapsType

\* What SendBeat puts on the air
Sent(n) ==
  [src |-> n, ip |-> Wire(n, addr[n]), gw |-> online[n],
   dns |-> IF online[n] THEN PackDns(n) ELSE <<>>]

LEMMA SentType ==
  ASSUME Types, NEW n \in Node
  PROVE  Sent(n) \in Beat
<1>1. addr[n] \in Octets /\ online[n] \in BOOLEAN /\ resolv[n] \in Seq(Octets)
  BY DEF Types, InjectTypes, SniffTypes
<1>2. Wire(n, addr[n]) \in Octets /\ PackDns(n) \in Seq(Octets) /\ <<>> \in Seq(Octets)
  BY <1>1, WireType, PackDnsIs
<1>3. QED
  BY <1>1, <1>2 DEF Sent, Beat

LEMMA SentOnAir ==
  ASSUME NEW n, SendBeat(n), NEW f \in air'
  PROVE  f \in air \/ f.beat = Sent(n)
BY DEF SendBeat, Sent

LEMMA SendBeatTypes ==
  ASSUME Types, NEW n \in Node, SendBeat(n)
  PROVE  Types'
<1>1. UNCHANGED <<addr, wan, online, isGw, sniffTyped, arp, now>>
  BY DEF SendBeat, sniffTyped, sniffVars, readerVars
<1>2. inject' \in [Node -> InjectStages]
  BY DEF SendBeat, Types, InjectTypes, InjectStages
<1>3. flag' \in [Node -> 0 .. 1]
  BY DEF SendBeat, SetFirewall, Types, InjectTypes
<1>4. firewall' \in [Node -> Rules]
  <2>1. "forward" \in Rules /\ "flush" \in Rules /\ firewall \in [Node -> Rules]
    BY DEF Rules, Types, InjectTypes
  <2>2. Flushed(n) \in Rules
    BY <2>1 DEF Flushed
  <2>3. QED
    BY <2>1, <2>2 DEF SendBeat, SetFirewall
<1>5. InjectTypes'
  BY <1>1, <1>2, <1>3, <1>4 DEF Types, InjectTypes
<1>6. SniffTypes' /\ TableBound'
  BY <1>1, SniffSame, TableSame DEF Types, sniffTyped
<1>7. \A f \in air' : f.beat \in Beat
  BY SentOnAir, SentType DEF Types
<1>8. QED
  BY <1>1, <1>5, <1>6, <1>7 DEF Types

\* The row that n keeps of the machine that sent the beat b
RowOf(n, b) == [ip |-> Received(n, b.ip), at |-> now]

\* n accepts the beat b, or refuses it.
Accepts(n, b) ==
  /\ table' = [table EXCEPT ![n] = With(table[n], b.src, RowOf(n, b))]
  /\ heard' = [heard EXCEPT ![n] = With(heard[n], b.src, now)]
  /\ sniff' = [sniff EXCEPT ![n] = "gateway"]
  /\ b.src \notin DOMAIN table[n]
       => ~Full(n) /\ ~SameAddress(n, Received(n, b.ip))

Refuses(n) ==
  /\ UNCHANGED <<table, heard>>
  /\ \E stage \in {"idle", "dead"} : sniff' = [sniff EXCEPT ![n] = stage]

LEMMA HearIs ==
  ASSUME NEW n \in Node, Hear(n)
  PROVE  \E f \in air :
           /\ air' \subseteq air
           /\ held' = [held EXCEPT ![n] = f.beat]
           /\ Accepts(n, f.beat) \/ Refuses(n)
<1>1. PICK f \in air :
        /\ air' = air \ {f}
        /\ held' = [held EXCEPT ![n] = f.beat]
        /\ LET src == f.beat.src
               ip == Received(n, f.beat.ip)
               new == src \notin DOMAIN table[n]
               clash == new /\ ~Full(n) /\ SameAddress(n, ip)
               refused == clash \/ (new /\ Full(n))
           IN /\ sniff' = [sniff EXCEPT ![n] =
                   IF clash /\ src = n THEN "dead" ELSE IF refused THEN "idle" ELSE "gateway"]
              /\ IF refused
                 THEN UNCHANGED <<table, heard>>
                 ELSE /\ table' = [table EXCEPT ![n] = With(@, src, [ip |-> ip, at |-> now])]
                      /\ heard' = [heard EXCEPT ![n] = With(@, src, now)]
  BY DEF Hear
<1> DEFINE new == f.beat.src \notin DOMAIN table[n]
           clash == new /\ ~Full(n) /\ SameAddress(n, Received(n, f.beat.ip))
           refused == clash \/ (new /\ Full(n))
<1>2. CASE refused
  <2>1. UNCHANGED <<table, heard>>
    BY <1>1, <1>2
  <2>2. sniff' = [sniff EXCEPT ![n] = "dead"] \/ sniff' = [sniff EXCEPT ![n] = "idle"]
    BY <1>1, <1>2
  <2>3. QED
    BY <1>1, <2>1, <2>2 DEF Refuses
<1>3. CASE ~refused
  <2>1. /\ table' = [table EXCEPT ![n] = With(table[n], f.beat.src, RowOf(n, f.beat))]
        /\ heard' = [heard EXCEPT ![n] = With(heard[n], f.beat.src, now)]
    BY <1>1, <1>3 DEF RowOf
  <2>2. sniff' = [sniff EXCEPT ![n] = "gateway"]
    BY <1>1, <1>3
  <2>3. QED
    BY <1>1, <1>3, <2>1, <2>2 DEF Accepts
<1>4. QED
  BY <1>2, <1>3

LEMMA RowOfType ==
  ASSUME Types, NEW n \in Node, NEW b \in Beat
  PROVE  RowOf(n, b) \in Entry /\ b.src \in Node /\ now \in Nat
<1>1. b.ip \in Octets /\ b.src \in Node
  BY DEF Beat
<1>2. Received(n, b.ip) \in Octets /\ now \in Nat
  BY <1>1, WireType DEF Types
<1>3. QED
  BY <1>1, <1>2 DEF RowOf, Entry

LEMMA AcceptsTable ==
  ASSUME Types, NEW n \in Node, NEW b \in Beat, Accepts(n, b)
  PROVE  /\ table' \in [Node -> Partial(Entry)]
         /\ heard' \in [Node -> Partial(Nat)]
         /\ \A k \in Node : k # n => table'[k] = table[k] /\ heard'[k] = heard[k]
         /\ DOMAIN table'[n] = DOMAIN table[n] \cup {b.src}
         /\ table'[n][b.src] = RowOf(n, b)
         /\ \A m \in DOMAIN table[n] : m # b.src => table'[n][m] = table[n][m]
         /\ DOMAIN heard'[n] = DOMAIN heard[n] \cup {b.src}
         /\ heard'[n][b.src] = now
         /\ \A m \in DOMAIN heard[n] : m # b.src => heard'[n][m] = heard[n][m]
<1>1. RowOf(n, b) \in Entry /\ b.src \in Node /\ now \in Nat
  BY RowOfType
<1>2. table \in [Node -> Partial(Entry)] /\ heard \in [Node -> Partial(Nat)]
  BY DEF Types, SniffTypes
<1>3. PICK t \in Partial(Entry) :
        /\ t = With(table[n], b.src, RowOf(n, b))
        /\ DOMAIN t = DOMAIN table[n] \cup {b.src}
        /\ t[b.src] = RowOf(n, b)
        /\ \A m \in DOMAIN table[n] : m # b.src => t[m] = table[n][m]
  <2>1. PICK f \in Partial(Entry), src \in Node, v \in Entry :
          f = table[n] /\ src = b.src /\ v = RowOf(n, b)
    BY <1>1, <1>2
  <2>2. /\ With(f, src, v) \in Partial(Entry)
        /\ DOMAIN With(f, src, v) = DOMAIN f \cup {src}
        /\ With(f, src, v)[src] = v
        /\ \A m \in DOMAIN f : m # src => With(f, src, v)[m] = f[m]
    BY WithRow
  <2>3. QED
    BY <2>1, <2>2
<1>4. PICK h \in Partial(Nat) :
        /\ h = With(heard[n], b.src, now)
        /\ DOMAIN h = DOMAIN heard[n] \cup {b.src}
        /\ h[b.src] = now
        /\ \A m \in DOMAIN heard[n] : m # b.src => h[m] = heard[n][m]
  <2>1. PICK f \in Partial(Nat), src \in Node, v \in Nat :
          f = heard[n] /\ src = b.src /\ v = now
    BY <1>1, <1>2
  <2>2. /\ With(f, src, v) \in Partial(Nat)
        /\ DOMAIN With(f, src, v) = DOMAIN f \cup {src}
        /\ With(f, src, v)[src] = v
        /\ \A m \in DOMAIN f : m # src => With(f, src, v)[m] = f[m]
    BY WithTime
  <2>3. QED
    BY <2>1, <2>2
<1>5. table' = [table EXCEPT ![n] = t] /\ heard' = [heard EXCEPT ![n] = h]
  BY <1>3, <1>4 DEF Accepts
<1>6. QED
  BY <1>2, <1>3, <1>4, <1>5

LEMMA AddressesOf ==
  ASSUME NEW t \in Partial(Entry)
  PROVE  [m \in DOMAIN t |-> t[m].ip] \in Partial(Octets)
<1>1. t \in [DOMAIN t -> Entry] /\ DOMAIN t \in SUBSET Node
  BY PartialIs
<1>2. \A m \in DOMAIN t : t[m].ip \in Octets
  BY <1>1 DEF Entry
<1>3. [m \in DOMAIN t |-> t[m].ip] \in [DOMAIN t -> Octets]
  BY <1>2
<1>4. QED
  BY <1>1, <1>3, IntoPartial

\* The hosts file that Hear writes
LEMMA HearHosts ==
  ASSUME Types, NEW n \in Node, Hear(n)
  PROVE  /\ hosts' \in [Node -> Partial(Octets)]
         /\ hosts'[n] = [m \in DOMAIN table[n] |-> table[n][m].ip]
         /\ \A k \in Node : k # n => hosts'[k] = hosts[k]
<1>1. PICK h \in Partial(Octets) : h = [m \in DOMAIN table[n] |-> table[n][m].ip]
  BY AddressesOf DEF Types, SniffTypes
<1>2. hosts' = [hosts EXCEPT ![n] = h]
  BY <1>1 DEF Hear
<1>3. QED
  BY <1>1, <1>2 DEF Types, SniffTypes

LEMMA HearTypes ==
  ASSUME Types, NEW n \in Node, Hear(n)
  PROVE  Types'
<1>1. PICK f \in air :
        /\ air' \subseteq air
        /\ held' = [held EXCEPT ![n] = f.beat]
        /\ Accepts(n, f.beat) \/ Refuses(n)
  BY HearIs
<1>2. UNCHANGED <<addr, injectTyped, arp, gnst, resolv, now>>
  BY DEF Hear, injectTyped, readerVars
<1>3. f.beat \in Beat /\ \A g \in air' : g.beat \in Beat
  BY <1>1 DEF Types
<1>4. held' \in [Node -> Beat] /\ hosts' \in [Node -> Partial(Octets)]
  BY <1>1, <1>3, HearHosts DEF Types, SniffTypes
<1>5. /\ table' \in [Node -> Partial(Entry)] /\ heard' \in [Node -> Partial(Nat)]
      /\ sniff' \in [Node -> SniffStages]
  <2>1. CASE Accepts(n, f.beat)
    BY <1>3, <2>1, AcceptsTable DEF Accepts, SniffStages, Types, SniffTypes
  <2>2. CASE Refuses(n)
    BY <2>2 DEF Refuses, SniffStages, Types, SniffTypes
  <2>3. QED
    BY <1>1, <2>1, <2>2
<1>6. TableBound'
  <2>1. CASE Refuses(n)
    BY <2>1, TableSame DEF Refuses, Types
  <2>2. CASE Accepts(n, f.beat)
    <3>1. SUFFICES ASSUME NEW k \in Node
                   PROVE  /\ IsFiniteSet(DOMAIN table'[k])
                          /\ Cardinality(DOMAIN table'[k]) <= MaxHosts
      BY DEF TableBound
    <3>2. IsFiniteSet(DOMAIN table[k]) /\ Cardinality(DOMAIN table[k]) <= MaxHosts
      BY DEF Types, TableBound
    <3>3. CASE k # n
      BY <1>3, <2>2, <3>2, <3>3, AcceptsTable
    <3>4. CASE k = n /\ f.beat.src \in DOMAIN table[n]
      <4>0. DOMAIN table'[n] = DOMAIN table[n] \cup {f.beat.src}
        BY <1>3, <2>2, AcceptsTable
      <4>1. DOMAIN table'[n] = DOMAIN table[n]
        BY <4>0, <3>4
      <4>2. QED
        BY <3>2, <3>4, <4>1
    <3>5. CASE k = n /\ f.beat.src \notin DOMAIN table[n]
      <4>1. DOMAIN table'[n] = DOMAIN table[n] \cup {f.beat.src}
        BY <1>3, <2>2, AcceptsTable
      <4>2. ~Full(n)
        BY <2>2, <3>5 DEF Accepts
      <4>3. /\ IsFiniteSet(DOMAIN table'[n])
            /\ Cardinality(DOMAIN table'[n]) = Cardinality(DOMAIN table[n]) + 1
        BY <3>2, <3>5, <4>1, FS_AddElement
      <4>4. Cardinality(DOMAIN table[n]) \in Nat /\ MaxHosts \in Nat
        BY <3>2, <3>5, FS_CardinalityType, ServicesAssumption
      <4>5. Cardinality(DOMAIN table[n]) < MaxHosts
        BY <4>2, <4>4 DEF Full
      <4>6. QED
        BY <3>5, <4>3, <4>4, <4>5
    <3>6. QED
      BY <3>3, <3>4, <3>5
  <2>3. QED
    BY <1>1, <2>1, <2>2
<1>7. InjectTypes' /\ SniffTypes'
  BY <1>2, <1>4, <1>5, InjectSame DEF Types, SniffTypes
<1>8. QED
  BY <1>2, <1>3, <1>6, <1>7 DEF Types

LEMMA OpenTableIs ==
  ASSUME Types, NEW n \in Node, OpenTable(n)
  PROVE  /\ sniff' \in [Node -> SniffStages] /\ gnst' \in [Node -> Partial(Nat)]
         /\ gnst'[n] = gnst[n] \/ gnst'[n] = NoHosts
         /\ \A k \in Node : k # n => gnst'[k] = gnst[k] /\ sniff'[k] = sniff[k]
         /\ sniff'[n] \in {"idle", "table"}
<1>1. sniff \in [Node -> SniffStages] /\ gnst \in [Node -> Partial(Nat)]
  BY DEF Types, SniffTypes
<1>2. "idle" \in SniffStages /\ "table" \in SniffStages
  BY DEF SniffStages
<1>3. PICK e \in Partial(Nat) : e = NoHosts
  BY NoHostsIs
<1>4. CASE n \in Embedded
  BY <1>1, <1>2, <1>4 DEF OpenTable
<1>5. CASE n \notin Embedded
  <2>1. sniff' = [sniff EXCEPT ![n] = "table"] /\ gnst' = [gnst EXCEPT ![n] = e]
    BY <1>3, <1>5 DEF OpenTable
  <2>2. QED
    BY <1>1, <1>2, <1>3, <2>1
<1>6. QED
  BY <1>4, <1>5

\* What follows the test on the gateway file
LEMMA ReadStatusIs ==
  ASSUME Types, NEW n \in Node, ReadStatus(n)
  PROVE  /\ sniff' \in [Node -> SniffStages] /\ gnst' \in [Node -> Partial(Nat)]
         /\ gnst'[n] = gnst[n] \/ gnst'[n] = NoHosts
         /\ \A k \in Node : k # n =>
              /\ gnst'[k] = gnst[k] /\ sniff'[k] = sniff[k] /\ resolv'[k] = resolv[k]
         /\ resolv' \in [Node -> Seq(Octets)]
         /\ \/ resolv'[n] = <<>> /\ sniff'[n] = "servers"
            \/ resolv'[n] = resolv[n] /\ sniff'[n] # "servers"
<1>1. /\ sniff \in [Node -> SniffStages] /\ gnst \in [Node -> Partial(Nat)]
      /\ resolv \in [Node -> Seq(Octets)]
  BY DEF Types, SniffTypes
<1>2. CASE isGw[n] # "1" /\ held[n].gw
  <2>0. <<>> \in Seq(Octets)
    OBVIOUS
  <2>1. PICK none \in Seq(Octets) : none = <<>>
    BY <2>0, Zenon
  <2>2. resolv' = [resolv EXCEPT ![n] = none] /\ gnst' = gnst
        /\ sniff' = [sniff EXCEPT ![n] = "servers"]
    BY <1>2, <2>1 DEF ReadStatus
  <2>3. "servers" \in SniffStages
    BY DEF SniffStages
  <2>4. QED
    BY <1>1, <2>1, <2>2, <2>3
<1>3. CASE ~(isGw[n] # "1" /\ held[n].gw)
  <2>1. OpenTable(n) /\ resolv' = resolv
    BY <1>3 DEF ReadStatus
  <2>2. QED
    BY <1>1, <2>1, OpenTableIs
<1>4. QED
  BY <1>2, <1>3

LEMMA ReadStatusTypes ==
  ASSUME Types, NEW n \in Node, ReadStatus(n)
  PROVE  Types'
<1>1. UNCHANGED <<addr, injectTyped, held, table, heard, hosts, arp, air, now>>
  BY DEF ReadStatus, injectTyped, readerVars
<1>2. SniffTypes'
  BY <1>1, ReadStatusIs DEF Types, SniffTypes
<1>3. InjectTypes' /\ TableBound'
  BY <1>1, InjectSame, TableSame DEF Types
<1>4. QED
  BY <1>1, <1>2, <1>3 DEF Types

\* The list that WriteServers adds
Learnt(n) == Swaps(n, held[n].dns)

LEMMA WriteServersIs ==
  ASSUME Types, NEW n \in Node, WriteServers(n)
  PROVE  /\ Learnt(n) \in Seq(Octets)
         /\ resolv' = [resolv EXCEPT ![n] = resolv[n] \o Learnt(n)]
         /\ resolv' \in [Node -> Seq(Octets)]
<1>1. held[n].dns \in Seq(Octets) /\ resolv \in [Node -> Seq(Octets)]
  BY DEF Types, SniffTypes, Beat
<1>2. PICK s \in Seq(Octets) : s = held[n].dns
  BY <1>1
<1>3. [i \in 1 .. Len(s) |-> Received(n, s[i])] = Learnt(n) /\ Learnt(n) \in Seq(Octets)
  BY <1>2, UnpacksIs, SwapsType DEF Learnt
<1>4. resolv' = [resolv EXCEPT ![n] = resolv[n] \o Learnt(n)]
  BY <1>2, <1>3 DEF WriteServers
<1>5. resolv[n] \o Learnt(n) \in Seq(Octets)
  BY <1>1, <1>3
<1>6. QED
  BY <1>1, <1>3, <1>4, <1>5

LEMMA WriteServersTypes ==
  ASSUME Types, NEW n \in Node, WriteServers(n)
  PROVE  Types'
<1>1. UNCHANGED <<addr, injectTyped, held, table, heard, hosts, arp, air, now>>
  BY DEF WriteServers, injectTyped, readerVars
<1>2. OpenTable(n)
  BY DEF WriteServers
<1>3. SniffTypes'
  BY <1>1, <1>2, WriteServersIs, OpenTableIs DEF Types, SniffTypes
<1>4. InjectTypes' /\ TableBound'
  BY <1>1, InjectSame, TableSame DEF Types
<1>5. QED
  BY <1>1, <1>3, <1>4 DEF Types

LEMMA RowsIs ==
  ASSUME NEW t \in Partial(Entry)
  PROVE  /\ Rows(t) \in Partial(Nat)
         /\ \A m \in DOMAIN Rows(t) : m \in DOMAIN t /\ Rows(t)[m] = t[m].at
<1>1. t \in [DOMAIN t -> Entry] /\ DOMAIN t \in SUBSET Node
  BY PartialIs
<1>2. [m \in DOMAIN t |-> t[m].at] \in [DOMAIN t -> Nat]
  BY <1>1 DEF Entry
<1>3. [m \in DOMAIN t |-> t[m].at] \in Partial(Nat)
  BY <1>1, <1>2, IntoPartial
<1>4. QED
  BY <1>3, NoHostsIs DEF Rows

LEMMA WriteTableIs ==
  ASSUME Types, NEW n \in Node, WriteTable(n)
  PROVE  /\ gnst' \in [Node -> Partial(Nat)] /\ gnst'[n] = Rows(table[n])
         /\ \A k \in Node : k # n => gnst'[k] = gnst[k]
<1>1. PICK r \in Partial(Nat) : r = Rows(table[n])
  BY RowsIs DEF Types, SniffTypes
<1>2. gnst' = [gnst EXCEPT ![n] = r] /\ gnst \in [Node -> Partial(Nat)]
  BY <1>1 DEF WriteTable, Types, SniffTypes
<1>3. QED
  BY <1>1, <1>2

LEMMA WriteTableTypes ==
  ASSUME Types, NEW n \in Node, WriteTable(n)
  PROVE  Types'
<1>1. UNCHANGED <<addr, injectTyped, held, table, heard, hosts, resolv, arp, air, now>>
  BY DEF WriteTable, injectTyped, readerVars
<1>2. sniff' \in [Node -> SniffStages]
  BY DEF WriteTable, Types, SniffTypes, SniffStages
<1>3. SniffTypes'
  BY <1>1, <1>2, WriteTableIs DEF Types, SniffTypes
<1>4. InjectTypes' /\ TableBound'
  BY <1>1, InjectSame, TableSame DEF Types
<1>5. QED
  BY <1>1, <1>3, <1>4 DEF Types

LEMMA StraightenedType ==
  ASSUME NEW a \in Octets
  PROVE  Straightened(a) \in Octets
BY SwappedType DEF Straightened

LEMMA UpdateArpIs ==
  ASSUME Types, NEW n \in Node, UpdateArp(n)
  PROVE  /\ arp' \in [Node -> Partial(Octets)]
         /\ \A k \in Node : k # n => arp'[k] = arp[k]
         /\ \A m \in DOMAIN arp'[n] :
              \/ m \in DOMAIN hosts[n] /\ arp'[n][m] = Straightened(hosts[n][m])
              \/ m \in DOMAIN arp[n] /\ arp'[n][m] = arp[n][m]
<1>1. PICK h \in Partial(Octets), a \in Partial(Octets) : h = hosts[n] /\ a = arp[n]
  BY DEF Types, SniffTypes
<1>2. h \in [DOMAIN h -> Octets] /\ a \in [DOMAIN a -> Octets]
      /\ DOMAIN h \subseteq Node /\ DOMAIN a \subseteq Node
  BY PartialIs
<1> DEFINE D == DOMAIN a \cup (DOMAIN h \ {n})
           new == [m \in D |-> IF m \in DOMAIN h \ {n} THEN Straightened(h[m]) ELSE a[m]]
<1>3. \A m \in D : (IF m \in DOMAIN h \ {n} THEN Straightened(h[m]) ELSE a[m]) \in Octets
  BY <1>2, StraightenedType
<1>4. D \in SUBSET Node /\ new \in [D -> Octets]
  BY <1>2, <1>3
<1>5. new \in Partial(Octets)
  BY <1>4, IntoPartial
<1>6. arp' = [arp EXCEPT ![n] = new] /\ arp \in [Node -> Partial(Octets)]
  BY <1>1 DEF UpdateArp, Types
<1>7. QED
  BY <1>1, <1>5, <1>6

LEMMA UpdateArpTypes ==
  ASSUME Types, NEW n \in Node, UpdateArp(n)
  PROVE  Types'
<1>1. UNCHANGED <<addr, injectTyped, sniffTyped, air, now>>
  BY DEF UpdateArp, injectTyped, sniffTyped, sniffVars
<1>2. InjectTypes' /\ SniffTypes' /\ TableBound'
  BY <1>1, InjectSame, SniffSame, TableSame DEF Types, sniffTyped
<1>3. QED
  BY <1>1, <1>2, UpdateArpIs DEF Types

\* What a restart leaves of the tables
LEMMA RestartIs ==
  ASSUME Types, NEW n \in Node, Restart(n)
  PROVE  /\ table' \in [Node -> Partial(Entry)] /\ hosts' \in [Node -> Partial(Octets)]
         /\ arp' \in [Node -> Partial(Octets)]
         /\ DOMAIN table'[n] = {} /\ DOMAIN arp'[n] = {}
         /\ DOMAIN hosts'[n] = {} \/ hosts'[n] = hosts[n]
         /\ \A k \in Node : k # n =>
              table'[k] = table[k] /\ hosts'[k] = hosts[k] /\ arp'[k] = arp[k]
<1>1. PICK t \in Partial(Entry) : t = NoHosts /\ DOMAIN t = {}
  BY NoHostsIs
<1>2. PICK e \in Partial(Octets) : e = NoHosts /\ DOMAIN e = {}
  BY NoHostsIs
<1>3. /\ table \in [Node -> Partial(Entry)] /\ hosts \in [Node -> Partial(Octets)]
      /\ arp \in [Node -> Partial(Octets)]
  BY DEF Types, SniffTypes
<1>4. PICK h \in Partial(Octets) : h = IF n \in Embedded THEN hosts[n] ELSE e
  BY <1>3
<1>5. /\ table' = [table EXCEPT ![n] = t] /\ arp' = [arp EXCEPT ![n] = e]
      /\ hosts' = [hosts EXCEPT ![n] = h]
  BY <1>1, <1>2, <1>4 DEF Restart
<1>6. QED
  BY <1>1, <1>2, <1>3, <1>4, <1>5

LEMMA RestartTypes ==
  ASSUME Types, NEW n \in Node, Restart(n)
  PROVE  Types'
<1>1. UNCHANGED <<addr, wan, online, isGw, firewall, held, resolv, gnst, heard, air, now>>
  BY DEF Restart
<1>2. inject' \in [Node -> InjectStages] /\ flag' \in [Node -> 0 .. 1]
      /\ sniff' \in [Node -> SniffStages]
  BY DEF Restart, Types, InjectTypes, SniffTypes, InjectStages, SniffStages
<1>3. InjectTypes' /\ SniffTypes'
  BY <1>1, <1>2, RestartIs DEF Types, InjectTypes, SniffTypes
<1>4. TableBound'
  <2>1. SUFFICES ASSUME NEW k \in Node
                 PROVE  /\ IsFiniteSet(DOMAIN table'[k])
                        /\ Cardinality(DOMAIN table'[k]) <= MaxHosts
    BY DEF TableBound
  <2>2. CASE k # n
    BY <2>2, RestartIs DEF Types, TableBound
  <2>3. CASE k = n
    <3>1. DOMAIN table'[k] = {}
      BY <2>3, RestartIs
    <3>2. IsFiniteSet({}) /\ Cardinality({}) = 0 /\ 0 <= MaxHosts
      BY FS_EmptySet, ServicesAssumption
    <3>3. QED
      BY <3>1, <3>2
  <2>4. QED
    BY <2>2, <2>3
<1>5. QED
  BY <1>1, <1>3, <1>4, RestartIs DEF Types

\* Steps that change nothing but the display and the clock
Showing == (\E n \in Node : CollectNames(n) \/ PrintCell(n) \/ PrintDistance(n)) \/ Tick

LEMMA ShowingTypes ==
  ASSUME Types, Showing \/ UNCHANGED vars
  PROVE  Types'
<1>1. UNCHANGED <<addr, injectTyped, sniffTyped, arp, air>>
  BY DEF Showing, CollectNames, PrintCell, PrintDistance, Tick, vars, injectTyped,
         sniffTyped, sniffVars, readerVars
<1>2. now' \in Nat
  BY DEF Showing, CollectNames, PrintCell, PrintDistance, Tick, vars, Types
<1>3. InjectTypes' /\ SniffTypes' /\ TableBound'
  BY <1>1, InjectSame, SniffSame, TableSame DEF Types, sniffTyped
<1>4. QED
  BY <1>1, <1>2, <1>3 DEF Types

LEMMA TypesStep ==
  ASSUME Types, [Next]_vars
  PROVE  Types'
<1>1. CASE Showing \/ UNCHANGED vars
  BY <1>1, ShowingTypes
<1>2. ASSUME NEW n \in Node,
             Probe(n) \/ EmptyStatus(n) \/ WriteStatus(n) \/ SendBeat(n) \/ ChangeWan(n)
      PROVE  Types'
  BY <1>2, InjectTypesStep, SendBeatTypes
<1>3. ASSUME NEW n \in Node,
             Hear(n) \/ ReadStatus(n) \/ WriteServers(n) \/ WriteTable(n)
               \/ UpdateArp(n) \/ Restart(n)
      PROVE  Types'
  BY <1>3, HearTypes, ReadStatusTypes, WriteServersTypes, WriteTableTypes,
     UpdateArpTypes, RestartTypes
<1>4. QED
  BY <1>1, <1>2, <1>3 DEF Next, Showing

LEMMA NoBeatIs ==
  ASSUME NEW n \in Node
  PROVE  NoBeat \in Beat /\ NoBeat.dns = <<>>
<1>1. (CHOOSE m \in Node : TRUE) \in Node
  OBVIOUS
<1>2. <<0, 0, 0, 0>> \in Octets
  BY DEF Octets
<1>3. <<>> \in Seq(Octets)
  OBVIOUS
<1>4. QED
  BY <1>1, <1>2, <1>3 DEF NoBeat, Beat

LEMMA InitTypes ==
  ASSUME Init
  PROVE  Types
<1>1. addr \in [Node -> Octets]
  BY ServicesAssumption DEF Init
<1>2. InjectTypes
  BY DEF Init, InjectTypes, InjectStages, GatewayFiles, Rules
<1>3. SniffTypes
  <2>1. \A n \in Node : NoBeat \in Beat
    BY NoBeatIs
  <2>2. held \in [Node -> Beat] /\ sniff \in [Node -> SniffStages]
    BY <2>1 DEF Init, SniffStages
  <2>3. /\ table \in [Node -> Partial(Entry)] /\ heard \in [Node -> Partial(Nat)]
        /\ hosts \in [Node -> Partial(Octets)] /\ gnst \in [Node -> Partial(Nat)]
    BY NoHostsIs DEF Init
  <2>4. resolv \in [Node -> Seq(Octets)]
    BY ServicesAssumption DEF Init
  <2>5. QED
    BY <2>2, <2>3, <2>4 DEF SniffTypes
<1>4. arp \in [Node -> Partial(Octets)]
  BY NoHostsIs DEF Init
<1>5. TableBound
  <2>1. IsFiniteSet({}) /\ Cardinality({}) = 0 /\ 0 <= MaxHosts
    BY FS_EmptySet, ServicesAssumption
  <2>2. \A n \in Node : DOMAIN table[n] = {}
    BY NoHostsIs DEF Init
  <2>3. QED
    BY <2>1, <2>2 DEF TableBound
<1>6. QED
  BY <1>1, <1>2, <1>3, <1>4, <1>5 DEF Types, Init

LEMMA TypesAlways == Spec => []Types
<1>1. Init => Types
  BY InitTypes
<1>2. Types /\ [Next]_vars => Types'
  BY TypesStep
<1>3. QED
  BY <1>1, <1>2, PTL DEF Spec

LEMMA TypesImply ==
  ASSUME Types
  PROVE  TypeOK
<1>1. ASSUME NEW n \in Node
      PROVE  /\ table[n] \in [DOMAIN table[n] -> Entry]
             /\ hosts[n] \in [DOMAIN hosts[n] -> Octets]
             /\ arp[n] \in [DOMAIN arp[n] -> Octets]
             /\ gnst[n] \in [DOMAIN gnst[n] -> Nat]
             /\ heard[n] \in [DOMAIN heard[n] -> Nat]
             /\ Cardinality(DOMAIN table[n]) <= MaxHosts
  <2>1. /\ table[n] \in Partial(Entry) /\ hosts[n] \in Partial(Octets)
        /\ arp[n] \in Partial(Octets) /\ gnst[n] \in Partial(Nat)
        /\ heard[n] \in Partial(Nat)
    BY DEF Types, SniffTypes
  <2>2. QED
    BY <2>1, PartialIs DEF Types, TableBound
<1>2. QED
  BY <1>1
     DEF Types, TypeOK, InjectTypes, SniffTypes, InjectStages, SniffStages, GatewayFiles,
         Rules, Entry

(***************************************************************************)
(* For every set of machines and plan the variables keep their types, and  *)
(* no host table outgrows MAX_NUM_OF_HOSTS.                                *)
(***************************************************************************)
THEOREM ServicesTypeCorrect == Spec => []TypeOK
<1>1. Types => TypeOK
  BY TypesImply
<1>2. QED
  BY <1>1, TypesAlways, PTL

------------------------------------------------------------------------------
(* Addresses                                                               *)

\* What m's address looks like to n
Look(n, m) == Received(n, Wire(m, addr[m]))

LEMMA LookIs ==
  ASSUME Types, NEW n \in Node, NEW m \in Node
  PROVE  /\ addr[m] \in Octets
         /\ (n \in LittleEndian) = (m \in LittleEndian) => Look(n, m) = addr[m]
         /\ (n \in LittleEndian) # (m \in LittleEndian) => Look(n, m) = Swapped(addr[m])
BY SwappedTwice DEF Types, Look, Received, Wire

(***************************************************************************)
(* Every copy of an address is what the byte orders on its way make of it, *)
(* and no two rows of a host table have the same.                          *)
(***************************************************************************)
AddrInv ==
  /\ \A f \in air : f.beat.ip = Wire(f.beat.src, addr[f.beat.src])
  /\ \A n \in Node : \A m \in DOMAIN table[n] : table[n][m].ip = Look(n, m)
  /\ \A n \in Node : \A m1, m2 \in DOMAIN table[n] :
       m1 # m2 => table[n][m1].ip # table[n][m2].ip
  /\ \A n \in Node : \A m \in DOMAIN hosts[n] : hosts[n][m] = Look(n, m)
  /\ \A n \in Node : \A m \in DOMAIN arp[n] : arp[n][m] = Straightened(Look(n, m))

addrCopies == <<addr, air, table, hosts, arp>>

LEMMA AddrQuiet ==
  ASSUME AddrInv, UNCHANGED addrCopies
  PROVE  AddrInv'
BY DEF AddrInv, addrCopies, Look

LEMMA AddrSend ==
  ASSUME Types, AddrInv, NEW n \in Node, SendBeat(n)
  PROVE  AddrInv'
<1>1. UNCHANGED <<addr, table, hosts, arp>>
  BY DEF SendBeat, sniffVars, readerVars
<1>2. ASSUME NEW f \in air'
      PROVE  f.beat.ip = Wire(f.beat.src, addr[f.beat.src])
  <2>1. f \in air \/ f.beat = Sent(n)
    BY SentOnAir
  <2>2. Sent(n).src = n /\ Sent(n).ip = Wire(n, addr[n])
    BY DEF Sent
  <2>3. QED
    BY <2>1, <2>2 DEF AddrInv
<1>3. QED
  BY <1>1, <1>2 DEF AddrInv, Look

LEMMA AddrHear ==
  ASSUME Types, AddrInv, NEW n \in Node, Hear(n)
  PROVE  AddrInv'
<1>1. PICK f \in air :
        /\ air' \subseteq air
        /\ held' = [held EXCEPT ![n] = f.beat]
        /\ Accepts(n, f.beat) \/ Refuses(n)
  BY HearIs
<1>2. UNCHANGED <<addr, arp>>
  BY DEF Hear, readerVars
<1>3. f.beat \in Beat /\ f.beat.src \in Node /\ f.beat.ip = Wire(f.beat.src, addr[f.beat.src])
  BY DEF Types, AddrInv, Beat
<1>4. RowOf(n, f.beat).ip = Look(n, f.beat.src)
  BY <1>3 DEF RowOf, Look
<1>5. ASSUME NEW k \in Node, NEW m \in DOMAIN hosts'[k]
      PROVE  hosts'[k][m] = Look(k, m)
  <2>1. CASE k = n
    <3>1. hosts'[n] = [q \in DOMAIN table[n] |-> table[n][q].ip]
      BY HearHosts
    <3>2. m \in DOMAIN table[n] /\ hosts'[n][m] = table[n][m].ip
      BY <2>1, <3>1
    <3>3. QED
      BY <2>1, <3>2 DEF AddrInv
  <2>2. CASE k # n
    <3>1. hosts'[k] = hosts[k]
      BY <2>2, HearHosts
    <3>2. QED
      BY <3>1 DEF AddrInv
  <2>3. QED
    BY <2>1, <2>2
<1>6. ASSUME NEW k \in Node
      PROVE  /\ \A m \in DOMAIN table'[k] : table'[k][m].ip = Look(k, m)
             /\ \A m1, m2 \in DOMAIN table'[k] :
                  m1 # m2 => table'[k][m1].ip # table'[k][m2].ip
  <2>1. CASE Refuses(n)
    BY <2>1 DEF Refuses, AddrInv
  <2>2. CASE Accepts(n, f.beat) /\ k # n
    BY <1>3, <2>2, AcceptsTable DEF AddrInv
  <2>3. CASE Accepts(n, f.beat) /\ k = n
    <3>1. /\ DOMAIN table'[n] = DOMAIN table[n] \cup {f.beat.src}
          /\ table'[n][f.beat.src] = RowOf(n, f.beat)
          /\ \A m \in DOMAIN table[n] : m # f.beat.src => table'[n][m] = table[n][m]
      BY <1>3, <2>3, AcceptsTable
    <3>2. \A m \in DOMAIN table'[n] : table'[n][m].ip = Look(n, m)
      BY <3>1, <1>4 DEF AddrInv
    <3>3. \A m \in DOMAIN table[n] :
            m # f.beat.src => table[n][m].ip # Look(n, f.beat.src)
      <4>1. CASE f.beat.src \in DOMAIN table[n]
        BY <4>1 DEF AddrInv
      <4>2. CASE f.beat.src \notin DOMAIN table[n]
        <5>1. ~SameAddress(n, Received(n, f.beat.ip))
          BY <2>3, <4>2 DEF Accepts
        <5>2. QED
          BY <5>1, <1>3 DEF SameAddress, Look
      <4>3. QED
        BY <4>1, <4>2
    <3>4. ASSUME NEW m1 \in DOMAIN table'[n], NEW m2 \in DOMAIN table'[n], m1 # m2
          PROVE  table'[n][m1].ip # table'[n][m2].ip
      <4>1. CASE m1 = f.beat.src
        BY <3>1, <3>3, <3>4, <4>1, <1>4
      <4>2. CASE m2 = f.beat.src
        BY <3>1, <3>3, <3>4, <4>2, <1>4
      <4>3. CASE m1 # f.beat.src /\ m2 # f.beat.src
        BY <3>1, <3>4, <4>3 DEF AddrInv
      <4>4. QED
        BY <4>1, <4>2, <4>3
    <3>5. QED
      BY <2>3, <3>2, <3>4
  <2>4. QED
    BY <1>1, <2>1, <2>2, <2>3
<1>7. QED
  BY <1>1, <1>2, <1>5, <1>6 DEF AddrInv, Look

LEMMA AddrArp ==
  ASSUME Types, AddrInv, NEW n \in Node, UpdateArp(n)
  PROVE  AddrInv'
<1>1. UNCHANGED <<addr, air, table, hosts>>
  BY DEF UpdateArp, sniffVars
<1>2. \A k \in Node : \A m \in DOMAIN arp'[k] : arp'[k][m] = Straightened(Look(k, m))
  BY UpdateArpIs DEF AddrInv
<1>3. QED
  BY <1>1, <1>2 DEF AddrInv, Look

LEMMA AddrRestart ==
  ASSUME Types, AddrInv, NEW n \in Node, Restart(n)
  PROVE  AddrInv'
<1>1. UNCHANGED <<addr, air>>
  BY DEF Restart
<1>2. \A k \in Node : /\ DOMAIN table'[k] = {} \/ table'[k] = table[k]
                      /\ DOMAIN hosts'[k] = {} \/ hosts'[k] = hosts[k]
                      /\ DOMAIN arp'[k] = {} \/ arp'[k] = arp[k]
  BY RestartIs
<1>3. QED
  BY <1>1, <1>2 DEF AddrInv, Look

LEMMA AddrStep ==
  ASSUME Types, AddrInv, [Next]_vars
  PROVE  AddrInv'
<1>1. CASE Showing \/ UNCHANGED vars
  BY <1>1, AddrQuiet
     DEF Showing, CollectNames, PrintCell, PrintDistance, Tick, vars, sniffVars,
         readerVars, addrCopies
<1>2. ASSUME NEW n \in Node,
             Probe(n) \/ EmptyStatus(n) \/ WriteStatus(n) \/ ChangeWan(n)
               \/ ReadStatus(n) \/ WriteServers(n) \/ WriteTable(n)
      PROVE  AddrInv'
  BY <1>2, AddrQuiet
     DEF Probe, EmptyStatus, WriteStatus, ChangeWan, ReadStatus, WriteServers, WriteTable,
         sniffVars, readerVars, addrCopies
<1>3. ASSUME NEW n \in Node, SendBeat(n) \/ Hear(n) \/ UpdateArp(n) \/ Restart(n)
      PROVE  AddrInv'
  BY <1>3, AddrSend, AddrHear, AddrArp, AddrRestart
<1>4. QED
  BY <1>1, <1>2, <1>3 DEF Next, Showing

LEMMA AddrAlways == Spec => [](Types /\ AddrInv)
<1>1. Init => AddrInv
  <2>1. SUFFICES ASSUME Init
                 PROVE  AddrInv
    OBVIOUS
  <2>2. \A n \in Node : /\ DOMAIN table[n] = {} /\ DOMAIN hosts[n] = {}
                        /\ DOMAIN arp[n] = {}
    BY <2>1, NoHostsIs DEF Init
  <2>3. QED
    BY <2>1, <2>2 DEF Init, AddrInv
<1>2. Types /\ AddrInv /\ [Next]_vars => AddrInv'
  BY AddrStep
<1>3. QED
  BY <1>1, <1>2, TypesAlways, PTL DEF Spec

(***************************************************************************)
(* For every mixture of byte orders and every address plan: where the      *)
(* mesh's addresses begin with 192 and the machine's does not end with it, *)
(* arpupdater never fixes a wrong address for a MAC.                       *)
(***************************************************************************)
THEOREM ArpAlwaysRight == Spec => []ArpRight
<1>1. Types /\ AddrInv => ArpRight
  <2>1. SUFFICES ASSUME Types, AddrInv, NEW n \in Node, NEW m \in Node,
                        m \in DOMAIN arp[n], addr[m][1] = 192, addr[m][4] # 192
                 PROVE  arp[n][m] = addr[m]
    BY DEF ArpRight
  <2>2. arp[n][m] = Straightened(Look(n, m)) /\ addr[m] \in Octets
    BY <2>1, LookIs DEF AddrInv
  <2>3. CASE Look(n, m) = addr[m]
    BY <2>1, <2>2, <2>3 DEF Straightened
  <2>4. CASE Look(n, m) = Swapped(addr[m])
    BY <2>1, <2>2, <2>4, SwappedAt, SwappedTwice DEF Straightened
  <2>5. QED
    BY <2>1, <2>3, <2>4, LookIs
<1>2. QED
  BY <1>1, AddrAlways, PTL

(***************************************************************************)
(* For every number of machines: two of them that have one address are in  *)
(* a host table together only if their byte orders differ.                 *)
(***************************************************************************)
THEOREM ConflictsKeptApart == Spec => []ConflictsApart
<1>1. Types /\ AddrInv => ConflictsApart
  <2>1. SUFFICES ASSUME Types, AddrInv, NEW n \in Node,
                        NEW m1 \in DOMAIN table[n], NEW m2 \in DOMAIN table[n],
                        m1 # m2, addr[m1] = addr[m2],
                        (m1 \in LittleEndian) = (m2 \in LittleEndian)
                 PROVE  FALSE
    BY DEF ConflictsApart
  <2>2. table[n] \in Partial(Entry)
    BY <2>1 DEF Types, SniffTypes
  <2>3. m1 \in Node /\ m2 \in Node
    BY <2>1, <2>2, PartialIs
  <2>4. Look(n, m1) = Look(n, m2)
    BY <2>1, <2>3, LookIs
  <2>5. QED
    BY <2>1, <2>4 DEF AddrInv
<1>2. QED
  BY <1>1, AddrAlways, PTL

------------------------------------------------------------------------------
(* The firewall                                                            *)

(***************************************************************************)
(* inject's flag is set only while its rules are loaded, and between its   *)
(* write and its beat the gateway file says what the ping said.            *)
(***************************************************************************)
FireInv ==
  \A n \in Node :
    /\ flag[n] = 1 => firewall[n] = "forward"
    /\ inject[n] = "written" => isGw[n] = IF online[n] THEN "1" ELSE "0"

LEMMA FireQuiet ==
  ASSUME FireInv, UNCHANGED injectVars
  PROVE  FireInv'
BY DEF FireInv, injectVars

LEMMA FireStep ==
  ASSUME Types, FireInv, [Next]_vars
  PROVE  FireInv'
<1>0. /\ inject \in [Node -> InjectStages] /\ online \in [Node -> BOOLEAN]
      /\ isGw \in [Node -> GatewayFiles] /\ flag \in [Node -> 0 .. 1]
      /\ firewall \in [Node -> Rules]
  BY DEF Types, InjectTypes
<1>1. CASE Showing \/ UNCHANGED vars
  BY <1>1, FireQuiet
     DEF Showing, CollectNames, PrintCell, PrintDistance, Tick, vars
<1>2. ASSUME NEW n \in Node,
             Hear(n) \/ ReadStatus(n) \/ WriteServers(n) \/ WriteTable(n)
               \/ UpdateArp(n) \/ ChangeWan(n)
      PROVE  FireInv'
  BY <1>2, FireQuiet DEF Hear, ReadStatus, WriteServers, WriteTable, UpdateArp, ChangeWan
<1>3. ASSUME NEW n \in Node, Probe(n)
      PROVE  FireInv'
  BY <1>0, <1>3 DEF FireInv, Probe
<1>4. ASSUME NEW n \in Node, EmptyStatus(n) \/ WriteStatus(n)
      PROVE  FireInv'
  BY <1>0, <1>4 DEF FireInv, EmptyStatus, WriteStatus
<1>5. ASSUME NEW n \in Node, SendBeat(n)
      PROVE  FireInv'
  <2>1. /\ inject' = [inject EXCEPT ![n] = "asleep"] /\ UNCHANGED <<online, isGw>>
        /\ SetFirewall(n)
    BY <1>5 DEF SendBeat
  <2>2. flag' = [flag EXCEPT ![n] = IF online[n] THEN 1 ELSE 0]
    BY <2>1 DEF SetFirewall
  <2>3. \A k \in Node : k # n => firewall'[k] = firewall[k]
    BY <2>1, <1>0 DEF SetFirewall
  <2>4. online[n] => firewall'[n] = "forward"
    BY <2>1, <1>0 DEF SetFirewall, FireInv
  <2>5. QED
    BY <1>0, <2>1, <2>2, <2>3, <2>4 DEF FireInv
<1>6. ASSUME NEW n \in Node, Restart(n)
      PROVE  FireInv'
  BY <1>0, <1>6 DEF FireInv, Restart
<1>7. QED
  BY <1>1, <1>2, <1>3, <1>4, <1>5, <1>6 DEF Next, Showing

LEMMA FireAlways == Spec => [](Types /\ FireInv)
<1>1. Init => FireInv
  BY DEF Init, FireInv
<1>2. Types /\ FireInv /\ [Next]_vars => FireInv'
  BY FireStep
<1>3. QED
  BY <1>1, <1>2, TypesAlways, PTL DEF Spec

\* The beats that are left to send are a number.
Counted == "beats" \in DOMAIN plan /\ plan.beats \in Int

LEMMA SpendIs ==
  ASSUME Counted, NEW what, Spend(what)
  PROVE  Counted' /\ (what # "beats" => plan'.beats = plan.beats)
BY DEF Counted, Spend

LEMMA CountedStep ==
  ASSUME Counted, [Next]_vars
  PROVE  Counted'
<1>1. CASE UNCHANGED plan
  BY <1>1 DEF Counted
<1>2. CASE \E what : Spend(what)
  BY <1>2, SpendIs
<1>3. QED
  BY <1>1, <1>2
     DEF Next, vars, Probe, EmptyStatus, WriteStatus, SendBeat, Hear, ReadStatus, WriteServers,
         WriteTable, UpdateArp, CollectNames, PrintCell, PrintDistance, ChangeWan, Restart, Tick

LEMMA CountedAlways == Spec => []Counted
<1>1. Init => Counted
  BY ServicesAssumption DEF Init, Counted
<1>2. Counted /\ [Next]_vars => Counted'
  BY CountedStep
<1>3. QED
  BY <1>1, <1>2, PTL DEF Spec

\* A machine that has just sent a beat
JustSent(n) == inject[n] = "written" /\ inject'[n] = "asleep" /\ plan'.beats < plan.beats

LEMMA OnlySendBeat ==
  ASSUME Types, Counted, NEW n \in Node, JustSent(n), [Next]_vars
  PROVE  SendBeat(n)
<1>0. inject \in [Node -> InjectStages]
  BY DEF Types, InjectTypes
<1>1. inject'[n] # inject[n] /\ ~UNCHANGED injectVars
  BY DEF JustSent, injectVars
<1>2. ASSUME NEW k \in Node,
             Probe(k) \/ EmptyStatus(k) \/ WriteStatus(k)
      PROVE  FALSE
  BY <1>0, <1>2 DEF JustSent, Probe, EmptyStatus, WriteStatus
<1>3. ASSUME NEW k \in Node,
             Hear(k) \/ ReadStatus(k) \/ WriteServers(k) \/ WriteTable(k) \/ UpdateArp(k)
               \/ CollectNames(k) \/ PrintCell(k) \/ PrintDistance(k) \/ ChangeWan(k)
      PROVE  FALSE
  BY <1>1, <1>3 DEF Hear, ReadStatus, WriteServers, WriteTable, UpdateArp, CollectNames,
                     PrintCell, PrintDistance, ChangeWan
<1>4. ASSUME NEW k \in Node, Restart(k)
      PROVE  FALSE
  <2>1. Spend("restarts")
    BY <1>4 DEF Restart
  <2>2. plan'.beats = plan.beats
    BY <2>1, SpendIs
  <2>3. QED
    BY <2>2 DEF JustSent, Counted
<1>5. ASSUME NEW k \in Node, SendBeat(k), k # n
      PROVE  FALSE
  BY <1>0, <1>1, <1>5 DEF SendBeat
<1>6. ~Tick /\ ~UNCHANGED vars
  BY <1>1 DEF Tick, vars
<1>7. QED
  BY <1>2, <1>3, <1>4, <1>5, <1>6 DEF Next

(***************************************************************************)
(* For every set of machines: after each beat the rules that are loaded    *)
(* follow the gateway file, whenever inject was killed before.             *)
(***************************************************************************)
THEOREM FirewallAlwaysFollows == Spec => FirewallFollows
<1>1. Types /\ FireInv /\ Counted /\ [Next]_vars
        => [\A n \in Node :
              inject[n] = "written" /\ inject'[n] = "asleep" /\ plan'.beats < plan.beats
                => /\ isGw'[n] = "1" => firewall'[n] = "forward"
                   /\ n \notin Embedded => (firewall'[n] = "forward" => isGw'[n] = "1")]_vars
  <2>1. SUFFICES ASSUME Types, FireInv, Counted, [Next]_vars, NEW n \in Node, JustSent(n)
                 PROVE  /\ isGw'[n] = "1" => firewall'[n] = "forward"
                        /\ n \notin Embedded => (firewall'[n] = "forward" => isGw'[n] = "1")
    BY DEF JustSent
  <2>2. SendBeat(n)
    BY <2>1, OnlySendBeat
  <2>3. /\ isGw' = isGw /\ SetFirewall(n)
        /\ isGw[n] = IF online[n] THEN "1" ELSE "0"
    BY <2>1, <2>2 DEF SendBeat, FireInv, JustSent
  <2>4. firewall \in [Node -> Rules] /\ flag[n] \in 0 .. 1
    BY <2>1 DEF Types, InjectTypes
  <2>5. CASE online[n]
    BY <2>1, <2>3, <2>4, <2>5 DEF SetFirewall, FireInv
  <2>6. CASE ~online[n]
    BY <2>3, <2>4, <2>6 DEF SetFirewall, Flushed
  <2>7. QED
    BY <2>5, <2>6
<1>2. QED
  BY <1>1, FireAlways, CountedAlways, PTL DEF Spec, FirewallFollows

------------------------------------------------------------------------------
(* Lists of servers                                                        *)

Cut(g) == FirstThree(Servers[g])

\* The lists a beat can carry
Carried(s) == s = <<>> \/ \E g \in Node : s = Cut(g) \/ s = Reversed(Cut(g))

(***************************************************************************)
(* A list is written only into an emptied file, and every list on its way  *)
(* is one machine's.                                                       *)
(***************************************************************************)
ListInv ==
  /\ \A n \in Node : resolv[n] = Servers[n] \/ Carried(resolv[n])
  /\ \A n \in Node : Carried(held[n].dns)
  /\ \A n \in Node : sniff[n] = "servers" => resolv[n] = <<>>
  /\ \A f \in air : Carried(f.beat.dns)

listCopies == <<sniff, held, resolv, air>>

LEMMA CutIs ==
  ASSUME NEW g \in Node
  PROVE  /\ Cut(g) \in Seq(Octets) /\ FirstThree(Cut(g)) = Cut(g)
         /\ Reversed(Cut(g)) \in Seq(Octets)
         /\ FirstThree(Reversed(Cut(g))) = Reversed(Cut(g))
         /\ Reversed(Reversed(Cut(g))) = Cut(g)
<1>1. Servers[g] \in Seq(Octets)
  BY ServicesAssumption
<1>2. Cut(g) \in Seq(Octets) /\ Len(Cut(g)) <= 3
  BY <1>1, FirstThreeIs DEF Cut
<1>3. Reversed(Cut(g)) \in Seq(Octets) /\ Len(Reversed(Cut(g))) <= 3
  BY <1>2, ReversedIs
<1>4. QED
  BY <1>2, <1>3, FirstThreeIs, ReversedTwice

LEMMA NoServers ==
  /\ <<>> \in Seq(Octets) /\ FirstThree(<<>>) = <<>> /\ Reversed(<<>>) = <<>>
<1>0. <<>> \in Seq(Octets) /\ Len(<<>>) = 0
  OBVIOUS
<1>1. PICK e \in Seq(Octets) : e = <<>> /\ Len(e) = 0
  BY <1>0, Zenon
<1>2. FirstThree(e) = e
  <2>1. Len(e) <= 3
    BY <1>1
  <2>2. QED
    BY <2>1, FirstThreeIs
<1>3. Reversed(e) \in Seq(Octets) /\ Len(Reversed(e)) = 0
  BY <1>1, ReversedIs
<1>4. QED
  BY <1>1, <1>2, <1>3

LEMMA SwapsCarried ==
  ASSUME NEW n, NEW s, Carried(s)
  PROVE  Carried(Swaps(n, s))
<1>1. CASE s = <<>>
  BY <1>1, NoServers DEF Swaps, Carried
<1>2. ASSUME NEW g \in Node, s = Cut(g) \/ s = Reversed(Cut(g))
      PROVE  Carried(Swaps(n, s))
  <2>1. Swaps(n, s) = Cut(g) \/ Swaps(n, s) = Reversed(Cut(g))
    BY <1>2, CutIs DEF Swaps
  <2>2. QED
    BY <2>1 DEF Carried
<1>3. QED
  BY <1>1, <1>2 DEF Carried

LEMMA FirstCarried ==
  ASSUME NEW n \in Node, NEW s, s = Servers[n] \/ Carried(s)
  PROVE  Carried(FirstThree(s))
<1>1. CASE s = Servers[n]
  BY <1>1 DEF Carried, Cut
<1>2. CASE s = <<>>
  BY <1>2, NoServers DEF Carried
<1>3. ASSUME NEW g \in Node, s = Cut(g) \/ s = Reversed(Cut(g))
      PROVE  Carried(FirstThree(s))
  <2>1. FirstThree(s) = Cut(g) \/ FirstThree(s) = Reversed(Cut(g))
    BY <1>3, CutIs
  <2>2. QED
    BY <2>1 DEF Carried
<1>4. QED
  BY <1>1, <1>2, <1>3 DEF Carried

LEMMA ListQuiet ==
  ASSUME ListInv, UNCHANGED listCopies
  PROVE  ListInv'
BY DEF ListInv, listCopies, Carried, Cut

LEMMA ListSend ==
  ASSUME Types, ListInv, NEW n \in Node, SendBeat(n)
  PROVE  ListInv'
<1>1. UNCHANGED <<sniff, held, resolv>>
  BY DEF SendBeat, sniffVars
<1>2. Carried(Sent(n).dns)
  <2>1. resolv[n] \in Seq(Octets)
    BY DEF Types, SniffTypes
  <2>2. PackDns(n) = Swaps(n, FirstThree(resolv[n]))
    BY <2>1, PackDnsIs
  <2>3. Carried(FirstThree(resolv[n]))
    BY FirstCarried DEF ListInv
  <2>4. Carried(PackDns(n)) /\ Carried(<<>>)
    BY <2>2, <2>3, SwapsCarried DEF Carried
  <2>5. Sent(n).dns = IF online[n] THEN PackDns(n) ELSE <<>>
    BY DEF Sent
  <2>6. QED
    BY <2>4, <2>5
<1>3. ASSUME NEW f \in air'
      PROVE  Carried(f.beat.dns)
  <2>1. f \in air \/ f.beat = Sent(n)
    BY SentOnAir
  <2>2. QED
    BY <2>1, <1>2 DEF ListInv
<1>4. QED
  BY <1>1, <1>3 DEF ListInv, Carried, Cut

LEMMA ListHear ==
  ASSUME Types, ListInv, NEW n \in Node, Hear(n)
  PROVE  ListInv'
<1>1. PICK f \in air :
        /\ air' \subseteq air
        /\ held' = [held EXCEPT ![n] = f.beat]
        /\ Accepts(n, f.beat) \/ Refuses(n)
  BY HearIs
<1>2. UNCHANGED resolv
  BY DEF Hear
<1>3. \A k \in Node : Carried(held'[k].dns)
  BY <1>1 DEF ListInv, Types, SniffTypes
<1>4. \A k \in Node : sniff'[k] = "servers" => sniff[k] = "servers"
  BY <1>1 DEF Accepts, Refuses, Types, SniffTypes
<1>5. QED
  BY <1>1, <1>2, <1>3, <1>4 DEF ListInv, Carried, Cut

LEMMA ListRead ==
  ASSUME Types, ListInv, NEW n \in Node, ReadStatus(n)
  PROVE  ListInv'
<1>1. UNCHANGED <<held, air>>
  BY DEF ReadStatus
<1>2. ASSUME NEW k \in Node
      PROVE  /\ resolv'[k] = Servers[k] \/ Carried(resolv'[k])
             /\ sniff'[k] = "servers" => resolv'[k] = <<>>
  <2>1. CASE k # n
    <3>1. resolv'[k] = resolv[k] /\ sniff'[k] = sniff[k]
      BY <2>1, ReadStatusIs
    <3>2. QED
      BY <3>1 DEF ListInv
  <2>2. CASE k = n
    <3>1. \/ resolv'[n] = <<>> /\ sniff'[n] = "servers"
          \/ resolv'[n] = resolv[n] /\ sniff'[n] # "servers"
      BY ReadStatusIs
    <3>2. QED
      BY <2>2, <3>1 DEF ListInv, Carried
  <2>3. QED
    BY <2>1, <2>2
<1>3. QED
  BY <1>1, <1>2 DEF ListInv, Carried, Cut

LEMMA ListWrite ==
  ASSUME Types, ListInv, NEW n \in Node, WriteServers(n)
  PROVE  ListInv'
<1>1. UNCHANGED <<held, air>> /\ sniff[n] = "servers" /\ OpenTable(n)
  BY DEF WriteServers
<1>2. Learnt(n) \in Seq(Octets) /\ resolv \in [Node -> Seq(Octets)]
      /\ resolv' = [resolv EXCEPT ![n] = resolv[n] \o Learnt(n)]
  BY WriteServersIs DEF Types, SniffTypes
<1>3. resolv'[n] = Learnt(n)
  <2>1. resolv[n] = <<>>
    BY <1>1 DEF ListInv
  <2>2. <<>> \o Learnt(n) = Learnt(n)
    BY <1>2
  <2>3. QED
    BY <1>2, <2>1, <2>2
<1>4. Carried(Learnt(n))
  BY SwapsCarried DEF ListInv, Learnt
<1>5. ASSUME NEW k \in Node
      PROVE  /\ resolv'[k] = Servers[k] \/ Carried(resolv'[k])
             /\ sniff'[k] = "servers" => resolv'[k] = <<>>
  <2>1. CASE k # n
    <3>1. resolv'[k] = resolv[k] /\ sniff'[k] = sniff[k]
      BY <1>1, <1>2, <2>1, OpenTableIs
    <3>2. QED
      BY <3>1 DEF ListInv
  <2>2. CASE k = n
    <3>1. sniff'[n] \in {"idle", "table"}
      BY <1>1, OpenTableIs
    <3>2. QED
      BY <2>2, <3>1, <1>3, <1>4
  <2>3. QED
    BY <2>1, <2>2
<1>6. QED
  BY <1>1, <1>5 DEF ListInv, Carried, Cut

LEMMA ListOther ==
  ASSUME Types, ListInv, NEW n \in Node, WriteTable(n) \/ Restart(n)
  PROVE  ListInv'
<1>1. UNCHANGED <<held, resolv, air>> /\ sniff' = [sniff EXCEPT ![n] = "idle"]
  BY DEF WriteTable, Restart
<1>2. \A k \in Node : sniff'[k] = "servers" => sniff[k] = "servers"
  BY <1>1 DEF Types, SniffTypes
<1>3. QED
  BY <1>1, <1>2 DEF ListInv, Carried, Cut

LEMMA ListStep ==
  ASSUME Types, ListInv, [Next]_vars
  PROVE  ListInv'
<1>1. CASE Showing \/ UNCHANGED vars
  BY <1>1, ListQuiet
     DEF Showing, CollectNames, PrintCell, PrintDistance, Tick, vars, sniffVars, listCopies
<1>2. ASSUME NEW n \in Node,
             Probe(n) \/ EmptyStatus(n) \/ WriteStatus(n) \/ ChangeWan(n) \/ UpdateArp(n)
      PROVE  ListInv'
  BY <1>2, ListQuiet
     DEF Probe, EmptyStatus, WriteStatus, ChangeWan, UpdateArp, sniffVars, listCopies
<1>3. ASSUME NEW n \in Node,
             SendBeat(n) \/ Hear(n) \/ ReadStatus(n) \/ WriteServers(n) \/ WriteTable(n)
               \/ Restart(n)
      PROVE  ListInv'
  BY <1>3, ListSend, ListHear, ListRead, ListWrite, ListOther
<1>4. QED
  BY <1>1, <1>2, <1>3 DEF Next, Showing

(***************************************************************************)
(* For every set of machines and server lists of any length: resolv.conf   *)
(* is empty, the machine's own, or some machine's first three servers in   *)
(* one byte order, whatever beats cross between its two writes.            *)
(***************************************************************************)
THEOREM NeverMixed == Spec => []ServersOfOneGateway
<1>1. Init => ListInv
  <2>1. SUFFICES ASSUME Init
                 PROVE  ListInv
    OBVIOUS
  <2>2. \A n \in Node : held[n].dns = <<>>
    BY <2>1, NoBeatIs DEF Init
  <2>3. QED
    BY <2>1, <2>2 DEF Init, ListInv, Carried
<1>2. Types /\ ListInv /\ [Next]_vars => ListInv'
  BY ListStep
<1>3. ListInv => ServersOfOneGateway
  <2>1. SUFFICES ASSUME ListInv, NEW n \in Node
                 PROVE  \/ resolv[n] = <<>> \/ resolv[n] = Servers[n]
                        \/ \E g \in Node :
                             resolv[n] \in {FirstThree(Servers[g]),
                                           Reversed(FirstThree(Servers[g]))}
    BY DEF ServersOfOneGateway
  <2>2. QED
    BY <2>1 DEF ListInv, Carried, Cut
<1>4. QED
  BY <1>1, <1>2, <1>3, TypesAlways, PTL DEF Spec

------------------------------------------------------------------------------
(* The display                                                             *)

Screens == [names : SUBSET Node,
            cell : [host : Node, numbers : BOOLEAN, at : Nat],
            alive : BOOLEAN]

\* A cell with numbers is about a host heard at most Shown before.
Fresh(n, c) ==
  c.numbers => c.host \in DOMAIN heard[n] /\ c.at - heard[n][c.host] <= Shown

(***************************************************************************)
(* No time in the table or in the statistics file is later than the moment *)
(* the host was last heard, restarts in between included.                  *)
(***************************************************************************)
TimeInv ==
  /\ display \in [Node -> Screens]
  /\ \A n \in Node : \A m \in DOMAIN heard[n] : heard[n][m] <= now
  /\ \A n \in Node : \A m \in DOMAIN table[n] :
       m \in DOMAIN heard[n] /\ table[n][m].at <= heard[n][m]
  /\ \A n \in Node : \A m \in DOMAIN gnst[n] :
       m \in DOMAIN heard[n] /\ gnst[n][m] <= heard[n][m]
  /\ \A n \in Node : Fresh(n, display[n].cell)

timeCopies == <<display, heard, table, gnst, now>>

LEMMA TimeQuiet ==
  ASSUME TimeInv, UNCHANGED timeCopies
  PROVE  TimeInv'
BY DEF TimeInv, timeCopies, Fresh

LEMMA ScreenIs ==
  ASSUME TimeInv, NEW n \in Node
  PROVE  /\ display[n] \in Screens /\ display[n].names \subseteq Node
         /\ display[n].cell.host \in Node /\ display[n].cell.at \in Nat
BY DEF TimeInv, Screens

LEMMA TimeTypes ==
  ASSUME Types, NEW n \in Node
  PROVE  /\ now \in Nat
         /\ \A m \in DOMAIN heard[n] : m \in Node /\ heard[n][m] \in Nat
         /\ \A m \in DOMAIN gnst[n] : m \in Node /\ gnst[n][m] \in Nat
         /\ \A m \in DOMAIN table[n] : m \in Node /\ table[n][m].at \in Nat
<1>1. /\ heard[n] \in Partial(Nat) /\ gnst[n] \in Partial(Nat)
      /\ table[n] \in Partial(Entry) /\ now \in Nat
  BY DEF Types, SniffTypes
<1>2. /\ heard[n] \in [DOMAIN heard[n] -> Nat] /\ DOMAIN heard[n] \subseteq Node
      /\ gnst[n] \in [DOMAIN gnst[n] -> Nat] /\ DOMAIN gnst[n] \subseteq Node
      /\ table[n] \in [DOMAIN table[n] -> Entry] /\ DOMAIN table[n] \subseteq Node
  BY <1>1, PartialIs
<1>3. \A m \in DOMAIN table[n] : table[n][m].at \in Nat
  BY <1>2 DEF Entry
<1>4. QED
  BY <1>1, <1>2, <1>3

LEMMA TimeHear ==
  ASSUME Types, TimeInv, NEW n \in Node, Hear(n)
  PROVE  TimeInv'
<1>1. PICK f \in air :
        /\ air' \subseteq air
        /\ held' = [held EXCEPT ![n] = f.beat]
        /\ Accepts(n, f.beat) \/ Refuses(n)
  BY HearIs
<1>2. UNCHANGED <<display, gnst, now>>
  BY DEF Hear, readerVars
<1>3. CASE Refuses(n)
  BY <1>2, <1>3, TimeQuiet DEF Refuses, timeCopies
<1>4. CASE Accepts(n, f.beat)
  <2>0. f.beat \in Beat /\ f.beat.src \in Node /\ RowOf(n, f.beat).at = now
    BY DEF Types, Beat, RowOf
  <2>1. /\ \A k \in Node : k # n => table'[k] = table[k] /\ heard'[k] = heard[k]
        /\ DOMAIN table'[n] = DOMAIN table[n] \cup {f.beat.src}
        /\ table'[n][f.beat.src].at = now
        /\ \A m \in DOMAIN table[n] : m # f.beat.src => table'[n][m] = table[n][m]
        /\ DOMAIN heard'[n] = DOMAIN heard[n] \cup {f.beat.src}
        /\ heard'[n][f.beat.src] = now
        /\ \A m \in DOMAIN heard[n] : m # f.beat.src => heard'[n][m] = heard[n][m]
    BY <1>4, <2>0, AcceptsTable
  <2>2. ASSUME NEW k \in Node, NEW m \in DOMAIN heard[k]
        PROVE  /\ m \in DOMAIN heard'[k] /\ heard[k][m] <= heard'[k][m]
               /\ heard'[k][m] \in Nat
    <3>1. heard[k][m] \in Nat /\ now \in Nat /\ heard[k][m] <= now
      BY TimeTypes DEF TimeInv
    <3>2. CASE k = n /\ m = f.beat.src
      BY <2>1, <3>1, <3>2
    <3>3. CASE ~(k = n /\ m = f.beat.src)
      BY <2>1, <3>1, <3>3
    <3>4. QED
      BY <3>2, <3>3
  <2>3. ASSUME NEW k \in Node, NEW m \in DOMAIN heard'[k]
        PROVE  heard'[k][m] <= now
    BY <2>1, TimeTypes DEF TimeInv
  <2>4. ASSUME NEW k \in Node, NEW m \in DOMAIN table'[k]
        PROVE  m \in DOMAIN heard'[k] /\ table'[k][m].at <= heard'[k][m]
    <3>1. CASE k = n /\ m = f.beat.src
      BY <2>1, <3>1, TimeTypes
    <3>2. CASE ~(k = n /\ m = f.beat.src)
      <4>1. m \in DOMAIN table[k] /\ table'[k][m] = table[k][m]
        BY <2>1, <3>2
      <4>2. /\ m \in DOMAIN heard[k] /\ table[k][m].at <= heard[k][m]
            /\ table[k][m].at \in Nat /\ heard[k][m] \in Nat
        BY <4>1, TimeTypes DEF TimeInv
      <4>3. QED
        BY <4>1, <4>2, <2>2
    <3>3. QED
      BY <3>1, <3>2
  <2>5. ASSUME NEW k \in Node, NEW m \in DOMAIN gnst[k]
        PROVE  m \in DOMAIN heard'[k] /\ gnst[k][m] <= heard'[k][m]
    <3>1. /\ m \in DOMAIN heard[k] /\ gnst[k][m] <= heard[k][m]
          /\ gnst[k][m] \in Nat /\ heard[k][m] \in Nat
      BY TimeTypes DEF TimeInv
    <3>2. QED
      BY <3>1, <2>2
  <2>6. ASSUME NEW k \in Node, display[k].cell.numbers
        PROVE  /\ display[k].cell.host \in DOMAIN heard'[k]
               /\ display[k].cell.at - heard'[k][display[k].cell.host] <= Shown
    <3>1. PICK h \in DOMAIN heard[k] :
            /\ h = display[k].cell.host
            /\ display[k].cell.at - heard[k][h] <= Shown
      BY <2>6 DEF TimeInv, Fresh
    <3>2. heard[k][h] \in Nat /\ display[k].cell.at \in Nat /\ Shown \in Nat
      BY TimeTypes, ScreenIs, ServicesAssumption
    <3>3. h \in DOMAIN heard'[k] /\ heard[k][h] <= heard'[k][h] /\ heard'[k][h] \in Nat
      BY <2>2
    <3>4. QED
      BY <3>1, <3>2, <3>3
  <2>7. QED
    BY <1>2, <2>3, <2>4, <2>5, <2>6 DEF TimeInv, Fresh
<1>5. QED
  BY <1>1, <1>3, <1>4

LEMMA TimeFiles ==
  ASSUME Types, TimeInv, NEW n \in Node, ReadStatus(n) \/ WriteServers(n) \/ WriteTable(n)
  PROVE  TimeInv'
<1>1. UNCHANGED <<display, heard, table, now>>
  BY DEF ReadStatus, WriteServers, WriteTable, readerVars
<1>2. ASSUME NEW k \in Node, NEW m \in DOMAIN gnst'[k]
      PROVE  m \in DOMAIN heard[k] /\ gnst'[k][m] <= heard[k][m]
  <2>1. CASE gnst'[k] = gnst[k]
    BY <2>1 DEF TimeInv
  <2>2. CASE gnst'[k] = NoHosts
    BY <2>2, NoHostsIs
  <2>3. CASE k = n /\ gnst'[n] = Rows(table[n])
    <3>1. table[n] \in Partial(Entry)
      BY DEF Types, SniffTypes
    <3>2. m \in DOMAIN table[n] /\ gnst'[n][m] = table[n][m].at
      BY <2>3, <3>1, RowsIs
    <3>3. QED
      BY <2>3, <3>2 DEF TimeInv
  <2>4. CASE WriteTable(n)
    BY <2>1, <2>3, <2>4, WriteTableIs
  <2>5. CASE ReadStatus(n)
    BY <2>1, <2>2, <2>5, ReadStatusIs
  <2>6. CASE WriteServers(n)
    <3>1. OpenTable(n)
      BY <2>6 DEF WriteServers
    <3>2. QED
      BY <2>1, <2>2, <3>1, OpenTableIs
  <2>7. QED
    BY <2>4, <2>5, <2>6
<1>3. QED
  BY <1>1, <1>2 DEF TimeInv, Fresh

LEMMA TimeRestart ==
  ASSUME Types, TimeInv, NEW n \in Node, Restart(n)
  PROVE  TimeInv'
<1>1. UNCHANGED <<display, heard, gnst, now>>
  BY DEF Restart
<1>2. \A k \in Node : DOMAIN table'[k] = {} \/ table'[k] = table[k]
  BY RestartIs
<1>3. QED
  BY <1>1, <1>2 DEF TimeInv, Fresh

LEMMA TimeTick ==
  ASSUME Types, TimeInv, Tick
  PROVE  TimeInv'
<1>1. UNCHANGED <<display, heard, table, gnst>> /\ now' = now + 1
  BY DEF Tick, sniffVars, readerVars
<1>2. ASSUME NEW k \in Node, NEW m \in DOMAIN heard[k]
      PROVE  heard[k][m] <= now + 1
  <2>1. heard[k][m] \in Nat /\ now \in Nat /\ heard[k][m] <= now
    BY TimeTypes DEF TimeInv
  <2>2. QED
    BY <2>1
<1>3. QED
  BY <1>1, <1>2 DEF TimeInv, Fresh

\* A cell that the display prints
LEMMA CellsFresh ==
  ASSUME Types, TimeInv, NEW n \in Node, NEW m \in Node, NEW c \in Cells(n, m)
  PROVE  Fresh(n, c) /\ c \in [host : Node, numbers : BOOLEAN, at : Nat]
<1> DEFINE fresh == m \in DOMAIN gnst[n] /\ now - gnst[n][m] <= Shown
<1>0. PICK b \in {FALSE, fresh} : c = [host |-> m, numbers |-> b, at |-> now]
  BY DEF Cells
<1>1. c.host = m /\ c.at = now /\ now \in Nat
      /\ c \in [host : Node, numbers : BOOLEAN, at : Nat]
  <2>1. b \in BOOLEAN /\ now \in Nat
    BY DEF Types
  <2>2. QED
    BY <1>0, <2>1
<1>2. c.numbers => m \in DOMAIN gnst[n] /\ now - gnst[n][m] <= Shown
  <2>1. c.numbers = b
    BY <1>0
  <2>2. b => fresh
    OBVIOUS
  <2>3. QED
    BY <2>1, <2>2
<1>3. ASSUME c.numbers
      PROVE  m \in DOMAIN heard[n] /\ now - heard[n][m] <= Shown
  <2>1. m \in DOMAIN gnst[n] /\ now - gnst[n][m] <= Shown
    BY <1>2, <1>3
  <2>2. m \in DOMAIN heard[n] /\ gnst[n][m] <= heard[n][m]
    BY <2>1 DEF TimeInv
  <2>3. heard[n][m] \in Nat /\ gnst[n][m] \in Nat
    BY <2>1, <2>2, TimeTypes
  <2>4. QED
    BY <1>1, <2>1, <2>2, <2>3, ServicesAssumption
<1>4. QED
  BY <1>1, <1>3 DEF Fresh

LEMMA TimePrint ==
  ASSUME Types, TimeInv, NEW n \in Node,
         CollectNames(n) \/ PrintCell(n) \/ PrintDistance(n)
  PROVE  TimeInv'
<1>1. UNCHANGED <<heard, table, gnst, now>>
  BY DEF CollectNames, PrintCell, PrintDistance, sniffVars
<1>2. PICK d \in Screens :
        d = display[n] /\ d.names \subseteq Node /\ Fresh(n, d.cell)
  BY ScreenIs DEF TimeInv
<1>3. PICK e \in Screens : display' = [display EXCEPT ![n] = e] /\ Fresh(n, e.cell)
  <2>1. CASE CollectNames(n)
    <3>1. DOMAIN gnst[n] \subseteq Node
      BY TimeTypes
    <3>2. [d EXCEPT !.names = d.names \cup DOMAIN gnst[n]] \in Screens
          /\ [d EXCEPT !.names = d.names \cup DOMAIN gnst[n]].cell = d.cell
      BY <1>2, <3>1 DEF Screens
    <3>3. display' = [display EXCEPT ![n] = [d EXCEPT !.names = d.names \cup DOMAIN gnst[n]]]
      BY <1>2, <2>1 DEF CollectNames
    <3>4. QED
      BY <1>2, <3>2, <3>3
  <2>2. ASSUME NEW m \in Node, NEW c \in Cells(n, m),
               display' = [display EXCEPT ![n].cell = c]
        PROVE  \E e \in Screens : display' = [display EXCEPT ![n] = e] /\ Fresh(n, e.cell)
    <3>1. Fresh(n, c) /\ c \in [host : Node, numbers : BOOLEAN, at : Nat]
      BY CellsFresh
    <3>2. [d EXCEPT !.cell = c] \in Screens /\ [d EXCEPT !.cell = c].cell = c
      BY <3>1 DEF Screens
    <3>3. display' = [display EXCEPT ![n] = [d EXCEPT !.cell = c]]
      BY <1>2, <2>2
    <3>4. QED
      BY <3>1, <3>2, <3>3
  <2>3. CASE PrintCell(n)
    <3>1. PICK m \in display[n].names : \E c \in Cells(n, m) :
            display' = [display EXCEPT ![n].cell = c]
      BY <2>3 DEF PrintCell
    <3>2. m \in Node
      BY <1>2
    <3>3. QED
      BY <3>1, <3>2, <2>2
  <2>4. CASE PrintDistance(n)
    <3>1. CASE \E c \in Cells(n, n) : display' = [display EXCEPT ![n].cell = c]
      BY <3>1, <2>2
    <3>2. CASE display' = [display EXCEPT ![n].alive = FALSE]
      <4>1. [d EXCEPT !.alive = FALSE] \in Screens /\ [d EXCEPT !.alive = FALSE].cell = d.cell
        BY DEF Screens
      <4>2. display' = [display EXCEPT ![n] = [d EXCEPT !.alive = FALSE]]
        BY <1>2, <3>2
      <4>3. QED
        BY <1>2, <4>1, <4>2
    <3>3. QED
      BY <2>4, <3>1, <3>2 DEF PrintDistance
  <2>5. QED
    BY <2>1, <2>3, <2>4
<1>4. display' \in [Node -> Screens] /\ \A k \in Node : Fresh(k, display'[k].cell)
  BY <1>3 DEF TimeInv
<1>5. QED
  BY <1>1, <1>4 DEF TimeInv, Fresh

LEMMA TimeStep ==
  ASSUME Types, TimeInv, [Next]_vars
  PROVE  TimeInv'
<1>1. CASE UNCHANGED vars
  BY <1>1, TimeQuiet DEF vars, sniffVars, readerVars, timeCopies
<1>2. ASSUME NEW n \in Node,
             Probe(n) \/ EmptyStatus(n) \/ WriteStatus(n) \/ SendBeat(n) \/ ChangeWan(n)
               \/ UpdateArp(n)
      PROVE  TimeInv'
  BY <1>2, TimeQuiet
     DEF Probe, EmptyStatus, WriteStatus, SendBeat, ChangeWan, UpdateArp, sniffVars,
         readerVars, timeCopies
<1>3. ASSUME NEW n \in Node,
             Hear(n) \/ ReadStatus(n) \/ WriteServers(n) \/ WriteTable(n) \/ Restart(n)
               \/ CollectNames(n) \/ PrintCell(n) \/ PrintDistance(n)
      PROVE  TimeInv'
  BY <1>3, TimeHear, TimeFiles, TimeRestart, TimePrint
<1>4. QED
  BY <1>1, <1>2, <1>3, TimeTick DEF Next

(***************************************************************************)
(* For every table size and whatever is read, rewritten, killed or         *)
(* restarted: numbers on the display are of a host heard within the last   *)
(* half minute.                                                            *)
(***************************************************************************)
THEOREM ShownAlwaysFresh == Spec => []ShownIsFresh
<1>1. Init => TimeInv
  <2>1. SUFFICES ASSUME Init
                 PROVE  TimeInv
    OBVIOUS
  <2>2. \A n \in Node : /\ DOMAIN heard[n] = {} /\ DOMAIN table[n] = {}
                        /\ DOMAIN gnst[n] = {}
    BY <2>1, NoHostsIs DEF Init
  <2>3. ASSUME NEW n \in Node
        PROVE  display[n] \in Screens /\ ~display[n].cell.numbers
    <3>1. (CHOOSE m \in Node : TRUE) \in Node
      OBVIOUS
    <3>2. display[n] = [names |-> {}, cell |-> NoCell, alive |-> TRUE]
      BY <2>1 DEF Init
    <3>3. QED
      BY <3>1, <3>2 DEF Screens, NoCell
  <2>4. display \in [Node -> Screens]
    BY <2>1, <2>3 DEF Init
  <2>5. QED
    BY <2>2, <2>3, <2>4 DEF TimeInv, Fresh
<1>2. Types /\ TimeInv /\ [Next]_vars => TimeInv'
  BY TimeStep
<1>3. TimeInv => ShownIsFresh
  BY DEF TimeInv, ShownIsFresh, Fresh
<1>4. QED
  BY <1>1, <1>2, <1>3, TypesAlways, PTL DEF Spec
==============================================================================

----------------------------- MODULE Connections -----------------------------
(***************************************************************************)
(* The connections of the worker threads, from the lookup that gives them  *)
(* an address to what main makes of them.                                  *)
(*                                                                         *)
(* spreadLookup of s3.js is meant to spread the connections of a thread    *)
(* over all addresses of the endpoint: the answer of the resolver is       *)
(* cached for a while, each connection takes the next address of the       *)
(* cached entry, and a lookup that finds no fresh entry asks the resolver, *)
(* as others may until it answers. The resolver may give other addresses,  *)
(* or the same in another order, each time it is asked. The agents call    *)
(* onConnect once for each socket that connects; a worker counts it for    *)
(* its address and follows its bytes while it is open, takes a snapshot    *)
(* when its work is done and sends it to main, which adds up what the      *)
(* workers send.                                                           *)
(*                                                                         *)
(* Entries are objects that lookups hold on to, so they are numbered in    *)
(* the order they were made. There is one host (the entries of others are  *)
(* apart), and the time a connection was open goes the way of its bytes    *)
(* and is left out.                                                        *)
(***************************************************************************)
EXTENDS Integers, FiniteSets, Sequences

CONSTANTS
  Threads,     \* the worker threads
  NIps,        \* how many addresses the endpoint has
  Answers,     \* the lists that the resolver may answer with
  Configs      \* the [receiver, https, sockets, bytes] that are explored: which
               \* main receives the reports (see Merge), whether TLS is on, how
               \* many sockets each worker may open, and how many bytes may be
               \* read from a socket

ASSUME ThreadsAssumption == IsFiniteSet(Threads)
ASSUME IpsAssumption == NIps \in Nat \ {0}
ASSUME AnswersAssumption ==
  \A ips \in Answers : /\ ips \in Seq(0 .. NIps - 1) /\ ips # <<>>
                        /\ \A i, j \in 1 .. Len(ips) : ips[i] = ips[j] => i = j
ASSUME ConfigsAssumption ==
  Configs \subseteq [receiver : {"run", "manager"}, https : BOOLEAN,
                     sockets : [Threads -> Nat], bytes : Nat]

VARIABLES
  cfg,
  dnsCache,     \* dnsCache[w]: the entry that is cached, 0 if none is
  entries,      \* entries[w]: [ips, idx, fresh] of the entries made so far
  connCounter,  \* connCounter[w]: sockets that w has opened, the last one's id
  socket,       \* socket[c]: what has become of it, the entry its lookup found,
                \* its address and its bytes
  recorded,     \* sockets whose `recorded' is set
  ipCounts,     \* ipCounts[w][ip]
  registry,     \* the sockets that the trackers follow
  posted,       \* workers whose report main has not handled
  report,       \* report[w][ip]: the snapshot of w in its report
  reported,     \* workers whose report main has handled
  runIp, runIpTput,   \* what main has added up
  given,        \* given[w][ip]: lookups of w that got ip from an entry (history)
  breaks,       \* breaks[w]: answers that broke the turns, see Breaks (history)
  measured      \* sockets that were open when their worker reported (history)

dnsVars == <<dnsCache, entries, given, breaks>>
statVars == <<recorded, ipCounts, registry>>
reportVars == <<posted, report, reported, runIp, runIpTput, measured>>
connectionVars == <<cfg, dnsVars, connCounter, socket, statVars, reportVars>>

(* A socket is named by its worker and its id there.                         *)
Conns == UNION {{<<w, i>> : i \in 1 .. cfg.sockets[w]} : w \in Threads}
Of(w) == {c \in Conns : c[1] = w}

Ips == 0 .. NIps - 1
Nothing == [bytes |-> 0, conns |-> 0]
NoStat == [ip \in Ips |-> Nothing]
NoCount == [ip \in Ips |-> 0]
NoSocket == [phase |-> "none", found |-> 0, ip |-> 0, bytes |-> 0]

(* The bytes that were read from some sockets.                               *)
BytesOf(conns) == Cardinality(UNION {{c} \X (1 .. socket[c].bytes) : c \in conns})

(* `resolving' and `fallback' wait for resolve4 and for dns.lookup.          *)
SocketPhases == {"none", "resolving", "fallback", "opening", "connected", "secure", "closed"}

ConnectionsInit ==
  /\ cfg \in Configs
  /\ dnsCache = [w \in Threads |-> 0]
  /\ entries = [w \in Threads |-> <<>>]
  /\ connCounter = [w \in Threads |-> 0]
  /\ socket = [c \in Conns |-> NoSocket]
  /\ recorded = {}
  /\ ipCounts = [w \in Threads |-> NoCount]
  /\ registry = {}
  /\ posted = {}
  /\ report = [w \in Threads |-> NoStat]
  /\ reported = {}
  /\ runIp = NoCount
  /\ runIpTput = NoStat
  /\ given = [w \in Threads |-> NoCount]
  /\ breaks = [w \in Threads |-> 0]
  /\ measured = {}

-----------------------------------------------------------------------------
(* As elsewhere, an operator that precedes one of the same shape is a slip   *)
(* in it that no action uses.                                                *)

(* Until its report a worker works.                                          *)
Working(w) == w \notin posted \cup reported
SocketIs(c, phase) == Working(c[1]) /\ socket[c].phase = phase
BecomesPhase(c, phase) == socket' = [socket EXCEPT ![c].phase = phase]

-----------------------------------------------------------------------------
(* The lookup.                                                               *)

(* deliver: the address at idx, counted round the list.                      *)
Address(ips, idx) == ips[(idx % Len(ips)) + 1]

Deliver(c, ips, idx) ==
  /\ socket' = [socket EXCEPT ![c].phase = "opening", ![c].ip = Address(ips, idx)]
  /\ given' = [given EXCEPT ![c[1]][Address(ips, idx)] = @ + 1]

Cached(w) == entries[w][dnsCache[w]]

(* The entry in the cache is younger than DNS_TTL_MS.                        *)
Hit(w) == dnsCache[w] # 0 /\ Cached(w).fresh

(* createConnection: the next socket is made and stamped, and looks up its   *)
(* address, in the cache or with the resolver.                               *)
Opens(c) ==
  /\ SocketIs(c, "none") /\ c[2] = connCounter[c[1]] + 1
  /\ connCounter' = [connCounter EXCEPT ![c[1]] = @ + 1]
  /\ UNCHANGED <<cfg, dnsCache, breaks, statVars, reportVars>>

FromCache(c) ==
  LET thread == c[1] IN
  /\ Hit(thread)
  /\ Opens(c)
  /\ Deliver(c, Cached(thread).ips, Cached(thread).idx)
  /\ entries' = [entries EXCEPT ![thread][dnsCache[thread]].idx = @ + 1]

Asks(c) ==
  /\ ~Hit(c[1])
  /\ Opens(c)
  /\ socket' = [socket EXCEPT ![c].phase = "resolving", ![c].found = dnsCache[c[1]]]
  /\ UNCHANGED <<entries, given>>

(* Where a new entry starts: at the idx that the old one has now.            *)
FromStart(c) == 0
FromFound(c) == IF socket[c].found = 0 THEN 0 ELSE entries[c[1]][socket[c].found].idx

(* A list that comes after another one, or that replaces another entry than  *)
(* the one whose idx it goes on from, does not go on with the turns.         *)
Breaks(c, ips) ==
  LET thread == c[1] IN
  \/ socket[c].found # dnsCache[thread]
  \/ dnsCache[thread] # 0 /\ Cached(thread).ips # ips

(* resolve4 answers.                                                         *)
Resolved(c) ==
  LET thread == c[1] IN
  /\ SocketIs(c, "resolving")
  /\ \E ips \in Answers :
       /\ Deliver(c, ips, FromFound(c))
       /\ entries' = [entries EXCEPT ![thread] =
                        Append(@, [ips |-> ips, idx |-> FromFound(c) + 1, fresh |-> TRUE])]
       /\ breaks' = [breaks EXCEPT ![thread] = IF Breaks(c, ips) THEN @ + 1 ELSE @]
  /\ dnsCache' = [dnsCache EXCEPT ![thread] = Len(entries[thread]) + 1]
  /\ UNCHANGED <<cfg, connCounter, statVars, reportVars>>

(* It fails: dns.lookup gives the address.                                   *)
ResolveFails(c) ==
  /\ SocketIs(c, "resolving")
  /\ BecomesPhase(c, "fallback")
  /\ UNCHANGED <<cfg, dnsVars, connCounter, statVars, reportVars>>

DefaultAnswers(c) ==
  /\ SocketIs(c, "fallback")
  /\ \E ip \in Ips : socket' = [socket EXCEPT ![c].phase = "opening", ![c].ip = ip]
  /\ UNCHANGED <<cfg, dnsVars, connCounter, statVars, reportVars>>

Expires(w) ==
  /\ Working(w) /\ Hit(w)
  /\ entries' = [entries EXCEPT ![w][dnsCache[w]].fresh = FALSE]
  /\ UNCHANGED <<cfg, dnsCache, given, breaks, connCounter, socket, statVars, reportVars>>

-----------------------------------------------------------------------------
(* The socket.                                                               *)

(* record(), which 'connect' and 'secureConnect' both call.                  *)
EachEvent(c) == TRUE
FirstEvent(c) == c \notin recorded

Record(c) ==
  /\ recorded' = recorded \cup {c}
  /\ IF FirstEvent(c)
     THEN /\ ipCounts' = [ipCounts EXCEPT ![c[1]][socket[c].ip] = @ + 1]
          /\ registry' = registry \cup {c}
     ELSE UNCHANGED <<ipCounts, registry>>

Connects(c) ==
  /\ SocketIs(c, "opening")
  /\ BecomesPhase(c, "connected")
  /\ Record(c)
  /\ UNCHANGED <<cfg, dnsVars, connCounter, reportVars>>

Secured(c) ==
  /\ cfg.https /\ SocketIs(c, "connected")
  /\ BecomesPhase(c, "secure")
  /\ Record(c)
  /\ UNCHANGED <<cfg, dnsVars, connCounter, reportVars>>

Reads(c) ==
  /\ SocketIs(c, IF cfg.https THEN "secure" ELSE "connected") /\ socket[c].bytes < cfg.bytes
  /\ socket' = [socket EXCEPT ![c].bytes = @ + 1]
  /\ UNCHANGED <<cfg, dnsVars, connCounter, statVars, reportVars>>

(* A connection that fails, or is closed by either side: its 'close'         *)
(* listener is there once it is registered.                                  *)
Closes(c) ==
  /\ \E phase \in {"fallback", "opening", "connected", "secure"} : SocketIs(c, phase)
  /\ BecomesPhase(c, "closed")
  /\ registry' = registry \ {c}
  /\ UNCHANGED <<cfg, dnsVars, connCounter, recorded, ipCounts, reportVars>>

-----------------------------------------------------------------------------
(* The report.                                                               *)

(* snapshot() of the sockets that are open, and 'done' or 'worker-done'.     *)
Snapshot(w) ==
  [ip \in Ips |->
     LET on == {c \in registry \cap Of(w) : socket[c].ip = ip}
     IN  [bytes |-> BytesOf(on), conns |-> Cardinality(on)]]

Reports(w) ==
  /\ Working(w)
  /\ posted' = posted \cup {w}
  /\ report' = [report EXCEPT ![w] = Snapshot(w)]
  /\ measured' = measured \cup {c \in Of(w) : socket[c].phase \in {"connected", "secure"}}
  /\ UNCHANGED <<cfg, dnsVars, connCounter, socket, statVars, reported, runIp, runIpTput>>

(* mergeIpThroughput, which runOnce and runOrdered use.                      *)
LastOf(x, y) == y
SumOf(x, y) == [bytes |-> x.bytes + y.bytes, conns |-> x.conns + y.conns]

(* The manager adds the two objects with `+': a string, which has no bytes   *)
(* and no connections for those who read it.                                 *)
Merge(x, y) == IF cfg.receiver = "run" THEN SumOf(x, y) ELSE Nothing

(* Addresses that are not in a report are left as they are.                  *)
ReportArrives(w) ==
  /\ w \in posted
  /\ posted' = posted \ {w}
  /\ reported' = reported \cup {w}
  /\ runIp' = [ip \in Ips |-> runIp[ip] + ipCounts[w][ip]]
  /\ runIpTput' = [ip \in Ips |-> IF report[w][ip].conns = 0 THEN runIpTput[ip]
                                  ELSE Merge(runIpTput[ip], report[w][ip])]
  /\ UNCHANGED <<cfg, dnsVars, connCounter, socket, statVars, report, measured>>

-----------------------------------------------------------------------------
LookupStep(c) == FromCache(c) \/ Asks(c) \/ Resolved(c) \/ ResolveFails(c) \/ DefaultAnswers(c)
SocketStep(c) == Connects(c) \/ Secured(c) \/ Reads(c) \/ Closes(c)

ConnectionsNext ==
  \/ \E c \in Conns : LookupStep(c) \/ SocketStep(c)
  \/ \E w \in Threads : Expires(w) \/ Reports(w) \/ ReportArrives(w)

ConnectionsSpec == ConnectionsInit /\ [][ConnectionsNext]_connectionVars

-----------------------------------------------------------------------------
(* Properties.                                                               *)

Stat == [bytes : Nat, conns : Nat]

ConnectionsTypeOK ==
  /\ cfg \in Configs
  /\ \A w \in Threads :
       /\ dnsCache[w] = Len(entries[w])
       /\ \A i \in 1 .. Len(entries[w]) : entries[w][i] \in [ips : Answers, idx : Nat \ {0}, fresh : BOOLEAN]
       /\ connCounter[w] \in 0 .. cfg.sockets[w]
       /\ ipCounts[w] \in [Ips -> 0 .. connCounter[w]]
       /\ given[w] \in [Ips -> 0 .. connCounter[w]]
       /\ breaks[w] \in 0 .. connCounter[w]
       /\ report[w] \in [Ips -> Stat]
  /\ \A c \in Conns : /\ socket[c].phase \in SocketPhases
                      /\ socket[c].found \in 0 .. Len(entries[c[1]])
                      /\ socket[c].ip \in Ips
                      /\ socket[c].bytes \in Nat
  /\ registry \subseteq recorded /\ recorded \subseteq Conns /\ measured \subseteq Conns
  /\ posted \subseteq Threads /\ reported \subseteq Threads \ posted
  /\ runIp \in [Ips -> Nat]
  /\ runIpTput \in [Ips -> Stat]

(* The addresses that no answer to w has left out.                           *)
Steady(w) ==
  {ip \in Ips : \A n \in 1 .. Len(entries[w]) :
                  \E i \in 1 .. Len(entries[w][n].ips) : entries[w][n].ips[i] = ip}

(* The connections of a worker are spread evenly over the addresses that it  *)
(* is always given, across the entries that replace each other too.  Each    *)
(* answer that breaks the turns, by another list or by coming late, may      *)
(* favour an address over another once more, and no answer does it twice.    *)
SpreadBounded ==
  \A w \in Threads : \A x, y \in Steady(w) : given[w][x] <= given[w][y] + 1 + breaks[w]

(* What is printed for the spread of the connections counts each socket that *)
(* ever connected, of any worker, once, whatever became of it.               *)
CountsAreSockets ==
  /\ ConnectionsTypeOK
  /\ \A ip \in Ips :
       /\ \A w \in Threads : Working(w) =>
            ipCounts[w][ip] = Cardinality({c \in recorded \cap Of(w) : socket[c].ip = ip})
       /\ runIp[ip] = Cardinality({c \in recorded : socket[c].ip = ip /\ c[1] \in reported})

(* The throughput of an address is that of the connections to it that were   *)
(* open when their workers reported, of all workers together (but see Merge  *)
(* for the manager).                                                         *)
ThroughputIsWhole ==
  cfg.receiver = "run" =>
    \A ip \in Ips :
      LET on == {c \in measured : socket[c].ip = ip /\ c[1] \in reported}
      IN  runIpTput[ip] = [bytes |-> BytesOf(on), conns |-> Cardinality(on)]
=============================================================================

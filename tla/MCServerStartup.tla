--------------------------- MODULE MCServerStartup ----------------------------
(* Instances of ServerStartup: options at their limits and out of them. *)
EXTENDS ServerStartup

Defaults ==
  [mode |-> "", family |-> "", protocol |-> "", maxconn |-> Empty,
   primaryport |-> Empty, altport |-> Empty,
   primaryinterface |-> "", altinterface |-> "",
   primaryadvertised |-> "", altadvertised |-> "", reuseaddr |-> FALSE]

Numbers == {Empty, NotANumber, 0, 1, 3479, 65535, 65536}
Limits == {Empty, NotANumber, 0, 1, 99999, 100000, 100001}

Modes == {[Defaults EXCEPT !.mode = m, !.family = f, !.protocol = p] :
            m \in {"", "basic", "full", "bad"}, f \in {"", "4", "6", "bad"},
            p \in {"", "udp", "tcp", "bad"}}
Ports == {[Defaults EXCEPT !.mode = m, !.primaryport = p, !.altport = q] :
            m \in {"basic", "full"}, p \in Numbers, q \in Numbers}
Connections == {[Defaults EXCEPT !.protocol = p, !.maxconn = n] :
                  p \in {"udp", "tcp"}, n \in Limits}
Interfaces == {[Defaults EXCEPT !.mode = m, !.primaryinterface = p, !.altinterface = q] :
                 m \in {"basic", "full"}, p \in {"", "bad", "eth0", "eth1"},
                 q \in {"", "bad", "eth0", "eth1"}}
Advertised == {[Defaults EXCEPT !.mode = "full", !.primaryadvertised = p, !.altadvertised = q] :
                 p \in {"", "valid", "bad"}, q \in {"", "valid", "bad"}}

AllCommandLines == Modes \cup Ports \cup Connections \cup Interfaces \cup Advertised

(* Entries of a file: both protocols, both modes, both families, equal and
   other ports, one refused. *)
Entries == {[Defaults EXCEPT !.protocol = p, !.mode = m, !.primaryport = n, !.reuseaddr = r] :
              p \in {"udp", "tcp"}, m \in {"basic", "full"}, n \in {Empty, 5000}, r \in BOOLEAN}
           \cup {[Defaults EXCEPT !.family = "6", !.protocol = p] : p \in {"udp", "tcp"}}
           \cup {[Defaults EXCEPT !.mode = "bad"]}
Pairs == {<<a, b>> : a \in Entries, b \in Entries}

(* Three servers that can run side by side, or the last of them refused. *)
OnPort(p, n) == [Defaults EXCEPT !.protocol = p, !.primaryport = n]
Triples == {<<OnPort(p, 5001), OnPort(q, 5002), OnPort(r, 5003)>> :
              p \in {"udp", "tcp"}, q \in {"udp", "tcp"}, r \in {"udp", "tcp", "bad"}}
AllFiles == Pairs \cup Triples

NoFiles == {}
TakenAddresses == {<<"eth1", 5000>>}
TwoAdapters == {"eth0", "eth1"}
(* The host lists its adapters in another order for each family. *)
HostBest == [best \in BOOLEAN \X {"4", "6"} |->
               IF best[1] = (best[2] = "4") THEN "eth0" ELSE "eth1"]

MaxConnOptions == {[Defaults EXCEPT !.protocol = "tcp", !.maxconn = n] : n \in 99990 .. 100010}
=============================================================================

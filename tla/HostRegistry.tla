----------------------------- MODULE HostRegistry -----------------------------
(***************************************************************************)
(* How consoles come into the platform's registry: the agent looks for     *)
(* them on its network and reports what it found, a stream that opened     *)
(* binds its account to the console's row, users edit rows, and duplicate  *)
(* rows are merged.  A console goes by three names: the cloud's, the one   *)
(* it announces, and one made of its address by those who know no better.  *)
(* What handles a report or a binding looks for the console's row and then *)
(* writes, and several handle at once.  An edit and a merge are one step.  *)
(***************************************************************************)
EXTENDS Naturals, Sequences, SequencesExt, FiniteSetsExt

CONSTANTS Box,       \* consoles
          Computer,  \* what answers as if it were one
          Address,
          Blank,
          Handler,   \* threads of the platform, one of each agent's connection
          Row        \* ids of rows

ASSUME RegistryAssumption ==
  /\ Box \cap Computer = {} /\ IsFiniteSet(Row)
  /\ \A x \in Box \cup Computer \cup Address : x # Blank

VARIABLES
  registry,  \* xbox_host: the rows by id
  looked     \* handlers between the look-up and the write

registryVars == <<registry, looked>>

Device == Box \cup Computer
Cloud(d) == <<"gssv", d>>
Hardware(d) == <<"uuid", d>>
FromAddress(a) == <<"md5", a>>
Id == {Cloud(b) : b \in Box} \cup {Hardware(d) : d \in Device} \cup {FromAddress(a) : a \in Address}
IsGssv(i) == i # Blank /\ i[1] = "gssv"
IsUuid(i) == i # Blank /\ i[1] = "uuid"

Listing == [xbox : Id, live : Id \cup {Blank}, ip : Address \cup {Blank}]
\* The row a handler found, if any, what it will write, and whether another step has
\* changed the registry since.
Handling == [found : SUBSET Row, host : Listing, crossed : BOOLEAN]

RegistryTypeOK ==
  /\ DOMAIN registry \subseteq Row /\ registry \in [DOMAIN registry -> Listing]
  /\ DOMAIN looked \subseteq Handler /\ looked \in [DOMAIN looked -> Handling]

RegistryInit == registry = <<>> /\ looked = <<>>

-----------------------------------------------------------------------------
(* XboxDiscovery on the agent. *)

Found(i, a) == [xbox |-> i, live |-> i, ip |-> a]
\* Answers that hold a keyword are believed, Windows' own among them; some hold a uuid.
SsdpDiscover == {Found(Hardware(d), a) : d \in Device, a \in Address}
                  \cup {Found(FromAddress(a), a) : a \in Address}
\* A handshake, on the ports that answer or the addresses the system has seen lately.
Scanned == {Found(FromAddress(a), a) : a \in Address}
\* What an agent may report of a network whose devices come, go and change addresses.
\* The listings of one report are handled one by one, each on its own.
Discovered == SsdpDiscover \cup Scanned

-----------------------------------------------------------------------------
(* XboxHostServiceImpl *)

Ids(r) == {r.xbox, r.live} \ {Blank}
ByIp(e) == {n \in DOMAIN registry : e.ip # Blank /\ registry[n].ip = e.ip}
ByKey(e) == {n \in DOMAIN registry : Ids(registry[n]) \cap Ids(e) # {}}

\* isComplementaryIdentity
Complements(orphan, e) ==
  \/ Ids(orphan) \cap Ids(e) # {}
  \/ IsGssv(orphan.xbox) /\ \E k \in Ids(e) : IsUuid(k)
  \/ (\E k \in Ids(orphan) : IsUuid(k)) /\ \E k \in Ids(e) : IsGssv(k)
\* findSingleOrphanByName, which asks for no name.
Orphan(e) ==
  LET O == {n \in DOMAIN registry : registry[n].ip = Blank} IN
  IF e.ip # Blank /\ Cardinality(O) = 1 THEN {n \in O : Complements(registry[n], e)} ELSE {}

\* A mutant: the names come first.
NamesFirst(e) == IF ByKey(e) # {} THEN ByKey(e) ELSE IF ByIp(e) # {} THEN ByIp(e) ELSE Orphan(e)

\* resolveExistingHost: the rows, any of which it may come to.  By name, any that the
\* unordered query may give first.
Existing(e) == IF ByIp(e) # {} THEN ByIp(e) ELSE IF ByKey(e) # {} THEN ByKey(e) ELSE Orphan(e)

\* mergeAlternateIdentity and updateHostInfo
Updated(r, e) ==
  LET swap == IsUuid(r.xbox) /\ IsGssv(e.xbox) IN
  [r EXCEPT
    !.xbox = IF swap THEN e.xbox ELSE @,
    !.ip   = IF e.ip = Blank THEN @ ELSE e.ip,
    !.live = IF e.live # Blank THEN e.live
             ELSE IF r.live # Blank THEN r.live
             ELSE CASE swap -> r.xbox
                    [] IsGssv(r.xbox) /\ IsUuid(e.xbox) -> e.xbox
                    [] OTHER -> Blank]

\* createOrUpdate up to its write: the selects of a transaction see one state.
\* selectOne refuses two rows of an address.
LookUp(h, e) ==
  /\ h \notin DOMAIN looked /\ \A n, m \in ByIp(e) : n = m
  /\ \E X \in {{n} : n \in Existing(e)} \cup (IF Existing(e) = {} THEN {{}} ELSE {}) :
       looked' = [g \in DOMAIN looked \cup {h} |->
                    IF g # h THEN looked[g]
                    ELSE [found |-> X, crossed |-> FALSE,
                          host |-> IF X = {} THEN e ELSE Updated(registry[CHOOSE n \in X : TRUE], e)]]
  /\ UNCHANGED registry
\* handleXboxDiscovered
RegisterHost(h) == \E e \in Discovered : LookUp(h, e)
\* ensureBinding after Step 2, by the cloud's name; Step 2 knows no address.
EnsureBinding(h) ==
  \E b \in Box : LET e == [xbox |-> Cloud(b), live |-> Blank, ip |-> Blank] IN Existing(e) = {} /\ LookUp(h, e)

\* What is written to a row is the row as it was, brought up to date; fields of which it
\* has none stay.
Rewritten(r, u) ==
  [xbox |-> u.xbox, live |-> IF u.live = Blank THEN r.live ELSE u.live, ip |-> IF u.ip = Blank THEN r.ip ELSE u.ip]
\* The unique key.
Taken(i, X) == \E m \in DOMAIN registry \ X : registry[m].xbox = i
\* The handlers H, whose look-ups are of an older registry.
Crossed(H) == [h \in H |-> [looked[h] EXCEPT !.crossed = TRUE]]
Others(h) == DOMAIN looked \ {h}

\* The insert gets an id that no row has or had when a handler read it.
Insert(h) ==
  LET l == looked[h] IN
  /\ h \in DOMAIN looked /\ l.found = {} /\ ~Taken(l.host.xbox, {})
  /\ LET fresh == Row \ (DOMAIN registry \cup UNION {looked[g].found : g \in DOMAIN looked})
         n == CHOOSE n \in fresh : TRUE IN
     fresh # {} /\ registry' = [m \in DOMAIN registry \cup {n} |-> IF m = n THEN l.host ELSE registry[m]]
  /\ looked' = Crossed(Others(h))
\* updateById, of a row that may be gone.
UpdateById(h) ==
  LET l == looked[h] IN
  /\ h \in DOMAIN looked /\ l.found # {}
  /\ l.found \subseteq DOMAIN registry => ~Taken(l.host.xbox, l.found)
  /\ registry' = [m \in DOMAIN registry |-> IF m \in l.found THEN Rewritten(registry[m], l.host) ELSE registry[m]]
  /\ looked' = Crossed(Others(h))
\* The unique key refuses the write; what is left of a report is dropped.
Refuse(h) ==
  LET l == looked[h] IN
  /\ h \in DOMAIN looked
  /\ l.found \subseteq DOMAIN registry /\ Taken(l.host.xbox, l.found)
  /\ looked' = [g \in Others(h) |-> looked[g]]
  /\ UNCHANGED registry

\* update
TypeAddress(n, a) ==
  /\ n \in DOMAIN registry /\ registry[n].ip # a
  /\ registry' = [registry EXCEPT ![n].ip = a] /\ looked' = Crossed(DOMAIN looked)
Delete(n) ==
  /\ n \in DOMAIN registry /\ registry' = [m \in DOMAIN registry \ {n} |-> registry[m]]
  /\ looked' = Crossed(DOMAIN looked)

-----------------------------------------------------------------------------
(* dedupeForMerchant *)

ShouldMerge(l, r) ==
  \/ l.ip # Blank /\ l.ip = r.ip
  \/ Ids(l) \cap Ids(r) # {}
  \/ l.ip = Blank /\ r.ip # Blank /\ Complements(l, r)
  \/ r.ip = Blank /\ l.ip # Blank /\ Complements(r, l)

\* mergeHostFields
Merged(c, d) ==
  LET swap == IsGssv(d.xbox) /\ IsUuid(c.xbox) IN
  [xbox |-> IF swap THEN d.xbox ELSE c.xbox,
   ip   |-> IF c.ip = Blank THEN d.ip ELSE c.ip,
   live |-> IF swap THEN c.xbox
            ELSE IF /\ IsUuid(d.xbox) /\ (c.live # Blank \/ d.live = Blank)
                    /\ d.xbox # (IF c.live = Blank THEN c.xbox ELSE c.live) THEN d.xbox
            ELSE IF c.live = Blank THEN d.live ELSE c.live]

\* One pair of the two loops.  The score that chooses the row to keep counts locks and
\* bindings too, and any row may have more: Lefts are the pairs whose first is kept.
\* The canonical row takes the duplicate's cloud name while the duplicate still has it.
MergePair(s, p, order, Lefts) ==
  LET i == order[p[1]]
      j == order[p[2]]
      first == p[2] = p[1] + 1
      left == IF first THEN registry[i] ELSE s.left
      skip == IF first THEN i \notin DOMAIN s.rows ELSE s.skip
      c == IF p \in Lefts THEN i ELSE j
      d == IF c = i THEN j ELSE i
      m == Merged(s.rows[c], s.rows[d]) IN
  IF s.failed THEN s
  ELSE IF skip \/ j \notin DOMAIN s.rows \/ ~ShouldMerge(left, registry[j])
  THEN [s EXCEPT !.left = left, !.skip = skip]
  ELSE IF i \notin DOMAIN s.rows \/ m.xbox # s.rows[c].xbox THEN [s EXCEPT !.failed = TRUE]
  ELSE [s EXCEPT !.rows = [n \in DOMAIN s.rows \ {d} |-> IF n = c THEN m ELSE s.rows[n]],
                 !.left = IF c = i THEN m ELSE left, !.skip = skip]

Pairs(order) == {p \in (DOMAIN order) \X (DOMAIN order) : p[1] < p[2]}
\* The two loops, one round after the other.
Round(n, N) == <<1 + ((n - 1) \div N), 1 + ((n - 1) % N)>>
Deduped(order, Lefts) ==
  LET N == Len(order)
      after[n \in 0..N * N] ==
        IF n = 0 THEN [rows |-> registry, left |-> <<>>, skip |-> FALSE, failed |-> FALSE]
        ELSE IF Round(n, N) \in Pairs(order) THEN MergePair(after[n - 1], Round(n, N), order, Lefts)
        ELSE after[n - 1]
  IN after[N * N]
\* The rows come newest first; here, in any order.
Dedupe ==
  /\ \E order \in SetToSeqs(DOMAIN registry) : \E Lefts \in SUBSET Pairs(order) :
       ~Deduped(order, Lefts).failed /\ registry' = Deduped(order, Lefts).rows
  /\ registry' # registry /\ looked' = Crossed(DOMAIN looked)

RegistryNext ==
  \/ \E h \in Handler : RegisterHost(h) \/ EnsureBinding(h) \/ Insert(h) \/ UpdateById(h) \/ Refuse(h)
  \/ \E n \in Row : Delete(n) \/ \E a \in Address : TypeAddress(n, a)
  \/ Dedupe

RegistrySpec == RegistryInit /\ [][RegistryNext]_registryVars
-----------------------------------------------------------------------------
(* Properties. *)

Unmixed == \A n, m \in DOMAIN registry : registry[n].ip = registry[m].ip /\ n # m => registry[n].ip = Blank
Types == \E n \in Row, a \in Address : TypeAddress(n, a)
WritesCrossed == \E h \in DOMAIN looked : looked[h].crossed /\ (Insert(h) \/ UpdateById(h))

\* Only a user who types an address, or a handler whose look-up another step has crossed
\* before its write, gives one address to two rows.  The look-up by address (selectOne)
\* fails on two, and with it every report of that address.
OneRowPerAddress == [][Unmixed => Unmixed' \/ Types \/ WritesCrossed]_registryVars

\* Reports never give one address to two rows. Does not hold: two handlers that both
\* find no row insert one each, and nothing but xboxId is unique; one that writes a row
\* as it was gives back an address that another row has since.
ReportsKeepApart == [][Unmixed => Unmixed' \/ Types]_registryVars

\* A row is one device: the names that a row holds, but for those made of addresses,
\* belong to one. Does not hold: a console that gets another's address takes over its
\* row, and so does an orphan's row.
RowIsOneDevice ==
  \A n \in DOMAIN registry : \A k, l \in Ids(registry[n]) :
    k[1] # "md5" /\ l[1] # "md5" => k[2] = l[2]

\* A console has one row: the lease on a row is to keep others from the console. Does
\* not hold: a console whose address changed gets a second row, and with it a second
\* lease.
OneRowPerDevice ==
  \A n, m \in DOMAIN registry : \A k \in Ids(registry[n]), l \in Ids(registry[m]) :
    n # m /\ k[1] # "md5" /\ l[1] # "md5" => k[2] # l[2]

\* Merging duplicates does not fail. Does not hold: the row that stays takes the id of
\* the one not yet deleted, which the unique key refuses.
DedupeWorks ==
  \A order \in SetToSeqs(DOMAIN registry) : \A Lefts \in SUBSET Pairs(order) : ~Deduped(order, Lefts).failed
=============================================================================

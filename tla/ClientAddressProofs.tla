-------------------------- MODULE ClientAddressProofs -------------------------
(***************************************************************************)
(* The rate limit key of a request is the address of the last machine on   *)
(* its way that the operator does not trust, for any number of relays, any *)
(* headers that a client makes up and any lines they are spread over.      *)
(***************************************************************************)
EXTENDS ClientAddress, CountingLemmas, SequenceTheorems

(* f is the flattening of the first n of some sequences.                   *)
Flattens(f, seqs, n) ==
    f = [i \in 1 .. n |-> IF i = 1 THEN seqs[i] ELSE f[i - 1] \o seqs[i]]

LEMMA FlattensGrows ==
    ASSUME NEW seqs, NEW n \in Nat \ {0}, NEW f, Flattens(f, seqs, n)
    PROVE  \E g : Flattens(g, seqs, n + 1)
<1> DEFINE g == [i \in 1 .. n + 1 |-> IF i <= n THEN f[i] ELSE f[n] \o seqs[n + 1]]
           h == [i \in 1 .. n + 1 |-> IF i = 1 THEN seqs[i] ELSE g[i - 1] \o seqs[i]]
<1>1. ASSUME NEW i \in 1 .. n + 1 PROVE g[i] = h[i]
  <2>1. CASE i = n + 1
    <3>1. ~(i <= n) /\ i # 1 /\ i - 1 = n
      BY <2>1
    <3>2. /\ g[i] = IF i <= n THEN f[i] ELSE f[n] \o seqs[n + 1]
          /\ g[n] = f[n]
      OBVIOUS
    <3> HIDE DEF g
    <3>3. h[i] = IF i = 1 THEN seqs[i] ELSE g[i - 1] \o seqs[i]
      OBVIOUS
    <3> HIDE DEF h
    <3>4. QED
      BY <2>1, <3>1, <3>2, <3>3
  <2>2. CASE i \in 1 .. n
    <3>1. g[i] = f[i]
      BY <2>2
    <3>2. f[i] = IF i = 1 THEN seqs[i] ELSE f[i - 1] \o seqs[i]
      BY <2>2 DEF Flattens
    <3>3. i # 1 => g[i - 1] = f[i - 1]
      BY <2>2
    <3> HIDE DEF g
    <3>4. h[i] = IF i = 1 THEN seqs[i] ELSE g[i - 1] \o seqs[i]
      BY <2>2
    <3>5. QED
      BY <3>1, <3>2, <3>3, <3>4
  <2>3. QED
    BY <2>1, <2>2
<1>2. g = h
  <2>1. /\ g = [i \in 1 .. n + 1 |-> g[i]]
        /\ h = [i \in 1 .. n + 1 |-> h[i]]
    OBVIOUS
  <2> HIDE DEF g, h
  <2>2. QED
    BY <1>1, <2>1
<1>3. Flattens(g, seqs, n + 1)
  <2> HIDE DEF g
  <2>1. QED
    BY <1>2 DEF Flattens
<1>4. QED
  BY <1>3

LEMMA FlattensExists ==
    ASSUME NEW seqs, NEW n \in Nat \ {0}
    PROVE  \E f : Flattens(f, seqs, n)
<1> DEFINE Bad == {m \in Nat \ {0} : ~(\E f : Flattens(f, seqs, m))}
<1>1. SUFFICES ASSUME Bad # {} PROVE FALSE
  OBVIOUS
<1>2. PICK m \in Bad : \A y \in Bad : m <= y
  <2>1. Bad \subseteq Nat
    OBVIOUS
  <2> HIDE DEF Bad
  <2>2. QED
    BY <1>1, <2>1, LeastIndex
<1>3. CASE m = 1
  <2> DEFINE f == [i \in 1 .. 1 |-> seqs[i]]
  <2>1. f = [i \in 1 .. 1 |-> IF i = 1 THEN seqs[i] ELSE f[i - 1] \o seqs[i]]
    OBVIOUS
  <2>2. Flattens(f, seqs, 1)
    BY <2>1 DEF Flattens
  <2>3. QED
    BY <1>2, <1>3, <2>2
<1>4. CASE m # 1
  <2>1. m - 1 \in Nat \ {0} /\ m \in Nat
    BY <1>4
  <2>2. PICK f : Flattens(f, seqs, m - 1)
    BY <1>2, <2>1
  <2>3. \E g : Flattens(g, seqs, (m - 1) + 1)
    BY <2>1, <2>2, FlattensGrows
  <2>4. (m - 1) + 1 = m
    BY <2>1
  <2>5. QED
    BY <1>2, <2>3, <2>4
<1>5. QED
  BY <1>3, <1>4

SamePrefix(seqs, more, n) == \A i \in 1 .. n : more[i] = seqs[i]

(* There is but one, also where one of them goes on.                       *)
LEMMA FlattensAgree ==
    ASSUME NEW seqs, NEW more, NEW n \in Nat \ {0}, NEW l \in Nat, n <= l,
           SamePrefix(seqs, more, n),
           NEW f, Flattens(f, seqs, n), NEW g, Flattens(g, more, l)
    PROVE  f[n] = g[n]
<1> DEFINE Bad == {m \in 1 .. n : f[m] # g[m]}
<1>1. SUFFICES ASSUME Bad # {} PROVE FALSE
  BY DEF Bad
<1>2. PICK m \in Bad : \A y \in Bad : m <= y
  <2>1. Bad \subseteq Nat
    OBVIOUS
  <2> HIDE DEF Bad
  <2>2. QED
    BY <1>1, <2>1, LeastIndex
<1>3. /\ f[m] = IF m = 1 THEN seqs[m] ELSE f[m - 1] \o seqs[m]
      /\ g[m] = IF m = 1 THEN more[m] ELSE g[m - 1] \o more[m]
      /\ more[m] = seqs[m]
  <2>1. m \in 1 .. n /\ m \in 1 .. l
    OBVIOUS
  <2>2. \A i \in 1 .. n : f[i] = IF i = 1 THEN seqs[i] ELSE f[i - 1] \o seqs[i]
    BY DEF Flattens
  <2>3. \A i \in 1 .. l : g[i] = IF i = 1 THEN more[i] ELSE g[i - 1] \o more[i]
    BY DEF Flattens
  <2> HIDE DEF Bad
  <2>4. QED
    BY <2>1, <2>2, <2>3 DEF SamePrefix
<1>4. m # 1 => f[m - 1] = g[m - 1]
  <2>1. SUFFICES ASSUME m # 1 PROVE m - 1 \notin Bad /\ m - 1 \in 1 .. n
    OBVIOUS
  <2>2. QED
    BY <1>2, <2>1
<1>5. QED
  BY <1>3, <1>4

LEMMA FlattenIs ==
    ASSUME NEW S, NEW seqs \in Seq(Seq(S)), seqs # <<>>
    PROVE  /\ Len(seqs) \in Nat \ {0}
           /\ \E f : Flattens(f, seqs, Len(seqs)) /\ FlattenSeq(seqs) = f[Len(seqs)]
<1>1. Len(seqs) \in Nat \ {0}
  OBVIOUS
<1> DEFINE f == CHOOSE f : Flattens(f, seqs, Len(seqs))
<1>2. Flattens(f, seqs, Len(seqs))
  BY <1>1, FlattensExists
<1>3. FlattenSeq(seqs) = f[Len(seqs)]
  BY <1>1 DEF FlattenSeq, Flattens
<1>4. QED
  BY <1>1, <1>2, <1>3

LEMMA FlattenKeepsType ==
    ASSUME NEW S, NEW seqs \in Seq(Seq(S))
    PROVE  FlattenSeq(seqs) \in Seq(S)
<1>1. CASE seqs = <<>>
  BY <1>1 DEF FlattenSeq
<1>2. CASE seqs # <<>>
  <2> DEFINE n == Len(seqs)
  <2>1. PICK f : Flattens(f, seqs, n) /\ FlattenSeq(seqs) = f[n]
    BY <1>2, FlattenIs
  <2>2. n \in Nat \ {0} /\ \A i \in 1 .. n : seqs[i] \in Seq(S)
    BY <1>2
  <2>3. \A i \in 1 .. n : f[i] = IF i = 1 THEN seqs[i] ELSE f[i - 1] \o seqs[i]
    BY <2>1 DEF Flattens
  <2> HIDE DEF n
  <2> DEFINE Bad == {m \in 1 .. n : f[m] \notin Seq(S)}
  <2>4. SUFFICES ASSUME Bad # {} PROVE FALSE
    BY <2>1, <2>2 DEF n
  <2>5. PICK m \in Bad : \A y \in Bad : m <= y
    <3>1. Bad \subseteq Nat
      BY <2>2
    <3> HIDE DEF Bad
    <3>2. QED
      BY <2>4, <3>1, LeastIndex
  <2>6. m \in 1 .. n /\ f[m] \notin Seq(S) /\ m \in Nat
    BY <2>2
  <2>7. m # 1 /\ f[m] = f[m - 1] \o seqs[m]
    BY <2>2, <2>3, <2>6
  <2>8. m - 1 \in 1 .. n /\ m - 1 \notin Bad
    BY <2>2, <2>5, <2>6, <2>7
  <2>9. f[m - 1] \in Seq(S)
    BY <2>8
  <2>10. QED
    BY <2>2, <2>6, <2>7, <2>9
<1>3. QED
  BY <1>1, <1>2

(* A line at the end of a header stands at the end of what it joins to.    *)
LEMMA FlattenAppend ==
    ASSUME NEW S, NEW seqs \in Seq(Seq(S)), NEW line \in Seq(S)
    PROVE  FlattenSeq(Append(seqs, line)) = FlattenSeq(seqs) \o line
<1> DEFINE n == Len(seqs)
           more == Append(seqs, line)
<1>1. /\ more \in Seq(Seq(S)) /\ more # <<>> /\ n \in Nat
      /\ Len(more) = n + 1 /\ more[n + 1] = line
      /\ \A i \in 1 .. n : more[i] = seqs[i]
  BY AppendProperties
<1> HIDE DEF more
<1>2. PICK g : Flattens(g, more, n + 1) /\ FlattenSeq(more) = g[n + 1]
  <2>1. \E g : Flattens(g, more, Len(more)) /\ FlattenSeq(more) = g[Len(more)]
    BY <1>1, FlattenIs
  <2>2. QED
    BY <1>1, <2>1
<1>3. \A i \in 1 .. n + 1 : g[i] = IF i = 1 THEN more[i] ELSE g[i - 1] \o more[i]
  BY <1>2 DEF Flattens
<1>4. CASE seqs = <<>>
  <2>1. n = 0 /\ FlattenSeq(seqs) = <<>>
    BY <1>4 DEF FlattenSeq
  <2>2. g[1] = line
    BY <1>1, <1>3, <2>1
  <2>3. <<>> \o line = line
    OBVIOUS
  <2>4. QED
    BY <1>2, <2>1, <2>2, <2>3 DEF more
<1>5. CASE seqs # <<>>
  <2>1. n \in Nat \ {0}
    BY <1>5
  <2>2. PICK f : Flattens(f, seqs, n) /\ FlattenSeq(seqs) = f[n]
    BY <1>5, FlattenIs
  <2>3. f[n] = g[n]
    <3>1. n + 1 \in Nat /\ n <= n + 1
      BY <1>1
    <3>2. Flattens(f, seqs, n) /\ Flattens(g, more, n + 1) /\ SamePrefix(seqs, more, n)
      BY <1>1, <1>2, <2>2 DEF SamePrefix
    <3> DEFINE l == n + 1
    <3>3. l \in Nat /\ n <= l /\ Flattens(g, more, l)
      BY <3>1, <3>2
    <3> HIDE DEF n, l
    <3>4. QED
      BY <2>1, <3>2, <3>3, FlattensAgree
  <2> HIDE DEF n
  <2>4. n + 1 \in 1 .. n + 1 /\ n + 1 # 1 /\ (n + 1) - 1 = n
    BY <2>1
  <2>5. g[n + 1] = g[n] \o line
    BY <1>1, <1>3, <2>4
  <2>6. QED
    BY <1>2, <2>2, <2>3, <2>5 DEF more
<1>6. QED
  BY <1>4, <1>5

(* So does an entry at the end of its last line.                           *)
LEMMA FlattenExtend ==
    ASSUME NEW S, NEW seqs \in Seq(Seq(S)), seqs # <<>>, NEW entry \in S
    PROVE  /\ Front(seqs) \o <<Append(Last(seqs), entry)>> \in Seq(Seq(S))
           /\ FlattenSeq(Front(seqs) \o <<Append(Last(seqs), entry)>>)
                 = Append(FlattenSeq(seqs), entry)
<1> DEFINE front == Front(seqs)
           last == Last(seqs)
<1>1. /\ front \in Seq(Seq(S)) /\ last \in Seq(S)
      /\ seqs = Append(front, last)
  BY DEF Front, Last
<1> HIDE DEF front, last
<1>2. /\ Append(last, entry) \in Seq(S) /\ last \o <<entry>> = Append(last, entry)
      /\ front \o <<Append(last, entry)>> = Append(front, Append(last, entry))
  BY <1>1
<1>3. FlattenSeq(seqs) = FlattenSeq(front) \o last
  BY <1>1, FlattenAppend
<1>4. FlattenSeq(Append(front, Append(last, entry)))
          = FlattenSeq(front) \o Append(last, entry)
  BY <1>1, <1>2, FlattenAppend
<1>5. FlattenSeq(front) \in Seq(S)
  BY <1>1, FlattenKeepsType
<1> DEFINE joined == FlattenSeq(front)
<1>6. joined \o Append(last, entry) = Append(joined \o last, entry)
  <2> HIDE DEF joined
  <2>1. joined \in Seq(S) /\ <<entry>> \in Seq(S)
    BY <1>5 DEF joined
  <2>2. joined \o (last \o <<entry>>) = (joined \o last) \o <<entry>>
    BY <1>1, <2>1, ConcatAssociative
  <2>3. joined \o last \in Seq(S)
    BY <1>1, <2>1, ConcatProperties
  <2>4. (joined \o last) \o <<entry>> = Append(joined \o last, entry)
    BY <2>3, AppendIsConcat
  <2>5. QED
    BY <1>2, <2>2, <2>4
<1> HIDE DEF joined
<1>7. /\ front \o <<Append(last, entry)>> \in Seq(Seq(S))
      /\ FlattenSeq(front \o <<Append(last, entry)>>) = Append(FlattenSeq(seqs), entry)
  <2>1. Append(front, Append(last, entry)) \in Seq(Seq(S))
    BY <1>1, <1>2, AppendProperties
  <2>2. QED
    BY <1>2, <1>3, <1>4, <1>6, <2>1 DEF joined
<1>8. QED
  BY <1>7 DEF front, last

-------------------------------------------------------------------------------
Entries == [host : Addresses \cup {Malformed, Empty}, port : BOOLEAN]

(* How many entries of the header the machines on the way have not made; -1*)
(* when one of them has dropped what there was, the client's address too.  *)
Skipped == Len(Joined(lines)) - (Len(path) - 1)

(* The header ends with the machines up to the last but one, in the order  *)
(* of the way; the client may be in X-Real-IP instead.                     *)
Recorded ==
    /\ Skipped >= -1
    /\ \A j \in 1 .. Len(path) - 1 :
          Skipped + j >= 1 => Joined(lines)[Skipped + j].host = path[j]
    /\ Skipped = -1 => Len(path) >= 2 /\ realIP.host = path[1]

AddressInv ==
    /\ trusted \in TrustLists
    /\ path \in Seq(Addresses) /\ path # <<>> /\ path[1] \in Clients
    /\ lines \in Seq(Seq(Entries))
    /\ realIP \in Entries
    /\ Recorded

LEMMA EntryIs ==
    ASSUME NEW host \in Addresses \cup {Malformed, Empty}, NEW port \in BOOLEAN
    PROVE  Entry(host, port) \in Entries /\ Entry(host, port).host = host
BY DEF Entry, Entries

LEMMA AddressInit == Init => AddressInv
<1> SUFFICES ASSUME Init PROVE AddressInv
  OBVIOUS
<1>1. PICK client \in Clients : path = <<client>>
  BY DEF Init
<1>2. /\ path \in Seq(Addresses) /\ path # <<>> /\ path[1] \in Clients /\ Len(path) = 1
  BY <1>1 DEF Addresses
<1>3. ForgedEntries \subseteq Entries /\ NoEntry \in Entries
  BY EntryIs DEF ForgedEntries, NoEntry
<1>4. trusted \in TrustLists /\ realIP \in Entries
  BY <1>3 DEF Init
<1>5. lines \in Seq(Seq(Entries))
  <2>1. lines \in ForgedLines
    BY DEF Init
  <2>2. CASE lines = <<>>
    BY <2>2
  <2>3. CASE lines # <<>>
    <3>1. PICK n \in 1 .. MaxForged : \E line \in [1 .. n -> ForgedEntries] : lines = <<line>>
      BY <2>1, <2>3 DEF ForgedLines
    <3>2. PICK line \in [1 .. n -> ForgedEntries] : lines = <<line>>
      BY <3>1
    <3>3. n \in Nat
      BY AddressAssumption
    <3>4. line \in Seq(Entries)
      BY <1>3, <3>3
    <3>5. QED
      BY <3>2, <3>4
  <2>4. QED
    BY <2>2, <2>3
<1>6. Len(Joined(lines)) \in Nat
  BY <1>5, FlattenKeepsType, LenProperties DEF Joined
<1>7. Recorded
  BY <1>2, <1>6 DEF Recorded, Skipped
<1>8. QED
  BY <1>2, <1>4, <1>5, <1>7 DEF AddressInv

LEMMA RelayRecords ==
    ASSUME AddressInv, NEW machine \in Addresses, NEW port \in BOOLEAN, Relay(machine, port)
    PROVE  AddressInv'
<1> DEFINE n == Len(path)
           header == Joined(lines)
           entry == Entry(path[n], port)
<1>1. /\ n \in Nat \ {0} /\ path \in Seq(Addresses) /\ path[n] \in Addresses
      /\ lines \in Seq(Seq(Entries)) /\ header \in Seq(Entries) /\ Len(header) \in Nat
  <2>1. /\ n \in Nat \ {0} /\ path \in Seq(Addresses) /\ path[n] \in Addresses
        /\ lines \in Seq(Seq(Entries))
    BY DEF AddressInv
  <2>2. header \in Seq(Entries)
    BY <2>1, FlattenKeepsType DEF Joined
  <2>3. QED
    BY <2>1, <2>2, LenProperties
<1>2. entry \in Entries /\ entry.host = path[n]
  BY <1>1, EntryIs
<1>3. path' = Append(path, machine) /\ UNCHANGED <<trusted, realIP>>
  BY DEF Relay
<1>4. lines' \in Seq(Seq(Entries)) /\ Joined(lines)' = Append(header, entry)
  <2> HIDE DEF entry
  <2>1. CASE lines' = Append(lines, <<entry>>)
    <3>1. <<entry>> \in Seq(Entries)
      BY <1>2
    <3>2. lines' \in Seq(Seq(Entries))
      BY <1>1, <2>1, <3>1, AppendProperties
    <3>3. Joined(lines)' = header \o <<entry>>
      BY <1>1, <2>1, <3>1, FlattenAppend DEF Joined
    <3> HIDE DEF header
    <3>4. QED
      BY <1>1, <1>2, <3>2, <3>3, AppendIsConcat
  <2>2. CASE lines # <<>> /\ lines' = Front(lines) \o <<Append(Last(lines), entry)>>
    BY <1>1, <1>2, <2>2, FlattenExtend DEF Joined
  <2>3. QED
    BY <2>1, <2>2 DEF Relay, Last, entry
<1> DEFINE s == Skipped
<1>5. s = Len(header) - (n - 1) /\ Recorded
  BY DEF AddressInv, Skipped
<1> HIDE DEF header, entry
<1>6. /\ Len(path') = n + 1 /\ path'[n + 1] = machine /\ path' \in Seq(Addresses)
      /\ \A j \in 1 .. n : path'[j] = path[j]
  BY <1>1, <1>3, AppendProperties
<1>7. /\ Len(Joined(lines)') = Len(header) + 1
      /\ Joined(lines)'[Len(header) + 1] = entry
      /\ \A j \in 1 .. Len(header) : Joined(lines)'[j] = header[j]
  BY <1>1, <1>2, <1>4, AppendProperties
<1>8. Skipped' = s
  BY <1>1, <1>5, <1>6, <1>7 DEF Skipped
<1>9. /\ s \in Int /\ s >= -1
      /\ \A j \in 1 .. n - 1 : s + j >= 1 => header[s + j].host = path[j]
      /\ s = -1 => n >= 2 /\ realIP.host = path[1]
  BY <1>1, <1>5 DEF Recorded, header
<1> HIDE DEF s, n
<1>10. ASSUME NEW j \in 1 .. n, s + j >= 1
       PROVE  Joined(lines)'[s + j].host = path'[j]
  <2>1. CASE j = n
    BY <1>1, <1>2, <1>5, <1>6, <1>7, <2>1
  <2>2. CASE j # n
    <3>1. j \in 1 .. n - 1 /\ s + j \in 1 .. Len(header)
      BY <1>1, <1>5, <1>9, <1>10, <2>2
    <3>2. QED
      BY <1>6, <1>7, <1>9, <1>10, <3>1
  <2>3. QED
    BY <2>1, <2>2
<1>11. Recorded'
  <2>1. Len(path') - 1 = n
    BY <1>1, <1>6
  <2>2. s = -1 => Len(path') >= 2 /\ realIP'.host = path'[1]
    BY <1>1, <1>3, <1>6, <1>9
  <2>3. QED
    BY <1>8, <1>9, <1>10, <2>1, <2>2 DEF Recorded
<1>12. path' # <<>> /\ path'[1] \in Clients /\ trusted' \in TrustLists /\ realIP' \in Entries
  <2>1. 1 \in 1 .. n /\ path[1] \in Clients
    BY <1>1 DEF AddressInv
  <2>2. QED
    BY <1>1, <1>3, <1>6, <2>1 DEF AddressInv
<1>13. QED
  BY <1>4, <1>6, <1>11, <1>12 DEF AddressInv

LEMMA TerminateRecords ==
    ASSUME AddressInv, NEW machine \in Addresses, NEW port \in BOOLEAN,
           Terminate(machine, port)
    PROVE  AddressInv'
<1>1. /\ path' = Append(path, machine) /\ Len(path) = 1 /\ path \in Seq(Addresses)
      /\ lines' = <<>> /\ realIP' = Entry(path[1], port) /\ trusted' = trusted
      /\ path[1] \in Clients /\ trusted \in TrustLists
  BY DEF Terminate, AddressInv
<1>2. /\ path' \in Seq(Addresses) /\ path' # <<>> /\ Len(path') = 2 /\ path'[1] = path[1]
  <2>1. path \in Seq(Addresses)
    BY <1>1
  <2>2. /\ Append(path, machine) \in Seq(Addresses) /\ Append(path, machine) # <<>>
        /\ Len(Append(path, machine)) = Len(path) + 1
        /\ \A j \in 1 .. Len(path) : Append(path, machine)[j] = path[j]
    BY <2>1, AppendProperties
  <2>3. 1 \in 1 .. Len(path)
    BY <1>1
  <2> DEFINE next == Append(path, machine)
  <2> HIDE DEF next
  <2>4. /\ next \in Seq(Addresses) /\ next # <<>> /\ Len(next) = 2 /\ next[1] = path[1]
    BY <1>1, <2>2, <2>3 DEF next
  <2>5. QED
    BY <1>1, <2>4 DEF next
<1>3. realIP' \in Entries /\ realIP'.host = path[1]
  BY <1>1, EntryIs DEF Addresses
<1>4. lines' \in Seq(Seq(Entries)) /\ Len(Joined(lines)') = 0
  BY <1>1 DEF Joined, FlattenSeq
<1>5. Skipped' = -1
  BY <1>2, <1>4 DEF Skipped
<1>6. Recorded'
  BY <1>2, <1>3, <1>5 DEF Recorded
<1>7. QED
  BY <1>1, <1>2, <1>3, <1>4, <1>6 DEF AddressInv

LEMMA AddressNext ==
    ASSUME AddressInv, [Next]_vars
    PROVE  AddressInv'
<1>1. CASE UNCHANGED vars
  BY <1>1 DEF vars, AddressInv, Recorded, Skipped
<1>2. QED
  BY <1>1, RelayRecords, TerminateRecords DEF Next

-------------------------------------------------------------------------------
LEMMA MaxIs ==
    ASSUME NEW S, S \subseteq Nat, NEW m \in S, \A y \in S : y <= m
    PROVE  Max(S) = m
<1>1. \A y \in S : m >= y
  OBVIOUS
<1>2. /\ Max(S) \in S
      /\ \A y \in S : Max(S) >= y
  BY <1>1 DEF Max
<1> DEFINE c == Max(S)
<1>3. c \in Nat /\ m \in Nat /\ c >= m /\ c <= m
  BY <1>2
<1> HIDE DEF c
<1>4. c = m
  BY <1>3
<1>5. QED
  BY <1>4 DEF c

(* The last of the bounded members with a property.                        *)
LEMMA LastIndex ==
    ASSUME NEW T, NEW n \in Nat, T \subseteq 1 .. n, T # {}
    PROVE  \E x \in T : \A y \in T : y <= x
<1> DEFINE gaps == {n - x : x \in T}
<1>1. gaps \subseteq Nat /\ gaps # {}
  <2>1. \A x \in T : n - x \in Nat
    OBVIOUS
  <2>2. PICK x : x \in T
    OBVIOUS
  <2>3. n - x \in gaps
    BY <2>2
  <2>4. QED
    BY <2>1, <2>3
<1> HIDE DEF gaps
<1>2. PICK g \in gaps : \A h \in gaps : g <= h
  BY <1>1, LeastIndex
<1>3. PICK x \in T : g = n - x
  BY DEF gaps
<1>4. ASSUME NEW y \in T PROVE y <= x
  <2>1. n - y \in gaps
    BY DEF gaps
  <2>2. n - x <= n - y
    BY <1>2, <1>3, <2>1
  <2>3. QED
    BY <2>2
<1>5. QED
  BY <1>4

Stranger(host) == ~IsTrusted(host, trusted)

LEMMA ClientsAreStrangers ==
    ASSUME trusted \in TrustLists, NEW client \in Clients
    PROVE  Stranger(client)
BY AddressAssumption DEF Stranger, IsTrusted

LEMMA LastStrangerIs ==
    ASSUME AddressInv, NEW l \in 1 .. Len(path), Stranger(path[l]),
           \A j \in 1 .. Len(path) : j > l => ~Stranger(path[j])
    PROVE  LastStranger = path[l]
<1> DEFINE I == {i \in 1 .. Len(path) : ~IsTrusted(path[i], trusted)}
<1>1. l \in I /\ I \subseteq Nat /\ \A y \in I : y <= l
  BY DEF Stranger
<1> HIDE DEF I
<1>2. Max(I) = l /\ I # {}
  BY <1>1, MaxIs
<1>3. LastStranger = path[IF I # {} THEN Max(I) ELSE 0]
  BY DEF LastStranger, SelectLastInSeq, I
<1>4. QED
  BY <1>2, <1>3

LEMMA SomeStranger ==
    ASSUME AddressInv
    PROVE  \E l \in 1 .. Len(path) :
              /\ Stranger(path[l])
              /\ \A j \in 1 .. Len(path) : j > l => ~Stranger(path[j])
<1> DEFINE T == {i \in 1 .. Len(path) : Stranger(path[i])}
<1>1. Len(path) \in Nat /\ 1 \in 1 .. Len(path) /\ Stranger(path[1])
  BY ClientsAreStrangers DEF AddressInv
<1>2. T \subseteq 1 .. Len(path) /\ T # {}
  BY <1>1
<1>3. PICK l \in T : \A y \in T : y <= l
  <2> HIDE DEF T
  <2>1. QED
    BY <1>1, <1>2, LastIndex
<1>4. ASSUME NEW j \in 1 .. Len(path), j > l PROVE ~Stranger(path[j])
  BY <1>1, <1>3, <1>4
<1>5. QED
  BY <1>3, <1>4

(* From a trusted peer, the last entry that names a stranger is the key.   *)
LEMMA KeyIs ==
    ASSUME NEW T, T = {i \in 1 .. Len(Joined(lines)) :
                          Joined(lines)[i].host \in Addresses /\ Stranger(Joined(lines)[i].host)}
    PROVE  /\ Stranger(Last(path)) => Key = Last(path)
           /\ ~Stranger(Last(path)) /\ T # {} /\ Max(T) # 0
                 => Key = Joined(lines)[Max(T)].host
           /\ ~Stranger(Last(path)) /\ T = {} /\ realIP.host \in Addresses
                /\ Stranger(realIP.host)
                 => Key = realIP.host
BY DEF Key, ClientIP, CleanIP, Entry, SelectLastInSeq, Stranger

LEMMA KeyIsStrangers ==
    ASSUME AddressInv
    PROVE  KeyIsLastStranger /\ Key \in Addresses
<1> DEFINE n == Len(path)
           header == Joined(lines)
           s == Skipped
           T == {i \in 1 .. Len(header) : header[i].host \in Addresses /\ Stranger(header[i].host)}
<1>1. PICK l \in 1 .. n : /\ Stranger(path[l])
                          /\ \A j \in 1 .. n : j > l => ~Stranger(path[j])
  BY SomeStranger
<1>2. LastStranger = path[l]
  BY <1>1, LastStrangerIs
<1>3. /\ n \in Nat \ {0} /\ path \in Seq(Addresses) /\ path[l] \in Addresses
      /\ header \in Seq(Entries) /\ Len(header) \in Nat
  <2>1. n \in Nat \ {0} /\ path \in Seq(Addresses) /\ lines \in Seq(Seq(Entries))
    BY DEF AddressInv
  <2>2. header \in Seq(Entries)
    BY <2>1, FlattenKeepsType DEF Joined
  <2>3. path[l] \in Addresses
    BY <2>1, <1>1
  <2>4. QED
    BY <2>1, <2>2, <2>3, LenProperties
<1>4. /\ s \in Int /\ s >= -1 /\ Len(header) = s + (n - 1)
      /\ \A j \in 1 .. n - 1 : s + j >= 1 => header[s + j].host = path[j]
      /\ s = -1 => n >= 2 /\ realIP.host = path[1]
  BY <1>3 DEF AddressInv, Recorded, Skipped
<1>5. /\ Stranger(path[n]) => Key = path[n]
      /\ ~Stranger(path[n]) /\ T # {} /\ Max(T) # 0 => Key = header[Max(T)].host
      /\ ~Stranger(path[n]) /\ T = {} /\ realIP.host \in Addresses /\ Stranger(realIP.host)
            => Key = realIP.host
  BY KeyIs DEF Last
<1> HIDE DEF header, s, n
<1>6. CASE l = n
  BY <1>1, <1>2, <1>3, <1>5, <1>6 DEF KeyIsLastStranger
<1>7. CASE l # n
  <2>1. ~Stranger(path[n]) /\ l \in 1 .. n - 1
    BY <1>1, <1>3, <1>7
  <2>2. ASSUME NEW i \in 1 .. Len(header), i > s + l PROVE i \notin T
    <3>1. i - s \in 1 .. n - 1 /\ i - s > l /\ s + (i - s) = i
      BY <1>3, <1>4, <2>1, <2>2
    <3>2. header[i].host = path[i - s]
      BY <1>4, <3>1
    <3>3. ~Stranger(path[i - s])
      BY <1>1, <1>3, <3>1
    <3>4. QED
      BY <3>2, <3>3
  <2>3. CASE s + l >= 1
    <3>1. s + l \in 1 .. Len(header) /\ header[s + l].host = path[l]
      BY <1>3, <1>4, <2>1, <2>3
    <3>2. s + l \in T /\ T \subseteq Nat
      BY <1>1, <1>3, <3>1
    <3>3. \A y \in T : y <= s + l
      BY <1>3, <1>4, <2>1, <2>2
    <3> HIDE DEF T
    <3>4. Max(T) = s + l
      BY <3>2, <3>3, MaxIs
    <3>5. Key = path[l]
      BY <1>5, <2>1, <2>3, <3>1, <3>2, <3>4
    <3>6. QED
      BY <1>2, <1>3, <3>5 DEF KeyIsLastStranger
  <2>4. CASE ~(s + l >= 1)
    <3>1. s = -1 /\ l = 1
      BY <1>4, <2>1, <2>4
    <3>2. T = {}
      <4>1. \A i \in 1 .. Len(header) : i > s + l
        BY <1>3, <3>1
      <4>2. QED
        BY <2>2, <4>1
    <3> HIDE DEF T
    <3>3. Key = path[l]
      BY <1>1, <1>3, <1>4, <1>5, <2>1, <3>1, <3>2
    <3>4. QED
      BY <1>2, <1>3, <3>3 DEF KeyIsLastStranger
  <2>5. QED
    BY <2>3, <2>4
<1>8. QED
  BY <1>6, <1>7

(* Whatever the headers hold: the key is an address, without a port, and   *)
(* the header's parts are well typed (xff.go:9-62).                        *)
THEOREM KeyIsAnAddress == Spec => []TypeOK
<1>1. ASSUME AddressInv PROVE TypeOK
  <2>1. realIP \in {Entry(host, port) : host \in Addresses \cup {Malformed, Empty},
                                        port \in BOOLEAN}
    <3>1. realIP \in Entries
      BY <1>1 DEF AddressInv
    <3>2. /\ realIP = Entry(realIP.host, realIP.port)
          /\ realIP.host \in Addresses \cup {Malformed, Empty} /\ realIP.port \in BOOLEAN
      BY <3>1 DEF Entries, Entry
    <3>3. QED
      BY <3>2
  <2>2. QED
    BY <1>1, <2>1, KeyIsStrangers DEF TypeOK, AddressInv
<1>2. QED
  BY AddressInit, AddressNext, <1>1, PTL DEF Spec

(* A client cannot choose its key: for any trusted list, any number of     *)
(* relays and whatever they wrote over however many lines, the key is the  *)
(* address of the last machine that the operator does not trust            *)
(* (xff.go:9-10, CHANGELOG 1.2.1).                                         *)
THEOREM KeyIsAlwaysLastStranger == Spec => []KeyIsLastStranger
<1>1. AddressInv => KeyIsLastStranger
  BY KeyIsStrangers
<1>2. QED
  BY AddressInit, AddressNext, <1>1, PTL DEF Spec
===============================================================================

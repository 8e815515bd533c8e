------------------------------ MODULE Identity ------------------------------
(* shadow/identity.go: the decimal layouts and the segments that keep the    *)
(* ids of shadow traffic apart from the ids of main traffic, and the user    *)
(* ids that replay/sanitize.go puts in place of real ones.  An id is encoded *)
(* by one service or comes from outside, and is decoded, validated and       *)
(* routed by another.                                                        *)
EXTENDS Integers, Sequences

CONSTANTS SeqRadix, BusinessRadix, CurrencyRadix,   \* 10^7, 10^4, 10^3
          TablesPerDB,                              \* 10
          Channels, Stride,   \* MaxFleetChannels and FleetChannelStride
          Segment,            \* user id segments: name |-> <<least, greatest>>
          FakeUsers,          \* the sanitiser's range, 10^7
          MaxOutside          \* bound: ids from outside
ASSUME IdentityAssumption ==
    /\ {SeqRadix, BusinessRadix, CurrencyRadix, TablesPerDB, Channels, Stride, FakeUsers}
           \subseteq Nat \ {0, 1}
    /\ MaxOutside \in Nat
\* The segments follow one another, each platform segment has room for every
\* channel, the shadow users' for every main user's offset and for the fake ids,
\* which begin with the shadow platform's.
ASSUME SegmentAssumption ==
    /\ Segment \in [{"mainFleet", "main", "shadowFleet", "shadow"} -> Nat \X Nat]
    /\ Segment.mainFleet[2] < Segment.main[1] /\ Segment.main[2] < Segment.shadowFleet[1]
    /\ Segment.shadowFleet[2] + 1 = Segment.shadow[1]
    /\ Segment.mainFleet[1] + Channels * Stride - 1 <= Segment.mainFleet[2]
    /\ Segment.shadowFleet[1] + Channels * Stride - 1 <= Segment.shadowFleet[2]
    /\ Segment.main[1] <= Segment.main[2]
    /\ Segment.main[2] - Segment.main[1] <= Segment.shadow[2] - Segment.shadow[1]
    /\ Segment.shadowFleet[1] + FakeUsers - 1 <= Segment.shadow[2]

VARIABLE held   \* the id in hand: where from, its kind, whose traffic, its fields
idVars == <<held>>

Traffic == {"main", "shadow"}
Digits2 == TablesPerDB * TablesPerDB   \* two digits: a table, a type
ShadowMul == SeqRadix * BusinessRadix * Digits2 * Digits2 * CurrencyRadix
Kind == {"merchant", "entity", "account", "accountV2", "id"}
\* The radix of each field, lowest first: seq; seq, table; seq, business, table,
\* type, currency, where version 2 moves a digit from type to table; seq, table,
\* idType.
Radices(k) ==
    CASE k = "merchant" -> <<ShadowMul>>
      [] k = "entity" -> <<SeqRadix * BusinessRadix * Digits2 * CurrencyRadix, Digits2>>
      [] k = "account" -> <<SeqRadix, BusinessRadix, Digits2, Digits2, CurrencyRadix>>
      [] k = "accountV2" -> <<SeqRadix, BusinessRadix, Digits2 * TablesPerDB, TablesPerDB, CurrencyRadix>>
      [] k = "id" -> <<SeqRadix * BusinessRadix * Digits2, Digits2, CurrencyRadix>>
Table(k) == IF k \in {"account", "accountV2"} THEN 3 ELSE 2
\* The multiplier of field i: the radices below it.
Mul(k, i) ==
    LET below(j) == IF j < i THEN Radices(k)[j] ELSE 1
    IN  below(1) * below(2) * below(3) * below(4)
InRange(k, f) ==
    /\ DOMAIN f = DOMAIN Radices(k) /\ f[1] > 0
    /\ \A i \in DOMAIN f : f[i] \in 0 .. Radices(k)[i] - 1

\* EncodeMerchantID, EncodeEntityID, EncodeAccountID, EncodeAccountIDV2, EncodeID.
Encode(k, t, f) ==
    LET part(i) == IF i \in DOMAIN f THEN f[i] * Mul(k, i) ELSE 0
    IN  part(1) + part(2) + part(3) + part(4) + part(5)
          + (IF t = "shadow" THEN ShadowMul ELSE 0) + (IF k = "accountV2" THEN 2 * ShadowMul ELSE 0)
\* AccountIDLayoutVersion: account ids tell their version by their size.
Layout(k, id) ==
    IF k \in {"account", "accountV2"} THEN IF id >= 2 * ShadowMul THEN "accountV2" ELSE "account"
    ELSE k
Stripped(k, id) == IF Layout(k, id) = "accountV2" THEN id - 2 * ShadowMul ELSE id
Payload(k, id) == LET a == Stripped(k, id) IN IF a >= ShadowMul THEN a - ShadowMul ELSE a
\* IsShadowMerchantID, IsShadowEntityID, and the Decode functions' flag.
TrafficOf(k, id) == IF Stripped(k, id) >= ShadowMul THEN "shadow" ELSE "main"
\* The Decode functions; the topmost field takes what is left.
Decode(k, id) ==
    LET l == Layout(k, id)
        n == Len(Radices(l))
    IN  [i \in 1 .. n |-> IF i = n THEN Payload(k, id) \div Mul(l, i)
                          ELSE (Payload(k, id) % Mul(l, i + 1)) \div Mul(l, i)]
\* IsShadowAccountIDLayout, without taking the version off.
IsShadowAccountIDLayout(id) == (id \div ShadowMul) % 2 = 1
\* Mutant: every account has ten tables in a database.
DBIndexOld(k, id) == Decode(k, id)[Table(k)] \div TablesPerDB
\* EntityIDTableIndex, AccountIDGlobalTableIdx, IDTableIndex: the table, and
\* EntityIDDBIndex, AccountIDDBIndex, IDDBIndex: the database it is in.
TableIndex(k, id) == Decode(k, id)[Table(k)]
DBIndex(k, id) ==
    TableIndex(k, id) \div (IF Layout(k, id) = "accountV2" THEN Digits2 ELSE TablesPerDB)
\* ValidateMerchantID, ValidateEntityID and, with the limits of version 1 for
\* both versions, ValidateAccountIDLayout.
Validate(k, t, id) ==
    LET l == IF k = "accountV2" THEN "account" ELSE k
    IN  id >= 0 /\ TrafficOf(k, id) = t /\ InRange(l, Decode(k, id))
-----------------------------------------------------------------------------
In(s, id) == id \in Segment[s][1] .. Segment[s][2]
Clamp(x, n) == IF x \in 0 .. n - 1 THEN x ELSE 0
\* FleetUserID, which takes an index out of range for 0.
FleetUserID(t, channel, table) ==
    Segment[IF t = "shadow" THEN "shadowFleet" ELSE "mainFleet"][1]
      + Clamp(channel, Channels) * Stride + Clamp(table, Stride)
IsFleetUserID(id) == In("mainFleet", id) \/ In("shadowFleet", id)
DecodeFleetUserID(id) ==
    IF ~IsFleetUserID(id) THEN <<-1, -1>>
    ELSE LET o == id - Segment[IF In("mainFleet", id) THEN "mainFleet" ELSE "shadowFleet"][1]
         IN  <<o \div Stride, o % Stride>>
\* UserIDRange, ValidateUserID, ValidateCustomerID.
ValidateUserID(t, id) == In(t, id)
\* ShadowUserID: the offset is kept, a shadow id stays, any other has none: 0.
ShadowUserID(id) ==
    IF In("shadow", id) THEN id
    ELSE IF In("main", id) THEN Segment["shadow"][1] + (id - Segment["main"][1])
    ELSE 0
ShadowMerchantID(id) ==
    IF id <= 0 THEN 0 ELSE IF id >= ShadowMul THEN id ELSE id + ShadowMul
\* The sanitiser's shadowUserID: a hash, here any number, from the least of
\* what it takes for the shadow users' segment.
FakeUserID(hash) == Segment["shadowFleet"][1] + (hash % FakeUsers)
-----------------------------------------------------------------------------
Held(from, kind, t, f, id) == [from |-> from, kind |-> kind, traffic |-> t, fields |-> f, id |-> id]
IdInit == held = Held("nowhere", "user", "main", <<>>, 0)
Digit(k, i) == IF i \in DOMAIN Radices(k) THEN 0 .. Radices(k)[i] - 1 ELSE {0}
Issue ==
    \E k \in Kind, t \in Traffic :
        \E g \in Digit(k, 1) \X Digit(k, 2) \X Digit(k, 3) \X Digit(k, 4) \X Digit(k, 5) :
            LET f == [i \in DOMAIN Radices(k) |-> g[i]]
            IN  InRange(k, f) /\ held' = Held("encoded", k, t, f, Encode(k, t, f))
IssueFleet ==
    \E t \in Traffic, channel \in 0 .. Channels - 1, table \in 0 .. Stride - 1 :
        held' = Held("encoded", "fleet", t, <<channel, table>>, FleetUserID(t, channel, table))
Outside ==
    \E k \in {"merchant", "entity", "account", "user"}, id \in -1 .. MaxOutside :
        held' = Held("outside", k, "main", <<>>, id)
\* A main id is mapped to its shadow.
ToShadow ==
    \/ /\ held.kind = "merchant"
       /\ held' = Held("mapped", "merchant", "shadow", <<held.id>>, ShadowMerchantID(held.id))
    \/ /\ held.kind = "user" /\ held.from = "outside"
       /\ held' = Held("mapped", "user", "shadow", <<held.id>>, ShadowUserID(held.id))
\* A captured user id is replaced for the replay, which is shadow traffic.
Sanitise ==
    \E hash \in {0, FakeUsers - 1, FakeUsers} :
        held' = Held("sanitised", "user", "shadow", <<>>, FakeUserID(hash))
IdNext ==
    \/ held.from = "nowhere" /\ (Issue \/ IssueFleet \/ Outside \/ Sanitise)
    \/ ToShadow
IdSpec == IdInit /\ [][IdNext]_idVars
-----------------------------------------------------------------------------
IdTypeOK ==
    /\ held \in [from : {"nowhere", "encoded", "outside", "mapped", "sanitised"},
                 kind : Kind \cup {"user", "fleet"}, traffic : Traffic, fields : Seq(Int), id : Int]
    /\ held.from = "encoded" /\ held.kind # "fleet" => held.id \in 1 .. 4 * ShadowMul - 1

\* Whatever is encoded, in either version, is read back field by field, and the
\* two ways to tell its traffic agree.
DecodesBack ==
    held.from = "encoded" =>
        IF held.kind = "fleet" THEN DecodeFleetUserID(held.id) = held.fields
        ELSE /\ Decode(held.kind, held.id) = held.fields
             /\ TrafficOf(held.kind, held.id) = held.traffic
             /\ Layout(held.kind, held.id) = held.kind
             /\ held.kind \in {"account", "accountV2"} =>
                    (IsShadowAccountIDLayout(held.id) <=> held.traffic = "shadow")

\* An id is found where it was put: the database and the table of ten by ten, or
\* ten by a hundred, that its table field names.
RoutesHome ==
    held.from = "encoded" /\ held.kind \in Kind \ {"merchant"} =>
        LET table == held.fields[Table(held.kind)]
            perDB == IF held.kind = "accountV2" THEN Digits2 ELSE TablesPerDB
        IN  /\ TableIndex(held.kind, held.id) = table
            /\ DBIndex(held.kind, held.id) \in 0 .. TablesPerDB - 1
            /\ table - DBIndex(held.kind, held.id) * perDB \in 0 .. perDB - 1

\* The Validate functions take an id in the traffic it was encoded for and in no
\* other, and from outside nothing that could not have been encoded; of version
\* 2 they take the tables that version 1 had, and no more.
OnlyOwnTraffic ==
    held.kind \in Kind \ {"id"} =>
        \A t \in Traffic : Validate(held.kind, t, held.id) =>
            LET l == Layout(held.kind, held.id) IN
            /\ InRange(l, Decode(held.kind, held.id))
            /\ Encode(l, t, Decode(held.kind, held.id)) = held.id
            /\ held.from \in {"encoded", "mapped"} => t = held.traffic
EncodedIsValid ==
    held.from = "encoded" /\ held.kind \in Kind \ {"id"} =>
        \/ Validate(held.kind, held.traffic, held.id)
        \/ held.kind = "accountV2" /\ held.fields[3] >= Digits2

\* A user id belongs to one side at most, a platform account's to neither; what
\* ShadowUserID gives is a shadow user of its own, or 0.  The fake id of a
\* sanitised event is no main user's; the code puts it among the shadow platform
\* accounts if it is not a shadow user's (sanitize.go shadowUserID).
UsersApart ==
    /\ held.kind \in {"user", "fleet"} =>
           /\ ~(ValidateUserID("main", held.id) /\ ValidateUserID("shadow", held.id))
           /\ IsFleetUserID(held.id) => \A t \in Traffic : ~ValidateUserID(t, held.id)
    /\ held.from = "mapped" /\ held.kind = "user" =>
           IF \E t \in Traffic : ValidateUserID(t, held.fields[1])
           THEN ValidateUserID("shadow", held.id) ELSE held.id = 0
    /\ held.from = "sanitised" =>
           /\ ~ValidateUserID("main", held.id)
           /\ ValidateUserID("shadow", held.id) \/ In("shadowFleet", held.id)

\* All of them: what encoders, decoders and validators say of one another.
IdsKeepMeaning ==
    IdTypeOK /\ DecodesBack /\ RoutesHome /\ OnlyOwnTraffic /\ EncodedIsValid /\ UsersApart
=============================================================================

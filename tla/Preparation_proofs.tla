------------------------- MODULE Preparation_proofs -------------------------
(***************************************************************************)
(* Theorems about Preparation, for every number of servers, images,        *)
(* plugins, modes, layers and settings, with machine-checked proofs.       *)
(***************************************************************************)
EXTENDS Preparation, FiniteSetTheorems, SequenceTheorems, TLAPS

(***************************************************************************)
(* Sequences of writes.  A write is a pair of an item and its new content. *)
(***************************************************************************)
\* Carrying out w leaves what e writes: no later write of its item differs.
Final(w, e) ==
    \E j \in DOMAIN w : /\ w[j] = e
                        /\ \A k \in DOMAIN w : k > j /\ w[k][1] = e[1] => w[k][2] = e[2]

\* Carrying out w leaves what e has written before.
Keeps(w, e) == \A k \in DOMAIN w : w[k][1] = e[1] => w[k][2] = e[2]

\* Carrying out w in tree t leaves what e writes.
Will(w, t, e) == Final(w, e) \/ (t[e[1]] = e[2] /\ Keeps(w, e))

\* A finite set has a sequence of its elements: the copies of rsync and of
\* the preparation, one folder or file after the other.
LEMMA SetToSeqOf ==
    ASSUME NEW S, IsFiniteSet(S)
    PROVE  /\ Cardinality(S) \in Nat
           /\ SetToSeq(S) \in [1 .. Cardinality(S) -> S]
           /\ \A x \in S : \E k \in 1 .. Cardinality(S) : SetToSeq(S)[k] = x
<1>1. Cardinality(S) \in Nat /\ ExistsBijection(1 .. Cardinality(S), S)
  BY FS_CardinalityType
<1>2. \E f \in [1 .. Cardinality(S) -> S] : IsInjective(f)
  BY <1>1 DEF ExistsBijection, Bijection, Injection
<1>3. SetToSeq(S) \in Injection(1 .. Cardinality(S), S)
  BY <1>2 DEF SetToSeq, Injection
<1>4. IsFiniteSet(1 .. Cardinality(S)) /\ Cardinality(1 .. Cardinality(S)) = Cardinality(S)
  BY <1>1, FS_Interval
<1>5. SetToSeq(S) \in Surjection(1 .. Cardinality(S), S)
  BY <1>3, <1>4, FS_Injection
<1> QED BY <1>1, <1>3, <1>5 DEF Injection, Surjection

\* The copy of a set of folders or files from one source v, one after the
\* other (_copy_tree, OverlayPlan.apply): it leaves each of them from v.
LEMMA CopyOf ==
    ASSUME NEW S, IsFiniteSet(S), NEW v
    PROVE  /\ To(SetToSeq(S), v) \in Seq(S \X {v})
           /\ \A x \in S : Final(To(SetToSeq(S), v), <<x, v>>)
<1>1. /\ Cardinality(S) \in Nat
      /\ SetToSeq(S) \in [1 .. Cardinality(S) -> S]
      /\ \A x \in S : \E k \in 1 .. Cardinality(S) : SetToSeq(S)[k] = x
  BY SetToSeqOf
<1>2. To(SetToSeq(S), v) = [k \in 1 .. Cardinality(S) |-> <<SetToSeq(S)[k], v>>]
  BY <1>1 DEF To
<1>3. To(SetToSeq(S), v) \in [1 .. Cardinality(S) -> S \X {v}]
  BY <1>1, <1>2
<1>4. To(SetToSeq(S), v) \in Seq(S \X {v})
  BY <1>1, <1>3, SeqDef
<1>5. ASSUME NEW x \in S PROVE Final(To(SetToSeq(S), v), <<x, v>>)
  <2>1. PICK k \in 1 .. Cardinality(S) : SetToSeq(S)[k] = x
    BY <1>1
  <2>2. k \in DOMAIN To(SetToSeq(S), v) /\ To(SetToSeq(S), v)[k] = <<x, v>>
    BY <1>2, <2>1
  <2>3. \A m \in DOMAIN To(SetToSeq(S), v) : To(SetToSeq(S), v)[m][2] = v
    BY <1>2
  <2> QED BY <2>2, <2>3 DEF Final
<1> QED BY <1>4, <1>5

\* A write that is final in a sequence stays final after any beginning.
LEMMA FinalLater ==
    ASSUME NEW W, NEW s \in Seq(W), NEW t \in Seq(W), NEW e, Final(t, e)
    PROVE  Final(s \o t, e)
<1>1. /\ s \o t \in Seq(W) /\ Len(s \o t) = Len(s) + Len(t)
      /\ \A i \in 1 .. Len(s) + Len(t) :
            (s \o t)[i] = IF i <= Len(s) THEN s[i] ELSE t[i - Len(s)]
  BY ConcatProperties
<1>2. /\ Len(s) \in Nat /\ Len(t) \in Nat
      /\ DOMAIN t = 1 .. Len(t) /\ DOMAIN (s \o t) = 1 .. Len(s) + Len(t)
  BY <1>1, LenProperties
<1>3. PICK j \in 1 .. Len(t) : /\ t[j] = e
                               /\ \A k \in 1 .. Len(t) : k > j /\ t[k][1] = e[1] => t[k][2] = e[2]
  BY <1>2 DEF Final
<1>4. j + Len(s) \in 1 .. Len(s) + Len(t) /\ (s \o t)[j + Len(s)] = e
  BY <1>1, <1>2, <1>3
<1>5. ASSUME NEW k \in 1 .. Len(s) + Len(t), k > j + Len(s), (s \o t)[k][1] = e[1]
      PROVE  (s \o t)[k][2] = e[2]
  BY <1>1, <1>2, <1>3, <1>5
<1> QED BY <1>2, <1>4, <1>5 DEF Final

\* A write that is final in a sequence stays final before an end that keeps it.
LEMMA FinalKept ==
    ASSUME NEW W, NEW s \in Seq(W), NEW t \in Seq(W), NEW e, Final(s, e), Keeps(t, e)
    PROVE  Final(s \o t, e)
<1>1. /\ s \o t \in Seq(W) /\ Len(s \o t) = Len(s) + Len(t)
      /\ \A i \in 1 .. Len(s) + Len(t) :
            (s \o t)[i] = IF i <= Len(s) THEN s[i] ELSE t[i - Len(s)]
  BY ConcatProperties
<1>2. /\ Len(s) \in Nat /\ Len(t) \in Nat
      /\ DOMAIN s = 1 .. Len(s) /\ DOMAIN t = 1 .. Len(t) /\ DOMAIN (s \o t) = 1 .. Len(s) + Len(t)
  BY <1>1, LenProperties
<1>3. PICK j \in 1 .. Len(s) : /\ s[j] = e
                               /\ \A k \in 1 .. Len(s) : k > j /\ s[k][1] = e[1] => s[k][2] = e[2]
  BY <1>2 DEF Final
<1>4. j \in 1 .. Len(s) + Len(t) /\ (s \o t)[j] = e
  BY <1>1, <1>2, <1>3
<1>5. ASSUME NEW k \in 1 .. Len(s) + Len(t), k > j, (s \o t)[k][1] = e[1]
      PROVE  (s \o t)[k][2] = e[2]
  <2>1. CASE k <= Len(s) BY <1>1, <1>2, <1>3, <1>5, <2>1
  <2>2. CASE k > Len(s)
    <3>1. k - Len(s) \in 1 .. Len(t) /\ (s \o t)[k] = t[k - Len(s)]
      BY <1>1, <1>2, <2>2
    <3> QED BY <1>2, <1>5, <3>1 DEF Keeps
  <2> QED BY <1>2, <2>1, <2>2
<1> QED BY <1>2, <1>4, <1>5 DEF Final

\* Two sequences that keep a write keep it one after the other.
LEMMA KeepsBoth ==
    ASSUME NEW W, NEW s \in Seq(W), NEW t \in Seq(W), NEW e, Keeps(s, e), Keeps(t, e)
    PROVE  Keeps(s \o t, e)
<1>1. /\ s \o t \in Seq(W) /\ Len(s \o t) = Len(s) + Len(t)
      /\ \A i \in 1 .. Len(s) + Len(t) :
            (s \o t)[i] = IF i <= Len(s) THEN s[i] ELSE t[i - Len(s)]
  BY ConcatProperties
<1>2. /\ Len(s) \in Nat /\ Len(t) \in Nat
      /\ DOMAIN s = 1 .. Len(s) /\ DOMAIN t = 1 .. Len(t) /\ DOMAIN (s \o t) = 1 .. Len(s) + Len(t)
  BY <1>1, LenProperties
<1>3. ASSUME NEW k \in 1 .. Len(s) + Len(t), (s \o t)[k][1] = e[1]
      PROVE  (s \o t)[k][2] = e[2]
  <2>1. CASE k <= Len(s) BY <1>1, <1>2, <1>3, <2>1 DEF Keeps
  <2>2. CASE k > Len(s)
    <3>1. k - Len(s) \in 1 .. Len(t) /\ (s \o t)[k] = t[k - Len(s)]
      BY <1>1, <1>2, <2>2
    <3> QED BY <1>2, <1>3, <3>1 DEF Keeps
  <2> QED BY <1>2, <2>1, <2>2
<1> QED BY <1>2, <1>3 DEF Keeps

\* A sequence keeps a write when each of its elements does.
LEMMA KeepsAll ==
    ASSUME NEW W, NEW w \in Seq(W), NEW e, \A x \in W : x[1] = e[1] => x[2] = e[2]
    PROVE  Keeps(w, e)
BY LenProperties, ElementOfSeq DEF Keeps

\* The next write is carried out, or skipped because it is of another item:
\* what the writes left will do is unchanged.
LEMMA WillStep ==
    ASSUME NEW W, NEW w \in Seq(W), w # <<>>, NEW t, NEW u, NEW e, Will(w, t, e),
           e[1] = Head(w)[1] => u[e[1]] = Head(w)[2],
           e[1] # Head(w)[1] => u[e[1]] = t[e[1]]
    PROVE  Will(Tail(w), u, e)
<1>1. /\ Tail(w) \in Seq(W) /\ Len(Tail(w)) = Len(w) - 1
      /\ \A i \in 1 .. Len(Tail(w)) : Tail(w)[i] = w[i + 1]
  BY HeadTailProperties
<1>2. /\ Len(w) \in Nat /\ Len(w) > 0
      /\ DOMAIN w = 1 .. Len(w) /\ DOMAIN Tail(w) = 1 .. Len(w) - 1
  BY <1>1, LenProperties, EmptySeq
<1>3. Head(w) = w[1]
  OBVIOUS
<1>4. ASSUME Keeps(w, e) PROVE Keeps(Tail(w), e)
  BY <1>1, <1>2, <1>4 DEF Keeps
<1>5. CASE Final(w, e)
  <2>1. PICK j \in 1 .. Len(w) : /\ w[j] = e
                                 /\ \A k \in 1 .. Len(w) : k > j /\ w[k][1] = e[1] => w[k][2] = e[2]
    BY <1>2, <1>5 DEF Final
  <2>2. CASE j = 1
    <3>1. u[e[1]] = e[2] BY <1>3, <2>1, <2>2
    <3>2. Keeps(Tail(w), e) BY <1>1, <1>2, <2>1, <2>2 DEF Keeps
    <3> QED BY <3>1, <3>2 DEF Will
  <2>3. CASE j # 1
    <3>1. j - 1 \in 1 .. Len(w) - 1 /\ Tail(w)[j - 1] = e
      BY <1>1, <1>2, <2>1, <2>3
    <3>2. \A k \in 1 .. Len(w) - 1 : k > j - 1 /\ Tail(w)[k][1] = e[1] => Tail(w)[k][2] = e[2]
      BY <1>1, <1>2, <2>1
    <3> QED BY <1>2, <3>1, <3>2 DEF Will, Final
  <2> QED BY <2>2, <2>3
<1>6. CASE t[e[1]] = e[2] /\ Keeps(w, e)
  <2>1. 1 \in DOMAIN w BY <1>2
  <2>2. u[e[1]] = e[2] BY <1>3, <1>6, <2>1 DEF Keeps
  <2> QED BY <1>4, <1>6, <2>2 DEF Will
<1> QED BY <1>5, <1>6 DEF Will

-----------------------------------------------------------------------------
(***************************************************************************)
(* write_text on gameinfo.gi is two writes, and the second follows.        *)
(***************************************************************************)
Hook == PatchGameinfo[2]

Paired(w) == \A j \in DOMAIN w : w[j] = PatchGameinfo[1] => j + 1 \in DOMAIN w /\ w[j + 1] = Hook

\* Sequences in which the second follows the first may follow each other.
LEMMA PairedBoth ==
    ASSUME NEW W, NEW s \in Seq(W), NEW t \in Seq(W), Paired(s), Paired(t)
    PROVE  Paired(s \o t)
<1>1. /\ s \o t \in Seq(W) /\ Len(s \o t) = Len(s) + Len(t)
      /\ \A i \in 1 .. Len(s) + Len(t) :
            (s \o t)[i] = IF i <= Len(s) THEN s[i] ELSE t[i - Len(s)]
  BY ConcatProperties
<1>2. /\ Len(s) \in Nat /\ Len(t) \in Nat
      /\ DOMAIN s = 1 .. Len(s) /\ DOMAIN t = 1 .. Len(t) /\ DOMAIN (s \o t) = 1 .. Len(s) + Len(t)
  BY <1>1, LenProperties
<1>3. ASSUME NEW j \in 1 .. Len(s) + Len(t), (s \o t)[j] = PatchGameinfo[1]
      PROVE  j + 1 \in 1 .. Len(s) + Len(t) /\ (s \o t)[j + 1] = Hook
  <2>1. CASE j <= Len(s)
    <3>1. j \in DOMAIN s /\ s[j] = PatchGameinfo[1] BY <1>1, <1>2, <1>3, <2>1
    <3>2. j + 1 \in DOMAIN s /\ s[j + 1] = Hook BY <3>1 DEF Paired
    <3> QED BY <1>1, <1>2, <3>2
  <2>2. CASE j > Len(s)
    <3>1. j - Len(s) \in DOMAIN t /\ t[j - Len(s)] = PatchGameinfo[1] BY <1>1, <1>2, <1>3, <2>2
    <3>2. j - Len(s) + 1 \in DOMAIN t /\ t[j - Len(s) + 1] = Hook BY <3>1 DEF Paired
    <3>3. j + 1 \in 1 .. Len(s) + Len(t) /\ j + 1 > Len(s) /\ j + 1 - Len(s) = j - Len(s) + 1
      BY <1>2, <3>2
    <3> QED BY <1>1, <1>2, <3>2, <3>3
  <2> QED BY <1>2, <2>1, <2>2
<1> QED BY <1>2, <1>3 DEF Paired

\* The seven parts one after the other write gameinfo.gi in pairs when each does.
LEMMA PairedOfSeven ==
    ASSUME NEW W, NEW a \in Seq(W), NEW b \in Seq(W), NEW c \in Seq(W), NEW d \in Seq(W),
           NEW f \in Seq(W), NEW g \in Seq(W), NEW h \in Seq(W),
           Paired(a), Paired(b), Paired(c), Paired(d), Paired(f), Paired(g), Paired(h)
    PROVE  /\ a \o b \o c \o d \o f \o g \o h \in Seq(W)
           /\ Paired(a \o b \o c \o d \o f \o g \o h)
<1>1. \A s \in Seq(W), t \in Seq(W) : s \o t \in Seq(W) /\ (Paired(s) /\ Paired(t) => Paired(s \o t))
  BY ConcatProperties, PairedBoth
<1> QED BY <1>1

\* A sequence that writes nothing to gameinfo.gi has no half of the pair.
LEMMA PairedWithout ==
    ASSUME NEW W, NEW w \in Seq(W), PatchGameinfo[1] \notin W
    PROVE  Paired(w)
BY LenProperties, ElementOfSeq DEF Paired

\* The pair is not parted when the writes are carried out from the first on.
LEMMA PairedTail ==
    ASSUME NEW W, NEW w \in Seq(W), w # <<>>, Paired(w)
    PROVE  Paired(Tail(w))
<1>1. /\ Tail(w) \in Seq(W) /\ Len(Tail(w)) = Len(w) - 1
      /\ \A i \in 1 .. Len(Tail(w)) : Tail(w)[i] = w[i + 1]
  BY HeadTailProperties
<1>2. /\ Len(w) \in Nat /\ Len(w) > 0
      /\ DOMAIN w = 1 .. Len(w) /\ DOMAIN Tail(w) = 1 .. Len(w) - 1
  BY <1>1, LenProperties, EmptySeq
<1>3. ASSUME NEW j \in 1 .. Len(w) - 1, Tail(w)[j] = PatchGameinfo[1]
      PROVE  j + 1 \in 1 .. Len(w) - 1 /\ Tail(w)[j + 1] = Hook
  <2>1. j + 1 \in DOMAIN w /\ w[j + 1] = PatchGameinfo[1] BY <1>1, <1>2, <1>3
  <2>2. j + 1 + 1 \in DOMAIN w /\ w[j + 1 + 1] = Hook BY <2>1 DEF Paired
  <2> QED BY <1>1, <1>2, <2>2
<1> QED BY <1>2, <1>3 DEF Paired

-----------------------------------------------------------------------------
(***************************************************************************)
(* The parts of PluginRuntime.apply and OverlayPlan.apply: what each may   *)
(* write, and what it leaves.                                              *)
(***************************************************************************)
Runtime(s) == s.enabled /\ s.image # 0

BundleWrites(s) ==
    (Bundle[s.image] \X {s.image}) \cup ({"GameModeManager.json", "metamod_x64.vdf"} \X {"bundled"})

\* One file, written once.
LEMMA WriteOne ==
    ASSUME NEW i, NEW v
    PROVE  /\ To(<<i>>, v) \in Seq({<<i, v>>})
           /\ Final(To(<<i>>, v), <<i, v>>)
<1>1. To(<<i>>, v) = <<<<i, v>>>>
  BY DEF To
<1> QED BY <1>1 DEF Final

\* A file other than gameinfo.gi.
LEMMA WriteOnePaired ==
    ASSUME NEW i, NEW v, i # "gameinfo.gi"
    PROVE  Paired(To(<<i>>, v))
<1>1. PatchGameinfo[1] \notin {<<i, v>>}
  BY DEF PatchGameinfo
<1> QED BY <1>1, WriteOne, PairedWithout

\* Two files, each written once.
LEMMA WriteTwo ==
    ASSUME NEW i, NEW j, NEW v
    PROVE  To(<<i, j>>, v) \in Seq({i, j} \X {v})
<1>1. To(<<i, j>>, v) \in [1 .. 2 -> {i, j} \X {v}]
  BY DEF To
<1> QED BY <1>1, SeqDef

\* The sets the preparation copies are finite.
LEMMA SettingsFinite ==
    ASSUME NEW s \in Settings
    PROVE  /\ FilesOf(s.disabled) \subseteq PluginFiles /\ IsFiniteSet(FilesOf(s.disabled))
           /\ s.image # 0 => Bundle[s.image] \subseteq PluginFiles /\ IsFiniteSet(Bundle[s.image])
BY PreparationAssumption, FS_Subset DEF Settings, FilesOf

\* _copy_tree leaves every plugin file of the bundle from the image.
LEMMA CopyBundlePart ==
    ASSUME NEW s \in Settings, s.image # 0
    PROVE  /\ CopyBundle(s) \in Seq(BundleWrites(s))
           /\ \A x \in Bundle[s.image] : Final(CopyBundle(s), <<x, s.image>>)
<1> DEFINE a == To(SetToSeq(Bundle[s.image]), s.image)
           b == To(<<"GameModeManager.json", "metamod_x64.vdf">>, "bundled")
<1>1. /\ a \in Seq(Bundle[s.image] \X {s.image})
      /\ \A x \in Bundle[s.image] : Final(a, <<x, s.image>>)
  BY SettingsFinite, CopyOf
<1>2. a \in Seq(BundleWrites(s))
  BY <1>1, SeqMonotonic, Bundle[s.image] \X {s.image} \subseteq BundleWrites(s) DEF BundleWrites
<1>3. b \in Seq({"GameModeManager.json", "metamod_x64.vdf"} \X {"bundled"})
  BY WriteTwo
<1>4. {"GameModeManager.json", "metamod_x64.vdf"} \X {"bundled"} \subseteq BundleWrites(s)
  BY DEF BundleWrites
<1>5. b \in Seq(BundleWrites(s))
  BY <1>3, <1>4, SeqMonotonic
<1>6. CopyBundle(s) = a \o b
  BY DEF CopyBundle
<1>7. ASSUME NEW x \in Bundle[s.image] PROVE Final(CopyBundle(s), <<x, s.image>>)
  <2>1. x # "GameModeManager.json" /\ x # "metamod_x64.vdf"
    BY PreparationAssumption, SettingsFinite DEF Fixed, Managed
  <2>2. Keeps(b, <<x, s.image>>)
    BY <1>3, <2>1, KeepsAll
  <2> QED BY <1>1, <1>2, <1>5, <1>6, <2>2, FinalKept
<1> QED BY <1>2, <1>5, <1>6, <1>7, ConcatProperties

\* _patch_gameinfo, when it writes, leaves the hook.
LEMMA PatchPart ==
    /\ PatchGameinfo \in Seq({PatchGameinfo[1], Hook})
    /\ Final(PatchGameinfo, Hook)
    /\ Paired(PatchGameinfo)
<1>1. PatchGameinfo = <<<<"gameinfo.gi", "empty">>, <<"gameinfo.gi", "hooked">>>>
  BY DEF PatchGameinfo
<1> QED BY <1>1 DEF Hook, Final, Paired

\* _write_css_admins writes the administrators that are named.
LEMMA WriteAdminsPart ==
    ASSUME NEW s
    PROVE  /\ WriteAdmins(s) \in Seq({<<"admins.json", s.admins>>} \ {<<"admins.json", "none">>})
           /\ s.admins # "none" => Final(WriteAdmins(s), <<"admins.json", s.admins>>)
<1>1. CASE s.admins = "none"
  <2>1. WriteAdmins(s) = <<>> BY <1>1 DEF WriteAdmins
  <2> QED BY <1>1, <2>1, EmptySeq
<1>2. CASE s.admins # "none"
  <2>1. WriteAdmins(s) = To(<<"admins.json">>, s.admins) BY <1>2 DEF WriteAdmins
  <2>2. {<<"admins.json", s.admins>>} \ {<<"admins.json", "none">>} = {<<"admins.json", s.admins>>}
    BY <1>2
  <2> QED BY <2>1, <2>2, WriteOne
<1> QED BY <1>1, <1>2

\* No file of a disabled plugin stays.
LEMMA RemoveDisabledPart ==
    ASSUME NEW s \in Settings
    PROVE  /\ RemoveDisabled(s) \in Seq(FilesOf(s.disabled) \X {0})
           /\ \A x \in FilesOf(s.disabled) : Final(RemoveDisabled(s), <<x, 0>>)
BY SettingsFinite, CopyOf DEF RemoveDisabled

\* A layer is copied.
LEMMA LayerPart ==
    ASSUME NEW l \in DOMAIN Layer
    PROVE  /\ Layer[l] \subseteq Cfgs
           /\ OverlayLayer(l) \in Seq(Layer[l] \X {l})
           /\ \A c \in Layer[l] : Final(OverlayLayer(l), <<c, l>>)
<1>1. Layer[l] \subseteq Cfgs /\ IsFiniteSet(Layer[l])
  BY PreparationAssumption, FS_Subset
<1> QED BY <1>1, CopyOf DEF OverlayLayer

-----------------------------------------------------------------------------
(***************************************************************************)
(* The whole of the writes of one start.                                   *)
(***************************************************************************)
Plan(s) == PluginWrites(s) \o OverlayWrites(s)

\* All that the preparation ever writes.
Writings ==
    (PluginFiles \X (Images \cup {0})) \cup (Cfgs \X DOMAIN Layer) \cup {PatchGameinfo[1], Hook}
    \cup ((Managed \cup {"admins.json"}) \X {"bundled", "managed", "first", "second"})

\* A managed file, written once.
LEMMA WriteOneTyped ==
    ASSUME NEW i \in Managed \cup {"admins.json"}, NEW v \in {"bundled", "managed", "first", "second"}
    PROVE  To(<<i>>, v) \in Seq(Writings)
<1>1. {<<i, v>>} \subseteq Writings
  BY DEF Writings
<1>2. To(<<i>>, v) \in Seq({<<i, v>>})
  BY WriteOne
<1> QED BY <1>1, <1>2, SeqMonotonic

\* Each part of PluginRuntime.apply writes nothing else.
LEMMA PartsTyped ==
    ASSUME NEW s \in Settings, s.image # 0
    PROVE  /\ CopyBundle(s) \in Seq(Writings) /\ NormalizeVdf \in Seq(Writings)
           /\ PatchGameinfo \in Seq(Writings) /\ WriteAdmins(s) \in Seq(Writings)
           /\ WriteGamemodesServer \in Seq(Writings) /\ WriteGamemodeManager \in Seq(Writings)
           /\ RemoveDisabled(s) \in Seq(Writings)
<1>1. CopyBundle(s) \in Seq(Writings)
  <2>1. s.image \in Images /\ Bundle[s.image] \subseteq PluginFiles
    BY SettingsFinite DEF Settings
  <2>2. BundleWrites(s) \subseteq Writings
    BY <2>1 DEF BundleWrites, Writings, Managed
  <2> QED BY <2>2, CopyBundlePart, SeqMonotonic
<1>2. NormalizeVdf \in Seq(Writings)
  BY WriteOneTyped DEF NormalizeVdf, Managed
<1>3. PatchGameinfo \in Seq(Writings)
  BY PatchPart, SeqMonotonic, {PatchGameinfo[1], Hook} \subseteq Writings DEF Writings
<1>4. WriteAdmins(s) \in Seq(Writings)
  BY WriteOneTyped, EmptySeq DEF WriteAdmins, Settings
<1>5. WriteGamemodesServer \in Seq(Writings)
  BY WriteOneTyped DEF WriteGamemodesServer, Managed
<1>6. WriteGamemodeManager \in Seq(Writings)
  BY WriteOneTyped DEF WriteGamemodeManager, Managed
<1>7. RemoveDisabled(s) \in Seq(Writings)
  <2>1. FilesOf(s.disabled) \X {0} \subseteq Writings BY SettingsFinite DEF Writings
  <2> QED BY <2>1, RemoveDisabledPart, SeqMonotonic
<1> QED BY <1>1, <1>2, <1>3, <1>4, <1>5, <1>6, <1>7

\* Each part but the patch leaves gameinfo.gi alone.
LEMMA PartsPaired ==
    ASSUME NEW s \in Settings, s.image # 0
    PROVE  /\ Paired(CopyBundle(s)) /\ Paired(NormalizeVdf) /\ Paired(PatchGameinfo)
           /\ Paired(WriteAdmins(s)) /\ Paired(WriteGamemodesServer) /\ Paired(WriteGamemodeManager)
           /\ Paired(RemoveDisabled(s))
<1>1. PatchGameinfo[1] = <<"gameinfo.gi", "empty">>
  BY DEF PatchGameinfo
<1>2. "gameinfo.gi" \notin PluginFiles
  BY PreparationAssumption DEF Fixed
<1>3. PatchGameinfo[1] \notin BundleWrites(s)
  BY <1>1, <1>2, SettingsFinite DEF BundleWrites
<1>4. PatchGameinfo[1] \notin FilesOf(s.disabled) \X {0}
  BY <1>1, <1>2, SettingsFinite
<1>5. Paired(CopyBundle(s))
  BY <1>3, CopyBundlePart, PairedWithout
<1>6. Paired(RemoveDisabled(s))
  BY <1>4, RemoveDisabledPart, PairedWithout
<1>7. Paired(WriteAdmins(s))
  <2>1. CASE s.admins = "none" BY <2>1, EmptySeq DEF WriteAdmins, Paired
  <2>2. CASE s.admins # "none" BY <2>2, WriteOnePaired DEF WriteAdmins
  <2> QED BY <2>1, <2>2
<1>8. Paired(NormalizeVdf)
  BY WriteOnePaired DEF NormalizeVdf
<1>9. Paired(WriteGamemodesServer)
  BY WriteOnePaired DEF WriteGamemodesServer
<1>10. Paired(WriteGamemodeManager)
  BY WriteOnePaired DEF WriteGamemodeManager
<1> QED BY <1>5, <1>6, <1>7, <1>8, <1>9, <1>10, PatchPart

\* PluginRuntime.apply and OverlayPlan.apply write nothing but plugins, cfg
\* files and managed files, and write gameinfo.gi in pairs.
LEMMA PlanTyped ==
    ASSUME NEW s \in Settings
    PROVE  /\ PluginWrites(s) \in Seq(Writings) /\ Paired(PluginWrites(s))
           /\ OverlayWrites(s) \in Seq(Writings) /\ Paired(OverlayWrites(s))
           /\ Plan(s) \in Seq(Writings) /\ Paired(Plan(s))
<1>1. \A u \in Seq(Writings), v \in Seq(Writings) :
        u \o v \in Seq(Writings) /\ (Paired(u) /\ Paired(v) => Paired(u \o v))
  BY ConcatProperties, PairedBoth
<1>2. PluginWrites(s) \in Seq(Writings) /\ Paired(PluginWrites(s))
  <2>1. CASE Runtime(s)
    <3>1. PluginWrites(s) = CopyBundle(s) \o NormalizeVdf \o PatchGameinfo \o WriteAdmins(s)
                            \o WriteGamemodesServer \o WriteGamemodeManager \o RemoveDisabled(s)
      BY <2>1 DEF Runtime, PluginWrites
    <3>2. s.image # 0 BY <2>1 DEF Runtime
    <3>3. /\ CopyBundle(s) \in Seq(Writings) /\ NormalizeVdf \in Seq(Writings)
          /\ PatchGameinfo \in Seq(Writings) /\ WriteAdmins(s) \in Seq(Writings)
          /\ WriteGamemodesServer \in Seq(Writings) /\ WriteGamemodeManager \in Seq(Writings)
          /\ RemoveDisabled(s) \in Seq(Writings)
      BY <3>2, PartsTyped
    <3>4. /\ Paired(CopyBundle(s)) /\ Paired(NormalizeVdf) /\ Paired(PatchGameinfo)
          /\ Paired(WriteAdmins(s)) /\ Paired(WriteGamemodesServer) /\ Paired(WriteGamemodeManager)
          /\ Paired(RemoveDisabled(s))
      BY <3>2, PartsPaired
    <3>5. /\ CopyBundle(s) \o NormalizeVdf \o PatchGameinfo \o WriteAdmins(s) \o WriteGamemodesServer
                \o WriteGamemodeManager \o RemoveDisabled(s) \in Seq(Writings)
          /\ Paired(CopyBundle(s) \o NormalizeVdf \o PatchGameinfo \o WriteAdmins(s)
                    \o WriteGamemodesServer \o WriteGamemodeManager \o RemoveDisabled(s))
      BY <3>3, <3>4, PairedOfSeven, Zenon
    <3> QED BY <3>1, <3>5
  <2>2. CASE ~Runtime(s)
    <3>1. PluginWrites(s) = <<>> BY <2>2 DEF Runtime, PluginWrites
    <3> QED BY <3>1, EmptySeq DEF Paired
  <2> QED BY <2>1, <2>2
<1>3. ASSUME NEW l \in DOMAIN Layer PROVE OverlayLayer(l) \in Seq(Writings) /\ Paired(OverlayLayer(l))
  <2>1. Layer[l] \X {l} \subseteq Writings BY LayerPart DEF Writings
  <2>2. PatchGameinfo[1] \notin Layer[l] \X {l}
    BY LayerPart, PreparationAssumption DEF Fixed, PatchGameinfo
  <2> QED BY <2>1, <2>2, LayerPart, SeqMonotonic, PairedWithout
<1>4. {"base", s.mode, "server"} \subseteq DOMAIN Layer
  BY PreparationAssumption DEF Settings
<1>5. OverlayWrites(s) \in Seq(Writings) /\ Paired(OverlayWrites(s))
  BY <1>1, <1>3, <1>4 DEF OverlayWrites
<1> QED BY <1>1, <1>2, <1>5 DEF Plan

\* One file, or the copy of a set, keeps the others.
LEMMA WriteKeeps ==
    ASSUME NEW e, NEW v
    PROVE  /\ \A i : e[1] # i => Keeps(To(<<i>>, v), e)
           /\ \A S : IsFiniteSet(S) /\ e[1] \notin S => Keeps(To(SetToSeq(S), v), e)
<1>1. \A i : e[1] # i => Keeps(To(<<i>>, v), e)
  BY DEF To, Keeps
<1>2. ASSUME NEW S, IsFiniteSet(S), e[1] \notin S PROVE Keeps(To(SetToSeq(S), v), e)
  <2>1. To(SetToSeq(S), v) \in Seq(S \X {v}) BY <1>2, CopyOf
  <2>2. \A x \in S \X {v} : x[1] = e[1] => x[2] = e[2] BY <1>2
  <2> QED BY <2>1, <2>2, KeepsAll
<1> QED BY <1>1, <1>2

\* What a part does not write it keeps.
LEMMA PartsKeep ==
    ASSUME NEW s \in Settings, s.image # 0, NEW e
    PROVE  /\ e[1] # "metamod_x64.vdf" => Keeps(NormalizeVdf, e)
           /\ e[1] # "gameinfo.gi" => Keeps(PatchGameinfo, e)
           /\ e[1] # "admins.json" => Keeps(WriteAdmins(s), e)
           /\ e[1] # "gamemodes_server.txt" => Keeps(WriteGamemodesServer, e)
           /\ e[1] # "GameModeManager.json" => Keeps(WriteGamemodeManager, e)
           /\ e[1] \notin FilesOf(s.disabled) => Keeps(RemoveDisabled(s), e)
<1>1. e[1] # "metamod_x64.vdf" => Keeps(NormalizeVdf, e)
  BY WriteKeeps DEF NormalizeVdf
<1>2. e[1] # "gameinfo.gi" => Keeps(PatchGameinfo, e)
  BY DEF PatchGameinfo, Keeps
<1>3. e[1] # "admins.json" => Keeps(WriteAdmins(s), e)
  <2>1. CASE s.admins = "none" BY <2>1 DEF WriteAdmins, Keeps
  <2>2. CASE s.admins # "none" BY <2>2, WriteKeeps DEF WriteAdmins
  <2> QED BY <2>1, <2>2
<1>4. e[1] # "gamemodes_server.txt" => Keeps(WriteGamemodesServer, e)
  BY WriteKeeps DEF WriteGamemodesServer
<1>5. e[1] # "GameModeManager.json" => Keeps(WriteGamemodeManager, e)
  BY WriteKeeps DEF WriteGamemodeManager
<1>6. e[1] \notin FilesOf(s.disabled) => Keeps(RemoveDisabled(s), e)
  BY SettingsFinite, WriteKeeps DEF RemoveDisabled
<1> QED BY <1>1, <1>2, <1>3, <1>4, <1>5, <1>6

\* The overlay writes into the cfg directory only.
LEMMA OverlayKeeps ==
    ASSUME NEW s \in Settings, NEW e, e[1] \notin Cfgs
    PROVE  Keeps(OverlayWrites(s), e)
<1>1. ASSUME NEW l \in DOMAIN Layer
      PROVE  OverlayLayer(l) \in Seq(Cfgs \X DOMAIN Layer) /\ Keeps(OverlayLayer(l), e)
  <2>1. Layer[l] \X {l} \subseteq Cfgs \X DOMAIN Layer BY LayerPart
  <2>2. OverlayLayer(l) \in Seq(Layer[l] \X {l}) BY LayerPart
  <2>3. OverlayLayer(l) \in Seq(Cfgs \X DOMAIN Layer) BY <2>1, <2>2, SeqMonotonic
  <2>4. IsFiniteSet(Layer[l]) /\ e[1] \notin Layer[l] BY LayerPart, PreparationAssumption, FS_Subset
  <2> QED BY <2>3, <2>4, WriteKeeps DEF OverlayLayer
<1>2. {"base", s.mode, "server"} \subseteq DOMAIN Layer
  BY PreparationAssumption DEF Settings
<1>3. /\ OverlayLayer("base") \in Seq(Cfgs \X DOMAIN Layer) /\ Keeps(OverlayLayer("base"), e)
      /\ OverlayLayer(s.mode) \in Seq(Cfgs \X DOMAIN Layer) /\ Keeps(OverlayLayer(s.mode), e)
      /\ OverlayLayer("server") \in Seq(Cfgs \X DOMAIN Layer) /\ Keeps(OverlayLayer("server"), e)
  BY <1>1, <1>2
<1>4. /\ OverlayLayer("base") \o OverlayLayer(s.mode) \in Seq(Cfgs \X DOMAIN Layer)
      /\ Keeps(OverlayLayer("base") \o OverlayLayer(s.mode), e)
  BY <1>3, KeepsBoth, ConcatProperties
<1> QED BY <1>3, <1>4, KeepsBoth DEF OverlayWrites

\* What is final in one part and kept by those after it is final in the plan.
LEMMA FinalOfParts ==
    ASSUME NEW s \in Settings, Runtime(s), NEW e, e[1] \notin Cfgs,
           \/ Final(RemoveDisabled(s), e)
           \/ /\ Keeps(RemoveDisabled(s), e)
              /\ \/ Final(WriteGamemodeManager, e)
                 \/ /\ Keeps(WriteGamemodeManager, e)
                    /\ \/ Final(WriteGamemodesServer, e)
                       \/ /\ Keeps(WriteGamemodesServer, e)
                          /\ \/ Final(WriteAdmins(s), e)
                             \/ /\ Keeps(WriteAdmins(s), e)
                                /\ \/ Final(PatchGameinfo, e)
                                   \/ /\ Keeps(PatchGameinfo, e)
                                      /\ \/ Final(NormalizeVdf, e)
                                         \/ Keeps(NormalizeVdf, e) /\ Final(CopyBundle(s), e)
    PROVE  Final(Plan(s), e)
<1>1. \A u \in Seq(Writings), v \in Seq(Writings) :
        u \o v \in Seq(Writings) /\ (Final(v, e) \/ (Keeps(v, e) /\ Final(u, e)) => Final(u \o v, e))
  BY ConcatProperties, FinalLater, FinalKept
<1> DEFINE b == CopyBundle(s) \o NormalizeVdf
           c == b \o PatchGameinfo
           d == c \o WriteAdmins(s)
           f == d \o WriteGamemodesServer
           g == f \o WriteGamemodeManager
<1>2. PluginWrites(s) = g \o RemoveDisabled(s) /\ s.image # 0
  BY DEF Runtime, PluginWrites
<1>3. /\ CopyBundle(s) \in Seq(Writings) /\ NormalizeVdf \in Seq(Writings)
      /\ PatchGameinfo \in Seq(Writings) /\ WriteAdmins(s) \in Seq(Writings)
      /\ WriteGamemodesServer \in Seq(Writings) /\ WriteGamemodeManager \in Seq(Writings)
      /\ RemoveDisabled(s) \in Seq(Writings)
  BY <1>2, PartsTyped
<1>4. b \in Seq(Writings) /\ (Final(NormalizeVdf, e) \/ (Keeps(NormalizeVdf, e) /\ Final(CopyBundle(s), e))
                                => Final(b, e))
  BY <1>1, <1>3
<1>5. c \in Seq(Writings) /\ (Final(PatchGameinfo, e) \/ (Keeps(PatchGameinfo, e) /\ Final(b, e)) => Final(c, e))
  BY <1>1, <1>3, <1>4
<1>6. d \in Seq(Writings) /\ (Final(WriteAdmins(s), e) \/ (Keeps(WriteAdmins(s), e) /\ Final(c, e))
                                => Final(d, e))
  BY <1>1, <1>3, <1>5
<1>7. f \in Seq(Writings) /\ (Final(WriteGamemodesServer, e) \/ (Keeps(WriteGamemodesServer, e) /\ Final(d, e))
                                => Final(f, e))
  BY <1>1, <1>3, <1>6
<1>8. g \in Seq(Writings) /\ (Final(WriteGamemodeManager, e) \/ (Keeps(WriteGamemodeManager, e) /\ Final(f, e))
                                => Final(g, e))
  BY <1>1, <1>3, <1>7
<1>9. Final(RemoveDisabled(s), e) \/ (Keeps(RemoveDisabled(s), e) /\ Final(g, e)) => Final(PluginWrites(s), e)
  BY <1>1, <1>2, <1>3, <1>8
<1>10. Final(PluginWrites(s), e)
  BY <1>4, <1>5, <1>6, <1>7, <1>8, <1>9
<1> QED BY <1>1, <1>10, PlanTyped, OverlayKeeps DEF Plan

\* What the plan leaves in the plugin folders, the managed files and
\* gameinfo.gi, when the runtime is enabled.
LEMMA PluginsFinal ==
    ASSUME NEW s \in Settings, Runtime(s)
    PROVE  /\ \A x \in Bundle[s.image] \ FilesOf(s.disabled) : Final(Plan(s), <<x, s.image>>)
           /\ \A x \in FilesOf(s.disabled) : Final(Plan(s), <<x, 0>>)
           /\ \A i \in Managed : Final(Plan(s), <<i, "managed">>)
           /\ s.admins # "none" => Final(Plan(s), <<"admins.json", s.admins>>)
           /\ Final(Plan(s), Hook)
<1>1. s.image # 0 /\ FilesOf(s.disabled) \subseteq PluginFiles /\ Bundle[s.image] \subseteq PluginFiles
  BY SettingsFinite DEF Runtime
<1>2. /\ PluginFiles \cap Cfgs = {} /\ PluginFiles \cap Managed = {} /\ Cfgs \cap Managed = {}
      /\ "admins.json" \notin PluginFiles \cup Cfgs \cup Managed
      /\ "gameinfo.gi" \notin PluginFiles \cup Cfgs \cup Managed
  BY PreparationAssumption DEF Fixed, Managed
<1>3. ASSUME NEW x \in Bundle[s.image] \ FilesOf(s.disabled) PROVE Final(Plan(s), <<x, s.image>>)
  <2> DEFINE e == <<x, s.image>>
  <2>1. e[1] = x /\ x \in PluginFiles /\ x \notin FilesOf(s.disabled) BY <1>1
  <2>2. /\ Keeps(NormalizeVdf, e) /\ Keeps(PatchGameinfo, e) /\ Keeps(WriteAdmins(s), e)
        /\ Keeps(WriteGamemodesServer, e) /\ Keeps(WriteGamemodeManager, e) /\ Keeps(RemoveDisabled(s), e)
    BY <1>1, <1>2, <2>1, PartsKeep DEF Managed
  <2>3. Final(CopyBundle(s), e) BY <1>1, CopyBundlePart
  <2> QED BY <1>1, <1>2, <2>1, <2>2, <2>3, FinalOfParts
<1>4. ASSUME NEW x \in FilesOf(s.disabled) PROVE Final(Plan(s), <<x, 0>>)
  <2>1. Final(RemoveDisabled(s), <<x, 0>>) BY RemoveDisabledPart
  <2>2. <<x, 0>>[1] \notin Cfgs BY <1>1, <1>2
  <2> QED BY <2>1, <2>2, FinalOfParts
<1>5. ASSUME NEW i \in Managed PROVE Final(Plan(s), <<i, "managed">>)
  <2> DEFINE e == <<i, "managed">>
  <2>1. e[1] = i /\ i \notin PluginFiles /\ i \notin FilesOf(s.disabled) BY <1>1, <1>2
  <2>2. Keeps(RemoveDisabled(s), e) BY <1>1, <2>1, PartsKeep
  <2>3. CASE i = "GameModeManager.json"
    <3>1. Final(WriteGamemodeManager, e) BY <2>3, WriteOne DEF WriteGamemodeManager
    <3> QED BY <1>2, <2>1, <2>2, <3>1, FinalOfParts
  <2>4. CASE i = "gamemodes_server.txt"
    <3>1. Final(WriteGamemodesServer, e) BY <2>4, WriteOne DEF WriteGamemodesServer
    <3>2. Keeps(WriteGamemodeManager, e) BY <1>1, <2>1, <2>4, PartsKeep
    <3> QED BY <1>2, <2>1, <2>2, <3>1, <3>2, FinalOfParts
  <2>5. CASE i = "metamod_x64.vdf"
    <3>1. Final(NormalizeVdf, e) BY <2>5, WriteOne DEF NormalizeVdf
    <3>2. /\ Keeps(PatchGameinfo, e) /\ Keeps(WriteAdmins(s), e) /\ Keeps(WriteGamemodesServer, e)
          /\ Keeps(WriteGamemodeManager, e)
      BY <1>1, <2>1, <2>5, PartsKeep
    <3> QED BY <1>2, <2>1, <2>2, <3>1, <3>2, FinalOfParts
  <2> QED BY <2>3, <2>4, <2>5 DEF Managed
<1>6. ASSUME s.admins # "none" PROVE Final(Plan(s), <<"admins.json", s.admins>>)
  <2> DEFINE e == <<"admins.json", s.admins>>
  <2>1. e[1] = "admins.json" /\ "admins.json" \notin FilesOf(s.disabled) BY <1>1, <1>2
  <2>2. Keeps(WriteGamemodesServer, e) /\ Keeps(WriteGamemodeManager, e) /\ Keeps(RemoveDisabled(s), e)
    BY <1>1, <2>1, PartsKeep
  <2>3. Final(WriteAdmins(s), e) BY <1>6, WriteAdminsPart
  <2> QED BY <1>1, <1>2, <2>1, <2>2, <2>3, FinalOfParts
<1>7. Final(Plan(s), Hook)
  <2>1. Hook[1] = "gameinfo.gi" /\ "gameinfo.gi" \notin FilesOf(s.disabled) BY <1>1, <1>2 DEF Hook, PatchGameinfo
  <2>2. /\ Keeps(WriteAdmins(s), Hook) /\ Keeps(WriteGamemodesServer, Hook)
        /\ Keeps(WriteGamemodeManager, Hook) /\ Keeps(RemoveDisabled(s), Hook)
    BY <1>1, <2>1, PartsKeep
  <2> QED BY <1>2, <2>1, <2>2, PatchPart, FinalOfParts
<1> QED BY <1>3, <1>4, <1>5, <1>6, <1>7

\* What the plan leaves in the cfg directory: of each file, the copy of the
\* last layer that has it.
LEMMA OverlayFinal ==
    ASSUME NEW s \in Settings
    PROVE  /\ \A c \in Layer["server"] : Final(Plan(s), <<c, "server">>)
           /\ \A c \in Layer[s.mode] \ Layer["server"] : Final(Plan(s), <<c, s.mode>>)
           /\ \A c \in Layer["base"] \ (Layer[s.mode] \cup Layer["server"]) : Final(Plan(s), <<c, "base">>)
<1>1. {"base", s.mode, "server"} \subseteq DOMAIN Layer
  BY PreparationAssumption DEF Settings
<1>2. ASSUME NEW l \in DOMAIN Layer
      PROVE  /\ OverlayLayer(l) \in Seq(Writings)
             /\ \A c \in Layer[l] : Final(OverlayLayer(l), <<c, l>>)
             /\ \A e : e[1] \notin Layer[l] => Keeps(OverlayLayer(l), e)
  <2>1. Layer[l] \X {l} \subseteq Writings BY LayerPart DEF Writings
  <2>2. OverlayLayer(l) \in Seq(Layer[l] \X {l}) BY LayerPart
  <2>3. OverlayLayer(l) \in Seq(Writings) BY <2>1, <2>2, SeqMonotonic
  <2>4. IsFiniteSet(Layer[l]) BY LayerPart, PreparationAssumption, FS_Subset
  <2> QED BY <2>3, <2>4, LayerPart, WriteKeeps DEF OverlayLayer
<1> DEFINE a == OverlayLayer("base")
           b == OverlayLayer(s.mode)
           c == OverlayLayer("server")
<1>3. a \in Seq(Writings) /\ b \in Seq(Writings) /\ c \in Seq(Writings)
  BY <1>1, <1>2
<1>4. a \o b \in Seq(Writings)
  BY <1>3, ConcatProperties
<1>5. ASSUME NEW e, Final((a \o b) \o c, e) PROVE Final(Plan(s), e)
  <2>1. Final(OverlayWrites(s), e) BY <1>5 DEF OverlayWrites
  <2> QED BY <2>1, PlanTyped, FinalLater DEF Plan
<1>6. ASSUME NEW x \in Layer["server"] PROVE Final(Plan(s), <<x, "server">>)
  <2>1. Final(c, <<x, "server">>) BY <1>1, <1>2
  <2> QED BY <1>3, <1>4, <1>5, <2>1, FinalLater
<1>7. ASSUME NEW x \in Layer[s.mode] \ Layer["server"] PROVE Final(Plan(s), <<x, s.mode>>)
  <2>1. Final(b, <<x, s.mode>>) /\ Keeps(c, <<x, s.mode>>) BY <1>1, <1>2
  <2>2. Final(a \o b, <<x, s.mode>>) BY <1>3, <2>1, FinalLater
  <2> QED BY <1>3, <1>4, <1>5, <2>1, <2>2, FinalKept
<1>8. ASSUME NEW x \in Layer["base"] \ (Layer[s.mode] \cup Layer["server"])
      PROVE  Final(Plan(s), <<x, "base">>)
  <2>1. Final(a, <<x, "base">>) /\ Keeps(b, <<x, "base">>) /\ Keeps(c, <<x, "base">>) BY <1>1, <1>2
  <2>2. Final(a \o b, <<x, "base">>) BY <1>3, <2>1, FinalKept
  <2> QED BY <1>3, <1>4, <1>5, <2>1, <2>2, FinalKept
<1> QED BY <1>6, <1>7, <1>8

-----------------------------------------------------------------------------
(***************************************************************************)
(* Type correctness.  The writes left are writes the preparation makes,    *)
(* and the second half of the patch of gameinfo.gi is never left alone.    *)
(***************************************************************************)
WritesTyped == \A p \in Pods : writes[p] \in Seq(Writings) /\ Paired(writes[p])

TypeInv ==
    /\ TypeOK
    /\ DOMAIN writes = Pods
    /\ WritesTyped

\* rsync walks all items, and no others.
LEMMA ItemsOfWalk ==
    /\ Walk \in Seq(Fixed \cup PluginFiles \cup Cfgs)
    /\ Items = Fixed \cup PluginFiles \cup Cfgs
<1> DEFINE S == Fixed \cup PluginFiles \cup Cfgs
           a == <<"bin", "admins.json", "GameModeManager.json">>
           b == SetToSeq(PluginFiles)
           c == <<"metamod_x64.vdf", "csgo_bin">>
           d == SetToSeq(Cfgs)
           f == <<"gameinfo.gi", "gamemodes_server.txt", "ready">>
<1>1. ASSUME NEW u \in Seq(S), NEW v \in Seq(S)
      PROVE  u \o v \in Seq(S) /\ ToSet(u \o v) = ToSet(u) \cup ToSet(v)
  <2>1. ASSUME NEW w \in Seq(S) PROVE Range(w) = ToSet(w) BY DEF Range, ToSet
  <2>2. u \o v \in Seq(S) BY ConcatProperties
  <2>3. Range(u \o v) = Range(u) \cup Range(v) BY RangeConcatenation
  <2> QED BY <2>1, <2>2, <2>3
<1>2. a \in Seq(S) /\ ToSet(a) = {"bin", "admins.json", "GameModeManager.json"}
  BY DEF Fixed, Managed, ToSet
<1>3. c \in Seq(S) /\ ToSet(c) = {"metamod_x64.vdf", "csgo_bin"}
  BY DEF Fixed, Managed, ToSet
<1>4. f \in Seq(S) /\ ToSet(f) = {"gameinfo.gi", "gamemodes_server.txt", "ready"}
  BY DEF Fixed, Managed, ToSet
<1>5. ASSUME NEW X, IsFiniteSet(X), X \subseteq S PROVE SetToSeq(X) \in Seq(S) /\ ToSet(SetToSeq(X)) = X
  <2>1. /\ Cardinality(X) \in Nat
        /\ SetToSeq(X) \in [1 .. Cardinality(X) -> X]
        /\ \A x \in X : \E k \in 1 .. Cardinality(X) : SetToSeq(X)[k] = x
    BY <1>5, SetToSeqOf
  <2>2. SetToSeq(X) \in [1 .. Cardinality(X) -> S] BY <1>5, <2>1
  <2>3. ToSet(SetToSeq(X)) = X BY <2>1 DEF ToSet
  <2> QED BY <2>1, <2>2, <2>3, SeqDef
<1>6. b \in Seq(S) /\ ToSet(b) = PluginFiles /\ d \in Seq(S) /\ ToSet(d) = Cfgs
  BY <1>5, PreparationAssumption
<1>7. a \o b \in Seq(S) /\ ToSet(a \o b) = ToSet(a) \cup ToSet(b)
  BY <1>1, <1>2, <1>6
<1>8. (a \o b) \o c \in Seq(S) /\ ToSet((a \o b) \o c) = ToSet(a) \cup ToSet(b) \cup ToSet(c)
  BY <1>1, <1>3, <1>7
<1>9. ((a \o b) \o c) \o d \in Seq(S)
      /\ ToSet(((a \o b) \o c) \o d) = ToSet(a) \cup ToSet(b) \cup ToSet(c) \cup ToSet(d)
  BY <1>1, <1>6, <1>8
<1>10. (((a \o b) \o c) \o d) \o f \in Seq(S)
       /\ ToSet((((a \o b) \o c) \o d) \o f) = ToSet(a) \cup ToSet(b) \cup ToSet(c) \cup ToSet(d) \cup ToSet(f)
  BY <1>1, <1>4, <1>9
<1>11. Walk = (((a \o b) \o c) \o d) \o f
  BY DEF Walk
<1> QED BY <1>2, <1>3, <1>4, <1>6, <1>10, <1>11 DEF Items, Fixed, Managed

\* A tree of builds up to n.
TreeTyped(t, n) ==
    /\ DOMAIN t = Items
    /\ t["ready"] \in BOOLEAN
    /\ t["gameinfo.gi"] \in {"plain", "hooked", "empty"}
    /\ t["bin"] \in 0 .. n /\ t["csgo_bin"] \in 0 .. n
    /\ \A x \in PluginFiles : t[x] \in Images \cup {0}
    /\ \A c \in Cfgs : t[c] \in DOMAIN Layer \cup {"none"}

TreesTyped == DOMAIN tree = Roots /\ \A r \in Roots : TreeTyped(tree[r], latest)

PodsTyped ==
    /\ pc \in [Pods -> Places]
    /\ env \in [Pods -> Settings]
    /\ sdk \in [Pods -> SUBSET Platforms]
    /\ home \in [Pods -> SUBSET Platforms]
    /\ DOMAIN writes = Pods
    /\ \A p \in Pods : writes[p] # <<>> => pc[p] = "write"

\* The parts of the type invariant.
LEMMA TypeParts == TypeInv <=> latest \in 1 .. MaxBuild /\ TreesTyped /\ PodsTyped /\ WritesTyped
BY DEF TypeInv, TypeOK, TreesTyped, TreeTyped, PodsTyped

\* The same of the next state.
LEMMA TypePartsNext ==
    TypeInv' <=> (latest \in 1 .. MaxBuild)' /\ TreesTyped' /\ PodsTyped' /\ WritesTyped'
BY DEF TypeInv, TypeOK, TreesTyped, TreeTyped, PodsTyped

\* Which items are which.
LEMMA ItemKinds ==
    /\ Fixed \subseteq Items /\ PluginFiles \subseteq Items /\ Cfgs \subseteq Items
    /\ PluginFiles \cap Cfgs = {} /\ PluginFiles \cap Fixed = {} /\ Cfgs \cap Fixed = {}
    /\ {"bin", "csgo_bin", "gameinfo.gi", "ready", "admins.json"} \subseteq Items
    /\ PluginFiles \cap {"bin", "csgo_bin", "gameinfo.gi", "ready", "admins.json"} = {}
    /\ Cfgs \cap {"bin", "csgo_bin", "gameinfo.gi", "ready", "admins.json"} = {}
BY ItemsOfWalk, PreparationAssumption DEF Fixed

\* An empty volume is a well typed tree.
LEMMA BlankTyped == TreeTyped(Blank, 1)
<1>1. /\ Blank["ready"] = FALSE /\ Blank["gameinfo.gi"] = "plain"
      /\ Blank["bin"] = 0 /\ Blank["csgo_bin"] = 0
      /\ DOMAIN Blank = Items
  BY ItemKinds DEF Blank
<1>2. \A x \in PluginFiles : Blank[x] = 0
  BY ItemKinds DEF Blank
<1>3. \A c \in Cfgs : Blank[c] = "none"
  BY ItemKinds DEF Blank
<1>4. 0 \in 0 .. 1
  OBVIOUS
<1> QED BY <1>1, <1>2, <1>3, <1>4 DEF TreeTyped

\* The initial states are well typed.
LEMMA TypeInit == Init => TypeInv
<1> SUFFICES ASSUME Init PROVE TypeInv
  OBVIOUS
<1>1. latest \in 1 .. MaxBuild
  BY PreparationAssumption DEF Init
<1>2. TreesTyped
  BY BlankTyped DEF Init, TreesTyped
<1>3. PodsTyped
  BY DEF Init, PodsTyped, Places, Platforms
<1>4. WritesTyped
  BY EmptySeq DEF Init, WritesTyped, Paired
<1> QED BY <1>1, <1>2, <1>3, <1>4, TypeParts

\* Leaving for a place, or the end of the process, keeps the pods well typed.
LEMMA PodsGo ==
    ASSUME PodsTyped, WritesTyped, NEW p \in Pods, NEW place \in Places, UNCHANGED env,
           \/ Goto(p, place) /\ (pc[p] = "write" => writes[p] = <<>> \/ place = "write")
           \/ End(p)
    PROVE  PodsTyped' /\ WritesTyped'
<1>1. CASE Goto(p, place) /\ (pc[p] = "write" => writes[p] = <<>> \/ place = "write")
  <2>1. pc' = [pc EXCEPT ![p] = place] /\ sdk' = sdk /\ home' = home /\ writes' = writes
    BY <1>1 DEF Goto
  <2>2. pc' \in [Pods -> Places] BY <2>1 DEF PodsTyped
  <2>3. \A q \in Pods : writes'[q] # <<>> => pc'[q] = "write" BY <1>1, <2>1 DEF PodsTyped
  <2> QED BY <2>1, <2>2, <2>3 DEF PodsTyped, WritesTyped
<1>2. CASE End(p)
  BY <1>2, EmptySeq DEF End, PodsTyped, WritesTyped, Places, Paired
<1> QED BY <1>1, <1>2

\* A copy, cut or not, mixes two well typed trees.
LEMMA CopyTyped ==
    ASSUME TreesTyped, NEW p \in Pods, NEW src \in Roots, NEW dst \in Roots, NEW place,
           CopyTree(p, src, dst, place), UNCHANGED latest
    PROVE  /\ TreesTyped'
           /\ Goto(p, place) \/ End(p)
           /\ \A r \in Roots : r # dst => tree'[r] = tree[r]
           /\ \A i \in Items : tree'[dst][i] \in {tree[src][i], tree[dst][i]}
<1>1. PICK n \in 0 .. Len(Walk) :
        /\ tree' = [tree EXCEPT ![dst] =
                [i \in Items |-> IF i \in ToSet(SubSeq(Walk, 1, n)) THEN tree[src][i] ELSE @[i]]]
        /\ IF n = Len(Walk) THEN Goto(p, place) ELSE End(p)
  BY DEF CopyTree
<1>2. /\ DOMAIN tree' = Roots /\ \A r \in Roots : r # dst => tree'[r] = tree[r]
      /\ DOMAIN tree'[dst] = Items
      /\ \A i \in Items : tree'[dst][i] \in {tree[src][i], tree[dst][i]}
  BY <1>1 DEF TreesTyped
<1>3. TreeTyped(tree'[dst], latest)
  BY <1>2, ItemKinds DEF TreesTyped, TreeTyped
<1> QED BY <1>1, <1>2, <1>3 DEF TreesTyped

\* SteamCMD's changes of a tree.
LEMMA UpdatedTyped ==
    ASSUME TreesTyped, latest \in 1 .. MaxBuild, UNCHANGED latest, NEW p \in Pods, NEW ready \in BOOLEAN,
           NEW info \in {"plain", tree[p]["gameinfo.gi"]},
           \/ tree' = [tree EXCEPT ![p]["ready"] = ready, ![p]["gameinfo.gi"] = info]
           \/ tree' = [tree EXCEPT ![p]["ready"] = ready, ![p]["gameinfo.gi"] = info, ![p]["bin"] = latest]
    PROVE  TreesTyped'
<1>1. p \in Roots /\ DOMAIN tree = Roots /\ DOMAIN tree[p] = Items
  BY DEF Roots, TreesTyped, TreeTyped
<1>2. DOMAIN tree' = Roots /\ \A r \in Roots : r # p => tree'[r] = tree[r]
  BY <1>1
<1>3. /\ DOMAIN tree'[p] = Items
      /\ tree'[p]["ready"] = ready /\ tree'[p]["gameinfo.gi"] = info
      /\ tree'[p]["bin"] \in {tree[p]["bin"], latest}
      /\ \A i \in Items \ {"ready", "gameinfo.gi", "bin"} : tree'[p][i] = tree[p][i]
  BY <1>1, ItemKinds
<1>4. TreeTyped(tree'[p], latest)
  BY <1>1, <1>3, PreparationAssumption, ItemKinds DEF TreesTyped, TreeTyped
<1> QED BY <1>1, <1>2, <1>4 DEF TreesTyped

\* Steam's steps keep every variable well typed.
LEMMA TypeSteamStep ==
    ASSUME TypeInv, NEW p \in Pods,
           Start(p) \/ Seed(p) \/ Update(p) \/ UpdateCut(p) \/ Sync(p) \/ Killed(p)
    PROVE  TypeInv'
<1> USE TypeParts, TypePartsNext DEF Roots
<1>1. CASE Start(p)
  <2>1. PodsTyped' /\ WritesTyped'
    <3>1. PICK s \in Deployed[p] : env' = [env EXCEPT ![p] = s] BY <1>1 DEF Start
    <3>2. s \in Settings BY PreparationAssumption
    <3>3. pc[p] = "down" /\ pc' = [pc EXCEPT ![p] = "seed"] /\ sdk' = sdk /\ home' = home /\ writes' = writes
      BY <1>1 DEF Start, Goto
    <3>4. pc' \in [Pods -> Places] /\ env' \in [Pods -> Settings]
      BY <3>1, <3>2, <3>3 DEF PodsTyped, Places
    <3>5. \A q \in Pods : writes'[q] # <<>> => pc'[q] = "write" BY <3>3 DEF PodsTyped
    <3> QED BY <3>3, <3>4, <3>5 DEF PodsTyped, WritesTyped
  <2>2. UNCHANGED <<latest, tree>> BY <1>1 DEF Start
  <2> QED BY <2>1, <2>2 DEF TreesTyped
<1>2. CASE Seed(p)
  <2>1. UNCHANGED latest /\ UNCHANGED env /\ pc[p] = "seed" BY <1>2 DEF Seed
  <2>2. TreesTyped' /\ (Goto(p, "update") \/ End(p))
    BY <1>2, <2>1, CopyTyped DEF Seed, TreesTyped
  <2>3. PodsTyped' /\ WritesTyped' BY <2>1, <2>2, PodsGo DEF Places
  <2> QED BY <2>1, <2>2, <2>3
<1>3. CASE Update(p)
  <2>1. PodsTyped' /\ WritesTyped'
    BY <1>3 DEF Update, UpdateTree, PodsTyped, WritesTyped, Places
  <2>2. UNCHANGED latest BY <1>3 DEF Update
  <2>3. TreesTyped'
    <3>1. CASE UNCHANGED tree BY <2>2, <3>1 DEF TreesTyped
    <3>2. ASSUME NEW info \in {"plain", tree[p]["gameinfo.gi"]},
                 tree' = [tree EXCEPT ![p]["ready"] = TRUE, ![p]["gameinfo.gi"] = info, ![p]["bin"] = latest]
          PROVE  TreesTyped'
      BY <2>2, <3>2, UpdatedTyped, TRUE \in BOOLEAN, latest \in 0 .. latest
    <3> QED BY <1>3, <3>1, <3>2 DEF Update, UpdateTree
  <2> QED BY <2>1, <2>2, <2>3
<1>4. CASE UpdateCut(p)
  <2>1. UNCHANGED latest /\ UNCHANGED env /\ End(p) BY <1>4 DEF UpdateCut
  <2>2. TreesTyped'
    <3>1. PICK info \in {"plain", tree[p]["gameinfo.gi"]} :
            tree' = [tree EXCEPT ![p]["ready"] = FALSE, ![p]["gameinfo.gi"] = info]
      BY <1>4 DEF UpdateCut
    <3> QED BY <2>1, <3>1, UpdatedTyped, FALSE \in BOOLEAN
  <2>3. PodsTyped' /\ WritesTyped' BY <2>1, PodsGo DEF Places
  <2> QED BY <2>1, <2>2, <2>3
<1>5. CASE Sync(p)
  <2>1. UNCHANGED latest /\ UNCHANGED env /\ pc[p] = "sync" BY <1>5 DEF Sync
  <2>2. TreesTyped' /\ (Goto(p, "bootstrap") \/ End(p))
    BY <1>5, <2>1, CopyTyped DEF Sync, TreesTyped
  <2>3. PodsTyped' /\ WritesTyped' BY <2>1, <2>2, PodsGo DEF Places
  <2> QED BY <2>1, <2>2, <2>3
<1>6. CASE Killed(p)
  <2>1. UNCHANGED <<latest, tree, env>> /\ End(p) BY <1>6 DEF Killed
  <2>2. PodsTyped' /\ WritesTyped' BY <2>1, PodsGo DEF Places
  <2> QED BY <2>1, <2>2 DEF TreesTyped
<1> QED BY <1>1, <1>2, <1>3, <1>4, <1>5, <1>6

\* Behind the first half of the patch is the second.
LEMMA PatchAhead ==
    ASSUME NEW W, NEW w \in Seq(W), w # <<>>, Paired(w), Head(w) = PatchGameinfo[1]
    PROVE  Tail(w) \in Seq(W) /\ Tail(w) # <<>> /\ Head(Tail(w)) = Hook
<1>1. /\ Tail(w) \in Seq(W) /\ Len(Tail(w)) = Len(w) - 1
      /\ \A i \in 1 .. Len(Tail(w)) : Tail(w)[i] = w[i + 1]
  BY HeadTailProperties
<1>2. Len(w) \in Nat /\ Len(w) > 0 /\ DOMAIN w = 1 .. Len(w)
  BY LenProperties, EmptySeq
<1>3. 1 \in DOMAIN w /\ w[1] = PatchGameinfo[1]
  BY <1>2
<1>4. 1 + 1 \in DOMAIN w /\ w[1 + 1] = Hook
  BY <1>3 DEF Paired
<1>5. Len(Tail(w)) >= 1 /\ Tail(w)[1] = Hook
  BY <1>1, <1>2, <1>4
<1>6. Tail(w) # <<>>
  BY <1>5, EmptySeq
<1> QED BY <1>1, <1>5, <1>6

\* A write of the preparation keeps a tree well typed.
LEMMA WrittenTyped ==
    ASSUME NEW n, NEW t, TreeTyped(t, n), NEW w \in Writings
    PROVE  TreeTyped([t EXCEPT ![w[1]] = w[2]], n)
<1> DEFINE u == [t EXCEPT ![w[1]] = w[2]]
<1>1. DOMAIN u = Items /\ \A i \in Items : u[i] = IF i = w[1] THEN w[2] ELSE t[i]
  BY DEF TreeTyped
<1>2. CASE w \in PluginFiles \X (Images \cup {0})
  <2>1. w[1] \in PluginFiles /\ w[2] \in Images \cup {0} BY <1>2
  <2> QED BY <1>1, <2>1, ItemKinds DEF TreeTyped
<1>3. CASE w \in Cfgs \X DOMAIN Layer
  <2>1. w[1] \in Cfgs /\ w[2] \in DOMAIN Layer BY <1>3
  <2> QED BY <1>1, <2>1, ItemKinds DEF TreeTyped
<1>4. CASE w \in {PatchGameinfo[1], Hook}
  <2>1. w[1] = "gameinfo.gi" /\ w[2] \in {"empty", "hooked"} BY <1>4 DEF PatchGameinfo, Hook
  <2> QED BY <1>1, <2>1, ItemKinds DEF TreeTyped
<1>5. CASE w \in (Managed \cup {"admins.json"}) \X {"bundled", "managed", "first", "second"}
  <2>1. w[1] \in Fixed /\ w[1] \notin {"bin", "csgo_bin", "gameinfo.gi", "ready"}
    BY <1>5 DEF Managed, Fixed
  <2> QED BY <1>1, <2>1, ItemKinds DEF TreeTyped
<1> QED BY <1>2, <1>3, <1>4, <1>5 DEF Writings

\* What is in a sequence is first in it or in the rest.
LEMMA ToSetTail ==
    ASSUME NEW W, NEW w \in Seq(W), w # <<>>, NEW x \in ToSet(w)
    PROVE  x = Head(w) \/ x \in ToSet(Tail(w))
<1>1. /\ Tail(w) \in Seq(W) /\ Len(Tail(w)) = Len(w) - 1
      /\ \A i \in 1 .. Len(Tail(w)) : Tail(w)[i] = w[i + 1]
  BY HeadTailProperties
<1>2. /\ Len(w) \in Nat /\ Len(w) > 0
      /\ DOMAIN w = 1 .. Len(w) /\ DOMAIN Tail(w) = 1 .. Len(w) - 1
  BY <1>1, LenProperties, EmptySeq
<1>3. PICK k \in 1 .. Len(w) : w[k] = x
  BY <1>2 DEF ToSet
<1>4. CASE k = 1 BY <1>3, <1>4
<1>5. CASE k # 1
  <2>1. k - 1 \in DOMAIN Tail(w) /\ Tail(w)[k - 1] = x BY <1>1, <1>2, <1>3, <1>5
  <2> QED BY <2>1 DEF ToSet
<1> QED BY <1>4, <1>5

\* The steps of the preparation keep every variable well typed.
LEMMA TypePrepareStep ==
    ASSUME TypeInv, NEW p \in Pods, Prepare(p)
    PROVE  TypeInv'
<1> USE TypeParts, TypePartsNext
<1>1. /\ pc \in [Pods -> Places] /\ DOMAIN writes = Pods /\ writes[p] \in Seq(Writings) /\ Paired(writes[p])
      /\ p \in Roots
  BY DEF PodsTyped, WritesTyped, Roots
<1>2. CASE Bootstrap(p)
  <2>1. UNCHANGED <<latest, tree, env>> /\ pc[p] = "bootstrap" BY <1>2 DEF Bootstrap
  <2>2. CASE Goto(p, "steamclient") \/ End(p)
    <3>1. PodsTyped' /\ WritesTyped' BY <2>1, <2>2, PodsGo DEF Places
    <3> QED BY <2>1, <3>1 DEF TreesTyped
  <2>3. CASE /\ sdk' = [sdk EXCEPT ![p] = Platforms] /\ pc' = [pc EXCEPT ![p] = "steamclient"]
             /\ UNCHANGED <<home, writes>>
    <3>1. PodsTyped' /\ WritesTyped' BY <2>1, <2>3 DEF PodsTyped, WritesTyped, Places
    <3> QED BY <2>1, <3>1 DEF TreesTyped
  <2> QED BY <1>2, <2>2, <2>3 DEF Bootstrap
<1>3. CASE Steamclient(p)
  <2>1. UNCHANGED <<latest, tree>> BY <1>3 DEF Steamclient
  <2>2. PodsTyped' /\ WritesTyped' BY <1>3 DEF Steamclient, PodsTyped, WritesTyped, Places
  <2> QED BY <2>1, <2>2 DEF TreesTyped
<1>4. CASE Libraries(p)
  <2>1. UNCHANGED latest /\ tree' = [tree EXCEPT ![p]["csgo_bin"] = tree[p]["bin"]] BY <1>4 DEF Libraries
  <2>2. TreesTyped' BY <1>1, <2>1, ItemKinds DEF TreesTyped, TreeTyped
  <2>3. writes' = [writes EXCEPT ![p] = Plan(env[p])] /\ env[p] \in Settings
    BY <1>4 DEF Libraries, Plan, PodsTyped
  <2>4. WritesTyped' BY <2>3, PlanTyped DEF WritesTyped, PodsTyped
  <2>5. PodsTyped' BY <1>4, <2>3 DEF Libraries, PodsTyped, Places
  <2> QED BY <2>1, <2>2, <2>4, <2>5
<1>5. CASE SkipPatch(p)
  <2>1. /\ UNCHANGED <<latest, tree, pc, env, sdk, home>> /\ pc[p] = "write"
        /\ writes[p] # <<>> /\ Head(writes[p]) = PatchGameinfo[1]
        /\ writes' = [writes EXCEPT ![p] = Tail(Tail(writes[p]))]
    BY <1>5 DEF SkipPatch, LeavesGameinfo
  <2>2. Tail(writes[p]) \in Seq(Writings) /\ Tail(writes[p]) # <<>> /\ Paired(Tail(writes[p]))
    BY <1>1, <2>1, PatchAhead, PairedTail
  <2>3. Tail(Tail(writes[p])) \in Seq(Writings) /\ Paired(Tail(Tail(writes[p])))
    BY <2>2, HeadTailProperties, PairedTail
  <2>4. WritesTyped' BY <1>1, <2>1, <2>3 DEF WritesTyped
  <2>5. PodsTyped' BY <2>1 DEF PodsTyped
  <2> QED BY <2>1, <2>4, <2>5 DEF TreesTyped
<1>6. CASE Write(p)
  <2>1. /\ UNCHANGED <<latest, pc, env, sdk, home>> /\ pc[p] = "write" /\ writes[p] # <<>>
        /\ tree' = [tree EXCEPT ![p][Head(writes[p])[1]] = Head(writes[p])[2]]
        /\ writes' = [writes EXCEPT ![p] = Tail(writes[p])]
    BY <1>6 DEF Write
  <2>2. Head(writes[p]) \in Writings /\ Tail(writes[p]) \in Seq(Writings) /\ Paired(Tail(writes[p]))
    BY <1>1, <2>1, HeadTailProperties, PairedTail
  <2>3. TreesTyped'
    <3>1. TreeTyped([tree[p] EXCEPT ![Head(writes[p])[1]] = Head(writes[p])[2]], latest)
      BY <1>1, <2>2, WrittenTyped DEF TreesTyped
    <3>2. /\ tree'[p] = [tree[p] EXCEPT ![Head(writes[p])[1]] = Head(writes[p])[2]]
          /\ DOMAIN tree' = Roots /\ \A r \in Roots : r # p => tree'[r] = tree[r]
      BY <1>1, <2>1 DEF TreesTyped
    <3> QED BY <2>1, <3>1, <3>2 DEF TreesTyped
  <2>4. WritesTyped' BY <1>1, <2>1, <2>2 DEF WritesTyped
  <2>5. PodsTyped' BY <2>1 DEF PodsTyped
  <2> QED BY <2>1, <2>3, <2>4, <2>5
<1>7. CASE Launch(p)
  <2>1. UNCHANGED <<latest, tree, env>> /\ Goto(p, "running") /\ writes[p] = <<>> BY <1>7 DEF Launch
  <2>2. PodsTyped' /\ WritesTyped' BY <2>1, PodsGo DEF Places
  <2> QED BY <2>1, <2>2 DEF TreesTyped
<1> QED BY <1>2, <1>3, <1>4, <1>5, <1>6, <1>7 DEF Prepare

\* Every step keeps the types.
LEMMA TypeNext == TypeInv /\ [Next]_vars => TypeInv'
<1> SUFFICES ASSUME TypeInv, [Next]_vars PROVE TypeInv'
  OBVIOUS
<1>1. CASE Release
  <2>1. /\ UNCHANGED <<tree, pc, env, sdk, home, writes>> /\ latest' = latest + 1
        /\ latest < MaxBuild /\ latest \in 1 .. MaxBuild /\ MaxBuild \in Nat
    BY <1>1, PreparationAssumption, TypeParts DEF Release
  <2>2. latest' \in 1 .. MaxBuild /\ \A b \in 0 .. latest : b \in 0 .. latest' BY <2>1
  <2>3. TreesTyped' BY <2>1, <2>2, TypeParts DEF TreesTyped, TreeTyped
  <2>4. PodsTyped' /\ WritesTyped' BY <2>1, TypeParts DEF PodsTyped, WritesTyped
  <2> QED BY <2>2, <2>3, <2>4, TypePartsNext
<1>2. ASSUME NEW p \in Pods,
             Start(p) \/ Seed(p) \/ Update(p) \/ UpdateCut(p) \/ Sync(p) \/ Killed(p)
      PROVE  TypeInv'
  BY <1>2, TypeSteamStep
<1>3. ASSUME NEW p \in Pods, Prepare(p) PROVE TypeInv'
  BY <1>3, TypePrepareStep
<1>4. CASE UNCHANGED vars
  BY <1>4 DEF vars, TypeInv, TypeOK, WritesTyped
<1> QED BY <1>1, <1>2, <1>3, <1>4 DEF Next

\* Every variable keeps its type, through every kill, upgrade and change of
\* settings.
THEOREM PreparationTypeCorrect == Spec => []TypeOK
<1>1. Spec => []TypeInv BY TypeInit, TypeNext, PTL DEF Spec
<1>2. TypeInv => TypeOK BY DEF TypeInv
<1> QED BY <1>1, <1>2, PTL

-----------------------------------------------------------------------------
(***************************************************************************)
(* The libraries.  A pod has the platforms SteamCMD unpacked once it is    *)
(* past the bootstrap, and the copies of this build once it is past the    *)
(* libraries; only its own process writes its volume.                      *)
(***************************************************************************)
Prepared == {"write", "running"}

LibrariesOf(p) ==
    /\ pc[p] = "steamclient" => sdk[p] = Platforms
    /\ pc[p] \in {"libraries"} \cup Prepared => home[p] = Platforms
    /\ pc[p] \in Prepared => tree[p]["csgo_bin"] = tree[p]["bin"]

(***************************************************************************)
(* The writes.  Of what the plan leaves in the end, each write is either   *)
(* among those left or done and not undone by those left.  gameinfo.gi is  *)
(* apart, as its patch looks at the file: either it is still to come or    *)
(* the file is no longer as Steam ships it.                                *)
(***************************************************************************)
WritesOf(p) ==
    pc[p] \in Prepared =>
        /\ \A e \in ToSet(Plan(env[p])) :
            e[1] # "gameinfo.gi" /\ Final(Plan(env[p]), e) => Will(writes[p], tree[p], e)
        /\ Runtime(env[p]) => Hook \in ToSet(writes[p]) \/ tree[p]["gameinfo.gi"] # "plain"

PreparationInv == \A p \in Pods : LibrariesOf(p) /\ WritesOf(p)

\* Everything a step does in a pod it does in its own: another pod's process,
\* settings and volume are as before.
LEMMA OthersAlone ==
    ASSUME TypeInv, NEW p \in Pods, NEW q \in Pods, q # p,
           \/ Start(p) \/ Seed(p) \/ Update(p) \/ UpdateCut(p) \/ Sync(p) \/ Prepare(p) \/ Killed(p)
    PROVE  /\ pc'[q] = pc[q] /\ env'[q] = env[q] /\ tree'[q] = tree[q]
           /\ sdk'[q] = sdk[q] /\ home'[q] = home[q] /\ writes'[q] = writes[q]
<1>1. /\ pc \in [Pods -> Places] /\ env \in [Pods -> Settings] /\ DOMAIN writes = Pods /\ DOMAIN tree = Roots
      /\ sdk \in [Pods -> SUBSET Platforms] /\ home \in [Pods -> SUBSET Platforms]
      /\ p \in Roots /\ q \in Roots /\ q # Cache
  BY PreparationAssumption, TypeParts DEF PodsTyped, TreesTyped, Roots
<1>2. CASE Start(p) BY <1>1, <1>2 DEF Start, Goto
<1>3. CASE Seed(p) BY <1>1, <1>3 DEF Seed, CopyTree, Goto, End
<1>4. CASE Update(p) BY <1>1, <1>4 DEF Update, UpdateTree
<1>5. CASE UpdateCut(p) BY <1>1, <1>5 DEF UpdateCut, End
<1>6. CASE Sync(p) BY <1>1, <1>6 DEF Sync, CopyTree, Goto, End
<1>7. CASE Prepare(p)
  BY <1>1, <1>7 DEF Prepare, Bootstrap, Steamclient, Libraries, SkipPatch, Write, Launch, Goto, End
<1>8. CASE Killed(p) BY <1>1, <1>8 DEF Killed, End
<1> QED BY <1>2, <1>3, <1>4, <1>5, <1>6, <1>7, <1>8

\* Another pod keeps what is said of its libraries and writes.
LEMMA OthersInv ==
    ASSUME TypeInv, PreparationInv, NEW p \in Pods, NEW q \in Pods, q # p,
           \/ Start(p) \/ Seed(p) \/ Update(p) \/ UpdateCut(p) \/ Sync(p) \/ Prepare(p) \/ Killed(p)
    PROVE  LibrariesOf(q)' /\ WritesOf(q)'
<1>1. /\ pc'[q] = pc[q] /\ env'[q] = env[q] /\ tree'[q] = tree[q]
      /\ sdk'[q] = sdk[q] /\ home'[q] = home[q] /\ writes'[q] = writes[q]
  BY OthersAlone
<1>2. LibrariesOf(q) /\ WritesOf(q) BY DEF PreparationInv
<1>3. LibrariesOf(q)' BY <1>1, <1>2 DEF LibrariesOf
<1>4. WritesOf(q)' BY <1>1, <1>2 DEF WritesOf
<1> QED BY <1>3, <1>4

\* Before the libraries are in place nothing is claimed of the writes.
LEMMA BeforePreparation ==
    ASSUME TypeInv, NEW p \in Pods,
           Start(p) \/ Seed(p) \/ Update(p) \/ UpdateCut(p) \/ Sync(p) \/ Killed(p)
    PROVE  LibrariesOf(p)' /\ WritesOf(p)'
<1>1. pc \in [Pods -> Places]
  BY TypeParts DEF PodsTyped
<1>2. pc'[p] \in {"down", "seed", "update", "sync", "bootstrap"}
  BY <1>1 DEF Start, Seed, Update, UpdateTree, UpdateCut, Sync, Killed, CopyTree, Goto, End
<1> QED BY <1>2 DEF LibrariesOf, WritesOf, Prepared

\* The libraries are complete from the bootstrap on, and of the build from the
\* copy on, since nothing the preparation writes is a library.
LEMMA LibrariesStep ==
    ASSUME TypeInv, NEW p \in Pods, LibrariesOf(p), Prepare(p)
    PROVE  LibrariesOf(p)'
<1>1. /\ pc \in [Pods -> Places] /\ DOMAIN tree = Roots /\ p \in Roots /\ DOMAIN tree[p] = Items
      /\ sdk \in [Pods -> SUBSET Platforms] /\ home \in [Pods -> SUBSET Platforms]
      /\ writes[p] \in Seq(Writings)
  BY TypeParts DEF PodsTyped, TreesTyped, TreeTyped, WritesTyped, Roots
<1> USE DEF LibrariesOf, Prepared
<1>2. CASE Bootstrap(p) BY <1>1, <1>2 DEF Bootstrap, NeedsBootstrap, Goto, End
<1>3. CASE Steamclient(p) BY <1>1, <1>3 DEF Steamclient
<1>4. CASE Libraries(p) BY <1>1, <1>4, ItemKinds DEF Libraries
<1>5. CASE SkipPatch(p) BY <1>5 DEF SkipPatch
<1>6. CASE Write(p)
  <2>1. Head(writes[p]) \in Writings BY <1>1, <1>6, HeadTailProperties DEF Write
  <2>2. Head(writes[p])[1] \notin {"bin", "csgo_bin"}
    BY <2>1, ItemKinds DEF Writings, PatchGameinfo, Hook, Managed
  <2>3. tree'[p]["bin"] = tree[p]["bin"] /\ tree'[p]["csgo_bin"] = tree[p]["csgo_bin"]
    BY <1>1, <1>6, <2>2, ItemKinds DEF Write
  <2> QED BY <1>6, <2>3 DEF Write
<1>7. CASE Launch(p) BY <1>1, <1>7 DEF Launch, Goto
<1> QED BY <1>2, <1>3, <1>4, <1>5, <1>6, <1>7 DEF Prepare

\* What the plan leaves is left: each step of the writes, a skipped patch
\* included, keeps what is promised.
LEMMA WritesStep ==
    ASSUME TypeInv, NEW p \in Pods, WritesOf(p), Prepare(p)
    PROVE  WritesOf(p)'
<1>1. /\ pc \in [Pods -> Places] /\ DOMAIN tree = Roots /\ p \in Roots /\ DOMAIN tree[p] = Items
      /\ env[p] \in Settings /\ DOMAIN writes = Pods
      /\ writes[p] \in Seq(Writings) /\ Paired(writes[p])
      /\ tree[p]["gameinfo.gi"] \in {"plain", "hooked", "empty"}
  BY TypeParts DEF PodsTyped, TreesTyped, TreeTyped, WritesTyped, Roots
<1>2. CASE Bootstrap(p) BY <1>1, <1>2 DEF Bootstrap, Goto, End, WritesOf, Prepared
<1>3. CASE Steamclient(p) BY <1>1, <1>3 DEF Steamclient, WritesOf, Prepared
<1>4. CASE Libraries(p)
  <2>1. writes'[p] = Plan(env[p]) /\ env' = env BY <1>1, <1>4 DEF Libraries, Plan
  <2>2. Runtime(env[p]) => Hook \in ToSet(Plan(env[p])) BY <1>1, PluginsFinal DEF Final, ToSet
  <2> QED BY <2>1, <2>2 DEF WritesOf, Will
<1>5. CASE SkipPatch(p)
  <2>1. /\ UNCHANGED <<tree, pc, env>> /\ pc[p] \in Prepared
        /\ writes[p] # <<>> /\ Head(writes[p]) = PatchGameinfo[1] /\ tree[p]["gameinfo.gi"] # "plain"
        /\ writes'[p] = Tail(Tail(writes[p]))
    BY <1>1, <1>5 DEF SkipPatch, LeavesGameinfo, Prepared
  <2>2. Tail(writes[p]) \in Seq(Writings) /\ Tail(writes[p]) # <<>> /\ Head(Tail(writes[p])) = Hook
    BY <1>1, <2>1, PatchAhead
  <2>3. Head(writes[p])[1] = "gameinfo.gi" /\ Head(Tail(writes[p]))[1] = "gameinfo.gi"
    BY <2>1, <2>2 DEF PatchGameinfo, Hook
  <2>4. ASSUME NEW e, e[1] # "gameinfo.gi", Will(writes[p], tree[p], e)
        PROVE  Will(Tail(Tail(writes[p])), tree[p], e)
    <3>1. Will(Tail(writes[p]), tree[p], e) BY <1>1, <2>1, <2>3, <2>4, WillStep
    <3> QED BY <2>2, <2>3, <2>4, <3>1, WillStep
  <2> QED BY <2>1, <2>4 DEF WritesOf
<1>6. CASE Write(p)
  <2>1. /\ UNCHANGED <<pc, env>> /\ pc[p] \in Prepared /\ writes[p] # <<>>
        /\ tree'[p] = [tree[p] EXCEPT ![Head(writes[p])[1]] = Head(writes[p])[2]]
        /\ writes'[p] = Tail(writes[p])
    BY <1>1, <1>6 DEF Write, Prepared
  <2>2. Head(writes[p]) \in Writings BY <1>1, <2>1, HeadTailProperties
  <2>3. \A w \in Writings : w[1] \in Items
    BY ItemKinds DEF Writings, PatchGameinfo, Hook, Fixed
  <2>4. ASSUME NEW e \in ToSet(Plan(env[p])), Will(writes[p], tree[p], e)
        PROVE  Will(Tail(writes[p]), tree'[p], e)
    <3>1. e \in Writings BY <1>1, PlanTyped, LenProperties, ElementOfSeq DEF ToSet
    <3>2. e[1] = Head(writes[p])[1] => tree'[p][e[1]] = Head(writes[p])[2] BY <1>1, <2>1, <2>3, <3>1
    <3>3. e[1] # Head(writes[p])[1] => tree'[p][e[1]] = tree[p][e[1]] BY <1>1, <2>1, <2>3, <3>1
    <3> QED BY <1>1, <2>1, <2>4, <3>2, <3>3, WillStep
  <2>5. ASSUME Hook \in ToSet(writes[p]) \/ tree[p]["gameinfo.gi"] # "plain"
        PROVE  Hook \in ToSet(Tail(writes[p])) \/ tree'[p]["gameinfo.gi"] # "plain"
    <3>1. Head(writes[p])[1] = "gameinfo.gi" => Head(writes[p])[2] \in {"empty", "hooked"}
      BY <2>2, ItemKinds DEF Writings, PatchGameinfo, Hook, Managed
    <3>2. /\ Head(writes[p])[1] = "gameinfo.gi" => tree'[p]["gameinfo.gi"] # "plain"
          /\ Head(writes[p])[1] # "gameinfo.gi" => tree'[p]["gameinfo.gi"] = tree[p]["gameinfo.gi"]
      BY <1>1, <2>1, <3>1, ItemKinds
    <3>3. Hook \in ToSet(writes[p]) => Hook = Head(writes[p]) \/ Hook \in ToSet(Tail(writes[p]))
      BY <1>1, <2>1, ToSetTail
    <3>4. Hook[1] = "gameinfo.gi" BY DEF Hook, PatchGameinfo
    <3> QED BY <2>5, <3>2, <3>3, <3>4
  <2> QED BY <2>1, <2>4, <2>5 DEF WritesOf
<1>7. CASE Launch(p)
  <2>1. UNCHANGED <<tree, env, writes>> /\ pc[p] \in Prepared BY <1>7 DEF Launch, Goto, Prepared
  <2> QED BY <2>1 DEF WritesOf
<1> QED BY <1>2, <1>3, <1>4, <1>5, <1>6, <1>7 DEF Prepare

\* Every step keeps what is said of all libraries and writes.
LEMMA PreparationNext == TypeInv /\ PreparationInv /\ [Next]_vars => PreparationInv'
<1> SUFFICES ASSUME TypeInv, PreparationInv, [Next]_vars PROVE PreparationInv'
  OBVIOUS
<1>1. CASE Release \/ UNCHANGED vars
  <2>1. UNCHANGED <<tree, pc, env, sdk, home, writes>> BY <1>1 DEF Release, vars
  <2> QED BY <2>1 DEF PreparationInv, LibrariesOf, WritesOf
<1>2. ASSUME NEW p \in Pods,
             \/ Start(p) \/ Seed(p) \/ Update(p) \/ UpdateCut(p) \/ Sync(p) \/ Prepare(p) \/ Killed(p)
      PROVE  PreparationInv'
  <2>1. \A q \in Pods : q # p => LibrariesOf(q)' /\ WritesOf(q)' BY <1>2, OthersInv
  <2>2. LibrariesOf(p)' /\ WritesOf(p)'
    BY <1>2, BeforePreparation, LibrariesStep, WritesStep DEF PreparationInv
  <2> QED BY <2>1, <2>2 DEF PreparationInv
<1> QED BY <1>1, <1>2 DEF Next

\* The invariant of the preparation.
LEMMA PreparationAlways == Spec => [](TypeInv /\ PreparationInv)
<1>1. Init => PreparationInv
  BY DEF Init, PreparationInv, LibrariesOf, WritesOf, Prepared
<1> QED BY <1>1, TypeInit, TypeNext, PreparationNext, PTL DEF Spec

-----------------------------------------------------------------------------
\* The server loads libraries of the build it runs and finds the Steam client
\* of both platforms (prepare_server_libraries, prepare_steamclient_libraries).
THEOREM LibrariesAreOfTheBuild == Spec => []LibrariesOfTheBuild
<1>1. PreparationInv => LibrariesOfTheBuild
  BY DEF PreparationInv, LibrariesOf, LibrariesOfTheBuild, Running, Prepared
<1> QED BY <1>1, PreparationAlways, PTL

\* What a final write of the plan leaves is what a running server finds.
LEMMA RunningFinds ==
    ASSUME TypeInv, PreparationInv, NEW p \in Pods, Running(p), NEW i, NEW v,
           i # "gameinfo.gi", Final(Plan(env[p]), <<i, v>>)
    PROVE  tree[p][i] = v
<1>1. writes[p] = <<>> BY TypeParts DEF PodsTyped, Running
<1>2. <<i, v>> \in ToSet(Plan(env[p])) BY DEF Final, ToSet
<1>3. Will(writes[p], tree[p], <<i, v>>)
  BY <1>2 DEF PreparationInv, WritesOf, Running, Prepared
<1> QED BY <1>1, <1>3 DEF Will, Final

\* Containment: with the runtime enabled, every file of the bundle is
\* there from this image, no file of a disabled plugin is, from whatever image, the managed files are the platform's, and
\* MetaMod is hooked in unless an earlier start left gameinfo.gi empty
\* (PluginRuntime.apply).
THEOREM PluginsAreAsDeclared == Spec => []PluginsAsDeclared
<1>1. TypeInv /\ PreparationInv => PluginsAsDeclared
  <2> SUFFICES ASSUME TypeInv, PreparationInv PROVE PluginsAsDeclared
    OBVIOUS
  <2> SUFFICES ASSUME NEW p \in Pods, Running(p), Runtime(env[p])
               PROVE  /\ tree[p]["gameinfo.gi"] \in {"hooked", "empty"}
                      /\ \A x \in Bundle[env[p].image] \ FilesOf(env[p].disabled) : tree[p][x] = env[p].image
                      /\ \A x \in FilesOf(env[p].disabled) : tree[p][x] = 0
                      /\ \A i \in Managed : tree[p][i] = "managed"
                      /\ env[p].admins # "none" => tree[p]["admins.json"] = env[p].admins
    BY DEF PluginsAsDeclared, Runtime
  <2>1. env[p] \in Settings BY TypeParts DEF PodsTyped
  <2>2. "gameinfo.gi" \notin PluginFiles \cup Managed BY ItemKinds DEF Managed
  <2>3. tree[p]["gameinfo.gi"] \in {"hooked", "empty"}
    <3>1. writes[p] = <<>> BY TypeParts DEF PodsTyped, Running
    <3>2. tree[p]["gameinfo.gi"] # "plain"
      BY <3>1 DEF PreparationInv, WritesOf, Running, Prepared, ToSet
    <3>3. tree[p]["gameinfo.gi"] \in {"plain", "hooked", "empty"}
      BY TypeParts DEF TreesTyped, TreeTyped, Roots
    <3> QED BY <3>2, <3>3
  <2>4. ASSUME NEW x \in Bundle[env[p].image] \ FilesOf(env[p].disabled) PROVE tree[p][x] = env[p].image
    <3>1. x # "gameinfo.gi" BY <2>1, <2>2, SettingsFinite DEF Runtime
    <3>2. Final(Plan(env[p]), <<x, env[p].image>>) BY <2>1, PluginsFinal
    <3> QED BY <3>1, <3>2, RunningFinds
  <2>5. ASSUME NEW x \in FilesOf(env[p].disabled) PROVE tree[p][x] = 0
    <3>1. x # "gameinfo.gi" BY <2>1, <2>2, SettingsFinite
    <3>2. Final(Plan(env[p]), <<x, 0>>) BY <2>1, PluginsFinal
    <3> QED BY <3>1, <3>2, RunningFinds
  <2>6. ASSUME NEW i \in Managed PROVE tree[p][i] = "managed"
    BY <2>1, <2>2, PluginsFinal, RunningFinds
  <2>7. env[p].admins # "none" => tree[p]["admins.json"] = env[p].admins
    BY <2>1, PluginsFinal, RunningFinds
  <2> QED BY <2>3, <2>4, <2>5, <2>6, <2>7
<1> QED BY <1>1, PreparationAlways, PTL

\* Every cfg file has the content of the most specific layer that has it,
\* whatever layers earlier starts copied (OverlayPlan.apply).
THEOREM CfgIsMostSpecific == Spec => []MostSpecificCfg
<1>1. TypeInv /\ PreparationInv => MostSpecificCfg
  <2> SUFFICES ASSUME TypeInv, PreparationInv PROVE MostSpecificCfg
    OBVIOUS
  <2> SUFFICES ASSUME NEW p \in Pods, Running(p), NEW c \in Cfgs
               PROVE  /\ c \in Layer["server"] => tree[p][c] = "server"
                      /\ c \in Layer[env[p].mode] \ Layer["server"] => tree[p][c] = env[p].mode
                      /\ c \in Layer["base"] \ (Layer[env[p].mode] \cup Layer["server"])
                              => tree[p][c] = "base"
    BY DEF MostSpecificCfg
  <2>1. env[p] \in Settings BY TypeParts DEF PodsTyped
  <2>2. c # "gameinfo.gi" BY ItemKinds
  <2>3. c \in Layer["server"] => tree[p][c] = "server"
    BY <2>1, <2>2, OverlayFinal, RunningFinds
  <2>4. ASSUME c \in Layer[env[p].mode] \ Layer["server"] PROVE tree[p][c] = env[p].mode
    <3>1. Final(Plan(env[p]), <<c, env[p].mode>>) BY <2>1, <2>4, OverlayFinal
    <3> QED BY <2>2, <3>1, RunningFinds
  <2>5. c \in Layer["base"] \ (Layer[env[p].mode] \cup Layer["server"]) => tree[p][c] = "base"
    BY <2>1, <2>2, OverlayFinal, RunningFinds
  <2> QED BY <2>3, <2>4, <2>5
<1> QED BY <1>1, PreparationAlways, PTL

-----------------------------------------------------------------------------
(***************************************************************************)
(* Where plugins come from.  The writes of a start are what its settings   *)
(* ask for, and copies and updates add nothing.  It is what is left of     *)
(* containment once the cache spreads plugins (run plugins_spread).        *)
(***************************************************************************)
\* What any server is ever deployed with.
Asked == UNION {Deployed[p] : p \in Pods}
AskedRuntime == {s \in Asked : s.enabled /\ s.image # 0}

\* A deployment has asked for the content v of item i.
Origin(i, v) ==
    /\ i \in PluginFiles /\ v # 0 => \E s \in AskedRuntime : s.image = v /\ i \in Bundle[v]
    /\ i = "gameinfo.gi" /\ v # "plain" => AskedRuntime # {}

\* A plugin file, and the hook, only where some server has the runtime enabled.
OnlyWhatWasDeployed == \A r \in Roots : \A i \in Items : Origin(i, tree[r][i])

AskedWritings == {w \in Writings : Origin(w[1], w[2])}

OriginInv ==
    /\ \A p \in Pods : env[p] \in Deployed[p] /\ writes[p] \in Seq(AskedWritings)
    /\ OnlyWhatWasDeployed

\* What the plugin runtime manages needs no origin.
LEMMA ManagedAsked ==
    ASSUME NEW i \in Managed, NEW v \in {"bundled", "managed"}
    PROVE  <<i, v>> \in AskedWritings
<1>1. i \notin PluginFiles \cup Cfgs /\ i \notin {"gameinfo.gi", "admins.json"}
  BY ItemKinds, PreparationAssumption DEF Managed, Fixed
<1>2. <<i, v>> \in Writings
  BY DEF Writings
<1> QED BY <1>1, <1>2 DEF AskedWritings, Origin

\* A managed file, written once.
LEMMA WriteOneAsked ==
    ASSUME NEW i, NEW v, <<i, v>> \in AskedWritings
    PROVE  To(<<i>>, v) \in Seq(AskedWritings)
BY WriteOne, SeqMonotonic, {<<i, v>>} \subseteq AskedWritings

\* Each part of PluginRuntime.apply writes what the settings ask for.
LEMMA PartsAsked ==
    ASSUME NEW s \in AskedRuntime, s \in Settings
    PROVE  /\ CopyBundle(s) \in Seq(AskedWritings) /\ NormalizeVdf \in Seq(AskedWritings)
           /\ PatchGameinfo \in Seq(AskedWritings) /\ WriteAdmins(s) \in Seq(AskedWritings)
           /\ WriteGamemodesServer \in Seq(AskedWritings)
           /\ WriteGamemodeManager \in Seq(AskedWritings)
           /\ RemoveDisabled(s) \in Seq(AskedWritings)
<1>1. s.image \in Images /\ s.image # 0 /\ Bundle[s.image] \subseteq PluginFiles
  BY SettingsFinite DEF AskedRuntime, Settings
<1>2. CopyBundle(s) \in Seq(AskedWritings)
  <2>1. ASSUME NEW x \in Bundle[s.image] PROVE <<x, s.image>> \in AskedWritings
    <3>1. <<x, s.image>> \in Writings BY <1>1 DEF Writings
    <3>2. x \notin Cfgs /\ x \notin {"gameinfo.gi", "admins.json"} BY <1>1, ItemKinds
    <3>3. Origin(x, s.image) BY <3>2 DEF Origin
    <3> QED BY <3>1, <3>3 DEF AskedWritings
  <2>2. <<"GameModeManager.json", "bundled">> \in AskedWritings
        /\ <<"metamod_x64.vdf", "bundled">> \in AskedWritings
    BY ManagedAsked DEF Managed
  <2>3. BundleWrites(s) \subseteq AskedWritings BY <2>1, <2>2 DEF BundleWrites
  <2> QED BY <1>1, <2>3, CopyBundlePart, SeqMonotonic
<1>3. NormalizeVdf \in Seq(AskedWritings)
  BY ManagedAsked, WriteOneAsked DEF NormalizeVdf, Managed
<1>4. PatchGameinfo \in Seq(AskedWritings)
  <2>1. /\ PatchGameinfo[1] = <<"gameinfo.gi", "empty">> /\ Hook = <<"gameinfo.gi", "hooked">>
        /\ {PatchGameinfo[1], Hook} \subseteq Writings
    BY DEF PatchGameinfo, Hook, Writings
  <2>2. "gameinfo.gi" \notin PluginFiles \cup Cfgs BY ItemKinds
  <2>3. Origin("gameinfo.gi", "empty") /\ Origin("gameinfo.gi", "hooked") BY <2>2 DEF Origin
  <2>4. {PatchGameinfo[1], Hook} \subseteq AskedWritings BY <2>1, <2>3 DEF AskedWritings
  <2> QED BY <2>4, PatchPart, SeqMonotonic
<1>5. WriteAdmins(s) \in Seq(AskedWritings)
  <2>1. CASE s.admins = "none" BY <2>1, EmptySeq DEF WriteAdmins
  <2>2. CASE s.admins # "none"
    <3>1. <<"admins.json", s.admins>> \in Writings BY <2>2 DEF Writings, Settings
    <3>2. "admins.json" \notin PluginFiles \cup Cfgs BY ItemKinds
    <3>3. Origin("admins.json", s.admins) BY <3>2 DEF Origin
    <3>4. <<"admins.json", s.admins>> \in AskedWritings BY <3>1, <3>3 DEF AskedWritings
    <3> QED BY <2>2, <3>4, WriteOneAsked DEF WriteAdmins
  <2> QED BY <2>1, <2>2
<1>6. WriteGamemodesServer \in Seq(AskedWritings)
  BY ManagedAsked, WriteOneAsked DEF WriteGamemodesServer, Managed
<1>7. WriteGamemodeManager \in Seq(AskedWritings)
  BY ManagedAsked, WriteOneAsked DEF WriteGamemodeManager, Managed
<1>8. RemoveDisabled(s) \in Seq(AskedWritings)
  <2>1. ASSUME NEW x \in FilesOf(s.disabled) PROVE <<x, 0>> \in AskedWritings
    <3>1. x \in PluginFiles /\ <<x, 0>> \in Writings BY SettingsFinite DEF Writings
    <3>2. x \notin Cfgs /\ x \notin {"gameinfo.gi", "admins.json"} BY <3>1, ItemKinds
    <3>3. Origin(x, 0) BY <3>2 DEF Origin
    <3> QED BY <3>1, <3>3 DEF AskedWritings
  <2>2. FilesOf(s.disabled) \X {0} \subseteq AskedWritings BY <2>1
  <2> QED BY <2>2, RemoveDisabledPart, SeqMonotonic
<1> QED BY <1>2, <1>3, <1>4, <1>5, <1>6, <1>7, <1>8

\* A layer of the settings is what they ask for.
LEMMA LayerAsked ==
    ASSUME NEW s \in Asked, s \in Settings, NEW l \in {"base", s.mode, "server"}
    PROVE  OverlayLayer(l) \in Seq(AskedWritings)
<1>1. l \in DOMAIN Layer
  BY PreparationAssumption DEF Settings
<1>2. ASSUME NEW c \in Layer[l] PROVE <<c, l>> \in AskedWritings
  <2>1. c \in Cfgs BY <1>1, LayerPart
  <2>2. <<c, l>> \in Writings BY <1>1, <2>1 DEF Writings
  <2>3. c \notin PluginFiles /\ c \notin {"gameinfo.gi", "admins.json"} BY <2>1, ItemKinds
  <2>4. Origin(c, l) BY <2>3 DEF Origin
  <2> QED BY <2>2, <2>4 DEF AskedWritings
<1>3. Layer[l] \X {l} \subseteq AskedWritings
  BY <1>2
<1> QED BY <1>1, <1>3, LayerPart, SeqMonotonic

\* The writes of a start are what its settings ask for.
LEMMA PlanAsked ==
    ASSUME NEW p \in Pods, NEW s \in Deployed[p]
    PROVE  Plan(s) \in Seq(AskedWritings)
<1>1. s \in Asked /\ s \in Settings
  BY PreparationAssumption DEF Asked
<1>2. ASSUME NEW u \in Seq(AskedWritings), NEW v \in Seq(AskedWritings)
      PROVE  u \o v \in Seq(AskedWritings)
  BY ConcatProperties
<1>3. PluginWrites(s) \in Seq(AskedWritings)
  <2>1. CASE Runtime(s)
    <3>1. PluginWrites(s) = CopyBundle(s) \o NormalizeVdf \o PatchGameinfo \o WriteAdmins(s)
                            \o WriteGamemodesServer \o WriteGamemodeManager \o RemoveDisabled(s)
      BY <2>1 DEF Runtime, PluginWrites
    <3>2. s \in AskedRuntime BY <1>1, <2>1 DEF AskedRuntime, Runtime
    <3>3. /\ CopyBundle(s) \in Seq(AskedWritings) /\ NormalizeVdf \in Seq(AskedWritings)
          /\ PatchGameinfo \in Seq(AskedWritings) /\ WriteAdmins(s) \in Seq(AskedWritings)
          /\ WriteGamemodesServer \in Seq(AskedWritings)
          /\ WriteGamemodeManager \in Seq(AskedWritings)
          /\ RemoveDisabled(s) \in Seq(AskedWritings)
      BY <1>1, <3>2, PartsAsked
    <3> QED BY <1>2, <3>1, <3>3
  <2>2. CASE ~Runtime(s)
    <3>1. PluginWrites(s) = <<>> BY <2>2 DEF Runtime, PluginWrites
    <3> QED BY <3>1, EmptySeq
  <2> QED BY <2>1, <2>2
<1>4. /\ OverlayLayer("base") \in Seq(AskedWritings) /\ OverlayLayer(s.mode) \in Seq(AskedWritings)
      /\ OverlayLayer("server") \in Seq(AskedWritings)
  BY <1>1, LayerAsked
<1>5. OverlayWrites(s) \in Seq(AskedWritings)
  BY <1>2, <1>4 DEF OverlayWrites
<1> QED BY <1>2, <1>3, <1>5 DEF Plan

\* An empty volume holds nothing that needs an origin.
LEMMA BlankAsked == \A i \in Items : Origin(i, Blank[i])
<1>1. ASSUME NEW i \in Items PROVE Origin(i, Blank[i])
  <2>1. i \in PluginFiles => Blank[i] = 0 BY ItemKinds DEF Blank
  <2>2. i = "gameinfo.gi" => Blank[i] = "plain" BY ItemKinds DEF Blank
  <2>3. i \in Cfgs \cup {"admins.json"} => Blank[i] = "none" BY ItemKinds DEF Blank
  <2> QED BY <2>1, <2>2, <2>3 DEF Origin
<1> QED BY <1>1

\* A step that only takes over, or writes what is asked for, invents nothing.
LEMMA TreesAsked ==
    ASSUME OnlyWhatWasDeployed,
           \A r \in Roots : \A i \in Items :
                \/ \E q \in Roots : tree'[r][i] = tree[q][i]
                \/ Origin(i, tree'[r][i])
    PROVE  OnlyWhatWasDeployed'
BY DEF OnlyWhatWasDeployed

\* The Steam steps copy, update or cut, and invent nothing.
LEMMA SteamTreesAsked ==
    ASSUME TypeInv, OriginInv, NEW p \in Pods,
           Start(p) \/ Seed(p) \/ Update(p) \/ UpdateCut(p) \/ Sync(p) \/ Killed(p)
    PROVE  OnlyWhatWasDeployed'
<1>1. /\ p \in Roots /\ Cache \in Roots /\ DOMAIN tree = Roots
      /\ \A r \in Roots : DOMAIN tree[r] = Items
      /\ TreesTyped /\ OnlyWhatWasDeployed
  BY TypeParts DEF TreesTyped, TreeTyped, Roots, OriginInv
<1>2. CASE UNCHANGED tree BY <1>1, <1>2 DEF OnlyWhatWasDeployed
<1>3. ASSUME NEW src \in Roots, NEW dst \in Roots, NEW place, CopyTree(p, src, dst, place), UNCHANGED latest
      PROVE  OnlyWhatWasDeployed'
  <2>1. /\ \A r \in Roots : r # dst => tree'[r] = tree[r]
        /\ \A i \in Items : tree'[dst][i] \in {tree[src][i], tree[dst][i]}
    BY <1>1, <1>3, CopyTyped
  <2> QED BY <1>1, <2>1, TreesAsked
<1>4. ASSUME NEW info \in {"plain", tree[p]["gameinfo.gi"]}, NEW ready,
             \/ tree' = [tree EXCEPT ![p]["ready"] = ready, ![p]["gameinfo.gi"] = info]
             \/ tree' = [tree EXCEPT ![p]["ready"] = ready, ![p]["gameinfo.gi"] = info, ![p]["bin"] = latest]
      PROVE  OnlyWhatWasDeployed'
  <2>1. \A r \in Roots : r # p => tree'[r] = tree[r] BY <1>1, <1>4
  <2>2. /\ tree'[p]["gameinfo.gi"] = info
        /\ \A i \in Items \ {"ready", "gameinfo.gi", "bin"} : tree'[p][i] = tree[p][i]
    BY <1>1, <1>4, ItemKinds
  <2>3. ASSUME NEW i \in Items
        PROVE  (\E q \in Roots : tree'[p][i] = tree[q][i]) \/ Origin(i, tree'[p][i])
    <3>1. CASE i \in {"ready", "bin"}
      <4>1. i \notin PluginFiles \cup Cfgs /\ i \notin {"gameinfo.gi", "admins.json"} BY <3>1, ItemKinds
      <4> QED BY <4>1 DEF Origin
    <3>2. CASE i = "gameinfo.gi" /\ info = "plain"
      <4>1. i \notin PluginFiles \cup Cfgs /\ i # "admins.json" BY <3>2, ItemKinds
      <4> QED BY <2>2, <3>2, <4>1 DEF Origin
    <3>3. CASE i = "gameinfo.gi" /\ info = tree[p]["gameinfo.gi"] BY <1>1, <2>2, <3>3
    <3>4. CASE i \notin {"ready", "gameinfo.gi", "bin"} BY <1>1, <2>2, <3>4
    <3> QED BY <1>4, <3>1, <3>2, <3>3, <3>4
  <2> QED BY <1>1, <2>1, <2>3, TreesAsked
<1>5. CASE Start(p) \/ Killed(p) BY <1>2, <1>5 DEF Start, Killed
<1>6. CASE Seed(p) BY <1>1, <1>2, <1>3, <1>6 DEF Seed
<1>7. CASE Update(p) BY <1>2, <1>4, <1>7 DEF Update, UpdateTree
<1>8. CASE UpdateCut(p) BY <1>4, <1>8 DEF UpdateCut
<1>9. CASE Sync(p) BY <1>1, <1>2, <1>3, <1>9 DEF Sync
<1> QED BY <1>5, <1>6, <1>7, <1>8, <1>9

\* The preparation writes what its settings ask for.
LEMMA PrepareTreesAsked ==
    ASSUME TypeInv, OriginInv, NEW p \in Pods, Prepare(p)
    PROVE  OnlyWhatWasDeployed'
<1>1. /\ p \in Roots /\ DOMAIN tree = Roots /\ \A r \in Roots : DOMAIN tree[r] = Items
      /\ writes[p] \in Seq(AskedWritings) /\ OnlyWhatWasDeployed
  BY TypeParts DEF TreesTyped, TreeTyped, Roots, OriginInv
<1>2. CASE UNCHANGED tree BY <1>1, <1>2 DEF OnlyWhatWasDeployed
<1>3. CASE Libraries(p)
  <2>1. /\ \A r \in Roots : r # p => tree'[r] = tree[r]
        /\ \A i \in Items : i # "csgo_bin" => tree'[p][i] = tree[p][i]
    BY <1>1, <1>3 DEF Libraries
  <2>2. "csgo_bin" \notin PluginFiles \cup Cfgs BY ItemKinds
  <2>3. Origin("csgo_bin", tree'[p]["csgo_bin"]) BY <2>2 DEF Origin
  <2> QED BY <1>1, <2>1, <2>3, TreesAsked
<1>4. CASE Write(p)
  <2>1. Head(writes[p]) \in AskedWritings BY <1>1, <1>4, HeadTailProperties DEF Write
  <2>2. Origin(Head(writes[p])[1], Head(writes[p])[2]) BY <2>1 DEF AskedWritings
  <2>3. /\ \A r \in Roots : r # p => tree'[r] = tree[r]
        /\ \A i \in Items : tree'[p][i] = IF i = Head(writes[p])[1] THEN Head(writes[p])[2] ELSE tree[p][i]
    BY <1>1, <1>4 DEF Write
  <2> QED BY <1>1, <2>2, <2>3, TreesAsked
<1>5. CASE Bootstrap(p) \/ Steamclient(p) \/ SkipPatch(p) \/ Launch(p)
  BY <1>2, <1>5 DEF Bootstrap, Steamclient, SkipPatch, Launch
<1> QED BY <1>3, <1>4, <1>5 DEF Prepare

\* Nothing but what the settings ask for is ever left to write.
LEMMA WritesAsked ==
    ASSUME TypeInv, OriginInv, NEW p \in Pods,
           \/ Start(p) \/ Seed(p) \/ Update(p) \/ UpdateCut(p) \/ Sync(p) \/ Prepare(p) \/ Killed(p)
    PROVE  env'[p] \in Deployed[p] /\ writes'[p] \in Seq(AskedWritings)
<1>1. /\ env \in [Pods -> Settings] /\ DOMAIN writes = Pods
      /\ env[p] \in Deployed[p] /\ writes[p] \in Seq(AskedWritings)
      /\ writes[p] \in Seq(Writings) /\ Paired(writes[p])
  BY TypeParts DEF PodsTyped, WritesTyped, OriginInv
<1>2. CASE Start(p)
  BY <1>1, <1>2 DEF Start, Goto
<1>3. CASE Seed(p) \/ Update(p) \/ UpdateCut(p) \/ Sync(p) \/ Killed(p)
  <2>1. UNCHANGED env /\ writes'[p] \in {writes[p], <<>>}
    BY <1>1, <1>3 DEF Seed, Update, UpdateCut, Sync, Killed, CopyTree, Goto, End
  <2> QED BY <1>1, <2>1, EmptySeq
<1>4. CASE Bootstrap(p) \/ Steamclient(p) \/ Launch(p)
  <2>1. UNCHANGED env /\ writes'[p] \in {writes[p], <<>>}
    BY <1>1, <1>4 DEF Bootstrap, Steamclient, Launch, Goto, End
  <2> QED BY <1>1, <2>1, EmptySeq
<1>5. CASE Libraries(p)
  <2>1. UNCHANGED env /\ writes'[p] = Plan(env[p]) BY <1>1, <1>5 DEF Libraries, Plan
  <2> QED BY <1>1, <2>1, PlanAsked
<1>6. CASE SkipPatch(p)
  <2>1. /\ UNCHANGED env /\ writes[p] # <<>> /\ Head(writes[p]) = PatchGameinfo[1]
        /\ writes'[p] = Tail(Tail(writes[p]))
    BY <1>1, <1>6 DEF SkipPatch, LeavesGameinfo
  <2>2. Tail(writes[p]) \in Seq(AskedWritings) /\ Tail(writes[p]) # <<>>
    BY <1>1, <2>1, PatchAhead
  <2> QED BY <1>1, <2>1, <2>2, HeadTailProperties
<1>7. CASE Write(p)
  <2>1. UNCHANGED env /\ writes[p] # <<>> /\ writes'[p] = Tail(writes[p]) BY <1>1, <1>7 DEF Write
  <2> QED BY <1>1, <2>1, HeadTailProperties
<1> QED BY <1>2, <1>3, <1>4, <1>5, <1>6, <1>7 DEF Prepare

\* Every step keeps all of it.
LEMMA OriginNext == TypeInv /\ OriginInv /\ [Next]_vars => OriginInv'
<1> SUFFICES ASSUME TypeInv, OriginInv, [Next]_vars PROVE OriginInv'
  OBVIOUS
<1>1. CASE Release \/ UNCHANGED vars
  <2>1. UNCHANGED <<tree, pc, env, sdk, home, writes>> BY <1>1 DEF Release, vars
  <2> QED BY <2>1 DEF OriginInv, OnlyWhatWasDeployed
<1>2. ASSUME NEW p \in Pods,
             \/ Start(p) \/ Seed(p) \/ Update(p) \/ UpdateCut(p) \/ Sync(p) \/ Prepare(p) \/ Killed(p)
      PROVE  OriginInv'
  <2>1. ASSUME NEW q \in Pods PROVE env'[q] \in Deployed[q] /\ writes'[q] \in Seq(AskedWritings)
    <3>1. CASE q = p BY <1>2, <3>1, WritesAsked
    <3>2. CASE q # p
      <4>1. env'[q] = env[q] /\ writes'[q] = writes[q] BY <1>2, <3>2, OthersAlone
      <4> QED BY <4>1 DEF OriginInv
    <3> QED BY <3>1, <3>2
  <2>2. OnlyWhatWasDeployed' BY <1>2, SteamTreesAsked, PrepareTreesAsked
  <2> QED BY <2>1, <2>2 DEF OriginInv
<1> QED BY <1>1, <1>2 DEF Next

\* What is in a volume or in the cache, some deployment has asked for, however
\* often it has been copied from server to server (_rsync_tree, main).
LEMMA NothingFromNowhere == Spec => []OnlyWhatWasDeployed
<1>1. Init => OriginInv
  <2> SUFFICES ASSUME Init PROVE OriginInv
    OBVIOUS
  <2>1. \A p \in Pods : env[p] \in Deployed[p] /\ writes[p] \in Seq(AskedWritings)
    BY EmptySeq DEF Init
  <2>2. OnlyWhatWasDeployed BY BlankAsked DEF Init, OnlyWhatWasDeployed
  <2> QED BY <2>1, <2>2 DEF OriginInv
<1>2. OriginInv => OnlyWhatWasDeployed
  BY DEF OriginInv
<1> QED BY <1>1, <1>2, TypeInit, TypeNext, OriginNext, PTL DEF Spec

\* Where no server is ever deployed with the plugin runtime, every server runs
\* without MetaMod and without plugins: what run plugins_spread shows to spread
\* has a deployment with the runtime behind it.
THEOREM PluginFreeWithoutRuntime ==
    ASSUME \A p \in Pods : \A s \in Deployed[p] : ~s.enabled
    PROVE  Spec => []NeverEnabledIsPluginFree
<1>1. AskedRuntime = {}
  BY DEF AskedRuntime, Asked
<1>2. OnlyWhatWasDeployed => NeverEnabledIsPluginFree
  BY <1>1, ItemKinds DEF OnlyWhatWasDeployed, Origin, NeverEnabledIsPluginFree, Roots
<1> QED BY <1>2, NothingFromNowhere, PTL
=============================================================================

----------------------------- MODULE PathProofs ------------------------------
(***************************************************************************)
(* Theorems about the paths of a session and about the shell beside them,  *)
(* for every configuration of mounts, every set of paths that are asked    *)
(* for, every link of the agent that PathAssumption allows.                *)
(***************************************************************************)
EXTENDS Sandbox, FiniteSetTheorems, SequenceTheorems, WellFoundedInduction, TLAPS

-----------------------------------------------------------------------------
(* Paths                                                                   *)

AnyName == PathNames \union {".."}
AnyPath == Seq(AnyName)

LEMMA PrefixIs ==
    ASSUME NEW s \in AnyPath, NEW t \in AnyPath
    PROVE  IsPrefix(s, t) <=> Len(s) <= Len(t) /\ \A i \in 1 .. Len(s) : s[i] = t[i]
<1>1. Len(s) \in Nat /\ Len(t) \in Nat
  BY DEF AnyPath
<1>2. CASE Len(s) <= Len(t)
  <2>1. /\ SubSeq(s, 1, Len(s)) = s /\ SubSeq(t, 1, Len(s)) \in AnyPath
        /\ Len(SubSeq(t, 1, Len(s))) = Len(s)
        /\ \A i \in 1 .. Len(s) : SubSeq(t, 1, Len(s))[i] = t[i]
    BY <1>1, <1>2 DEF AnyPath
  <2>2. SubSeq(s, 1, Len(s)) = SubSeq(t, 1, Len(s)) <=> \A i \in 1 .. Len(s) : s[i] = t[i]
    BY <2>1, SeqEqual DEF AnyPath
  <2>3. QED
    BY <1>2, <2>2 DEF IsPrefix
<1>3. CASE ~(Len(s) <= Len(t))
  BY <1>3 DEF IsPrefix
<1>4. QED
  BY <1>2, <1>3

LEMMA DropIs ==
    ASSUME NEW s \in AnyPath, NEW n \in 0 .. Len(s)
    PROVE  /\ Drop(s, n) \in AnyPath /\ Len(Drop(s, n)) = Len(s) - n
           /\ \A i \in 1 .. Len(s) - n : Drop(s, n)[i] = s[i + n]
<1>1. Len(s) \in Nat /\ \A i \in n + 1 .. Len(s) : s[i] \in AnyName
  BY DEF AnyPath
<1>2. QED
  BY <1>1, SubSeqProperties DEF Drop, AnyPath

LEMMA ConcatIs ==
    ASSUME NEW s \in AnyPath, NEW t \in AnyPath
    PROVE  /\ s \o t \in AnyPath /\ Len(s \o t) = Len(s) + Len(t)
           /\ \A i \in 1 .. Len(s) : (s \o t)[i] = s[i]
           /\ \A i \in 1 .. Len(t) : (s \o t)[Len(s) + i] = t[i]
BY DEF AnyPath

LEMMA OneMore ==
    ASSUME NEW s \in AnyPath, NEW n \in AnyName
    PROVE  /\ s \o <<n>> \in AnyPath /\ Len(s \o <<n>>) = Len(s) + 1
           /\ \A i \in 1 .. Len(s) : (s \o <<n>>)[i] = s[i]
           /\ (s \o <<n>>)[Len(s) + 1] = n
           /\ s \o <<n>> = Append(s, n)
<1>1. Append(s, n) = s \o <<n>>
  BY AppendIsConcat DEF AnyPath
<1>2. /\ Append(s, n) \in AnyPath /\ Len(Append(s, n)) = Len(s) + 1
      /\ \A i \in 1 .. Len(s) : Append(s, n)[i] = s[i]
      /\ Append(s, n)[Len(s) + 1] = n
  BY AppendProperties DEF AnyPath
<1>3. QED
  BY <1>1, <1>2

LEMMA FixedPaths ==
    /\ WorkspaceDir \in AnyPath /\ Len(WorkspaceDir) = 5
    /\ WorkspaceDir[1] = "users" /\ WorkspaceDir[2] = "me" /\ WorkspaceDir[3] = "sessions"
    /\ WorkspaceDir[4] = "s" /\ WorkspaceDir[5] = "workspace"
    /\ ExternalDir \in AnyPath /\ Len(ExternalDir) = 6 /\ ExternalDir[6] = "external"
    /\ \A i \in 1 .. 5 : ExternalDir[i] = WorkspaceDir[i]
    /\ Own \in AnyPath /\ Len(Own) = 6 /\ Own[6] = "l"
    /\ \A i \in 1 .. 5 : Own[i] = WorkspaceDir[i]
    /\ SkillsDir \in AnyPath /\ Len(SkillsDir) = 7 /\ SkillsDir[6] = ".claude" /\ SkillsDir[7] = "skills"
    /\ \A i \in 1 .. 5 : SkillsDir[i] = WorkspaceDir[i]
    /\ Persistent \in AnyPath /\ GlobalSkills \in AnyPath /\ UserSkills \in AnyPath
    /\ \A k \in AnyName : Base(k) \in AnyPath
<1>1. CodeNames \subseteq AnyName
  BY SandboxAssumption DEF SandboxAssumption, PathAssumption, AnyName
<1>2. Session \in AnyPath /\ Len(Session) = 4 /\ Session[1] = "users" /\ Session[2] = "me" /\ Session[3] = "sessions" /\ Session[4] = "s"
  BY <1>1 DEF CodeNames, AnyPath, Session
<1>3. /\ <<"workspace">> \in AnyPath /\ <<"external">> \in AnyPath /\ <<"l">> \in AnyPath
      /\ Persistent \in AnyPath /\ GlobalSkills \in AnyPath /\ UserSkills \in AnyPath
  BY <1>1 DEF CodeNames, AnyPath, Persistent, GlobalSkills, UserSkills
<1>4. \A k \in AnyName : Base(k) \in AnyPath
  BY <1>1 DEF CodeNames, AnyPath, Base
<1>5. /\ WorkspaceDir \in AnyPath /\ Len(WorkspaceDir) = 5
      /\ WorkspaceDir[1] = "users" /\ WorkspaceDir[2] = "me" /\ WorkspaceDir[3] = "sessions"
      /\ WorkspaceDir[4] = "s" /\ WorkspaceDir[5] = "workspace"
  <2>1. "workspace" \in AnyName
    BY <1>1 DEF CodeNames
  <2>2. /\ WorkspaceDir \in AnyPath /\ Len(WorkspaceDir) = Len(Session) + 1
        /\ \A i \in 1 .. Len(Session) : WorkspaceDir[i] = Session[i]
        /\ WorkspaceDir[Len(Session) + 1] = "workspace"
    BY <1>2, <2>1, OneMore DEF WorkspaceDir
  <2>3. QED
    BY <1>2, <2>2
<1>6. /\ ExternalDir \in AnyPath /\ Len(ExternalDir) = 6 /\ ExternalDir[6] = "external"
      /\ \A i \in 1 .. 5 : ExternalDir[i] = WorkspaceDir[i]
  <2>1. "external" \in AnyName
    BY <1>1 DEF CodeNames
  <2>2. /\ ExternalDir \in AnyPath /\ Len(ExternalDir) = Len(WorkspaceDir) + 1
        /\ \A i \in 1 .. Len(WorkspaceDir) : ExternalDir[i] = WorkspaceDir[i]
        /\ ExternalDir[Len(WorkspaceDir) + 1] = "external"
    BY <1>5, <2>1, OneMore DEF ExternalDir
  <2>3. QED
    BY <1>5, <2>2
<1>7. /\ Own \in AnyPath /\ Len(Own) = 6 /\ Own[6] = "l"
      /\ \A i \in 1 .. 5 : Own[i] = WorkspaceDir[i]
  <2>1. "l" \in AnyName
    BY <1>1 DEF CodeNames
  <2>2. /\ Own \in AnyPath /\ Len(Own) = Len(WorkspaceDir) + 1
        /\ \A i \in 1 .. Len(WorkspaceDir) : Own[i] = WorkspaceDir[i]
        /\ Own[Len(WorkspaceDir) + 1] = "l"
    BY <1>5, <2>1, OneMore DEF Own
  <2>3. QED
    BY <1>5, <2>2
<1>8. /\ SkillsDir \in AnyPath /\ Len(SkillsDir) = 7 /\ SkillsDir[6] = ".claude" /\ SkillsDir[7] = "skills"
      /\ \A i \in 1 .. 5 : SkillsDir[i] = WorkspaceDir[i]
  <2>1. PICK t : t = <<".claude", "skills">>
    OBVIOUS
  <2>2. t \in AnyPath /\ Len(t) = 2 /\ t[1] = ".claude" /\ t[2] = "skills" /\ SkillsDir = WorkspaceDir \o t
    BY <1>1, <2>1 DEF CodeNames, AnyPath, SkillsDir
  <2>3. PICK w \in AnyPath : w = WorkspaceDir /\ Len(w) = 5
    BY <1>5
  <2>4. /\ w \o t \in AnyPath /\ Len(w \o t) = Len(w) + Len(t) /\ \A i \in 1 .. Len(w) : (w \o t)[i] = w[i]
        /\ \A i \in 1 .. Len(t) : (w \o t)[Len(w) + i] = t[i]
    BY <2>2, ConcatIs
  <2>5. /\ SkillsDir \in AnyPath /\ Len(SkillsDir) = 5 + 2
        /\ \A i \in 1 .. 5 : SkillsDir[i] = WorkspaceDir[i]
        /\ \A i \in 1 .. 2 : SkillsDir[5 + i] = t[i]
    BY <2>2, <2>3, <2>4
  <2>6. SkillsDir[5 + 1] = t[1] /\ SkillsDir[5 + 2] = t[2]
    BY <2>5
  <2>7. QED
    BY <2>2, <2>5, <2>6
<1>9. QED
  BY <1>3, <1>4, <1>5, <1>6, <1>7, <1>8

LEMMA TailIs ==
    ASSUME NEW s \in AnyPath, s # <<>>
    PROVE  Tail(s) = Drop(s, 1) /\ Tail(s) \in AnyPath
BY TailIsSubSeq, HeadTailProperties DEF Drop, AnyPath

LEMMA Least ==
    ASSUME NEW S \in SUBSET Nat, S # {}
    PROVE  \E n \in S : \A m \in S : n <= m
<1>1. PICK n \in S : \A m \in S : ~(<<m, n>> \in OpToRel(<, Nat))
  BY NatLessThanWellFounded, WFMin
<1>2. n \in Nat /\ \A m \in S : m \in Nat
  OBVIOUS
<1>3. \A m \in S : ~(m < n)
  BY <1>1, <1>2, Zenon DEF OpToRel
<1>4. QED
  BY <1>2, <1>3

\* One name further, and on from where a link leads.
Advance(parts, to, s, i) ==
    IF StepTo(s, parts[i]) \in DOMAIN to THEN to[StepTo(s, parts[i])] ELSE StepTo(s, parts[i])

Walks(parts, to, f, n) ==
    DOMAIN f = 0 .. n /\ f[0] = <<>> /\ \A i \in 1 .. n : f[i] = Advance(parts, to, f[i - 1], i)

LEMMA WalkExists ==
    ASSUME NEW parts, NEW to, NEW n \in Nat
    PROVE  \E f : Walks(parts, to, f, n)
<1> DEFINE bad == {m \in Nat : ~ \E f : Walks(parts, to, f, m)}
<1>1. SUFFICES ASSUME bad # {} PROVE FALSE
  OBVIOUS
<1>2. PICK m \in bad : \A k \in bad : m <= k
  <2>1. bad \in SUBSET Nat
    OBVIOUS
  <2> HIDE DEF bad
  <2>2. QED
    BY <1>1, <2>1, Least
<1>3. CASE m = 0
  <2>1. Walks(parts, to, [i \in 0 .. 0 |-> <<>>], 0)
    BY DEF Walks
  <2>2. QED
    BY <1>3, <2>1
<1>4. CASE m # 0
  <2>1. m \in Nat /\ m - 1 \in Nat /\ m - 1 \notin bad
    BY <1>2, <1>4
  <2>2. PICK f : Walks(parts, to, f, m - 1)
    BY <2>1
  <2> DEFINE g == [i \in 0 .. m |-> IF i = m THEN Advance(parts, to, f[m - 1], m) ELSE f[i]]
  <2>3. DOMAIN g = 0 .. m /\ g[0] = <<>>
    BY <2>1, <2>2, <1>4 DEF Walks
  <2>4. ASSUME NEW i \in 1 .. m PROVE g[i] = Advance(parts, to, g[i - 1], i)
    <3>1. CASE i = m
      <4>1. g[i] = Advance(parts, to, f[m - 1], m) /\ g[i - 1] = f[m - 1]
        BY <2>1, <3>1
      <4>2. QED
        BY <3>1, <4>1
    <3>2. CASE i # m
      <4>1. i \in 1 .. m - 1 /\ g[i] = f[i] /\ g[i - 1] = f[i - 1]
        BY <2>1, <3>2
      <4>2. QED
        BY <2>2, <4>1 DEF Walks
    <3>3. QED
      BY <3>1, <3>2
  <2> HIDE DEF g
  <2>5. Walks(parts, to, g, m)
    BY <2>3, <2>4 DEF Walks
  <2>6. QED
    BY <2>5
<1>5. QED
  BY <1>3, <1>4

LEMMA FollowedWalks ==
    ASSUME NEW parts \in AnyPath, NEW to
    PROVE  \E f : Walks(parts, to, f, Len(parts)) /\ Followed(parts, to) = f[Len(parts)]
<1> DEFINE at == CHOOSE at : at = [i \in 0 .. Len(parts) |->
                     IF i = 0 THEN <<>>
                     ELSE LET next == StepTo(at[i - 1], parts[i]) IN IF next \in DOMAIN to THEN to[next] ELSE next]
<1>1. Len(parts) \in Nat
  BY DEF AnyPath
<1>2. Followed(parts, to) = at[Len(parts)]
  BY DEF Followed
<1>3. PICK f : Walks(parts, to, f, Len(parts))
  BY <1>1, WalkExists
<1> DEFINE g == [i \in 0 .. Len(parts) |-> f[i]]
<1>4. g = [i \in 0 .. Len(parts) |-> IF i = 0 THEN <<>>
                     ELSE LET next == StepTo(g[i - 1], parts[i]) IN IF next \in DOMAIN to THEN to[next] ELSE next]
  BY <1>1, <1>3 DEF Walks, Advance
<1> HIDE DEF g
<1>5. at = [i \in 0 .. Len(parts) |-> IF i = 0 THEN <<>>
                     ELSE LET next == StepTo(at[i - 1], parts[i]) IN IF next \in DOMAIN to THEN to[next] ELSE next]
  BY <1>4
<1> HIDE DEF at
<1>6. Walks(parts, to, at, Len(parts))
  BY <1>1, <1>5 DEF Walks, Advance
<1>7. QED
  BY <1>2, <1>6

\* A path on which nothing is a link.
LinkFree(to, s) == s \in Seq(PathNames) /\ \A i \in 1 .. Len(s) : SubSeq(s, 1, i) \notin DOMAIN to

LeadsOn(to) == \A d \in DOMAIN to : LinkFree(to, to[d])

LEMMA PlainNames == ".." \notin PathNames /\ PathNames \subseteq AnyName /\ Seq(PathNames) \subseteq AnyPath
<1>1. ".." \notin PathNames /\ PathNames \subseteq AnyName
  BY SandboxAssumption DEF SandboxAssumption, PathAssumption, AnyName
<1>2. QED
  BY <1>1, SeqMonotonic DEF AnyPath

LEMMA EmptyIsFree == ASSUME NEW to PROVE LinkFree(to, <<>>)
BY DEF LinkFree

LEMMA UpIsFree ==
    ASSUME NEW to, NEW s, LinkFree(to, s)
    PROVE  LinkFree(to, Up(s))
<1>1. CASE s = <<>>
  BY <1>1 DEF Up
<1>2. CASE s # <<>>
  <2>1. s \in Seq(PathNames) /\ Len(s) \in Nat /\ Len(s) # 0
    BY <1>2 DEF LinkFree
  <2>2. /\ SubSeq(s, 1, Len(s) - 1) \in Seq(PathNames) /\ Len(SubSeq(s, 1, Len(s) - 1)) = Len(s) - 1
        /\ \A i \in 1 .. Len(s) - 1 : SubSeq(SubSeq(s, 1, Len(s) - 1), 1, i) = SubSeq(s, 1, i)
    <3>1. \A i \in 1 .. Len(s) - 1 : s[i] \in PathNames
      BY <2>1
    <3>2. SubSeq(s, 1, Len(s) - 1) \in Seq(PathNames) /\ Len(SubSeq(s, 1, Len(s) - 1)) = Len(s) - 1
      <4>1. PICK n \in Nat : n = Len(s) - 1
        BY <2>1
      <4>2. 1 \in Int /\ n \in Int /\ \A i \in 1 .. n : s[i] \in PathNames
        BY <3>1, <4>1
      <4>3. SubSeq(s, 1, n) \in Seq(PathNames) /\ Len(SubSeq(s, 1, n)) = IF 1 <= n THEN n - 1 + 1 ELSE 0
        BY <4>2, SubSeqProperties
      <4>4. QED
        BY <4>1, <4>3
    <3>3. ASSUME NEW i \in 1 .. Len(s) - 1 PROVE SubSeq(SubSeq(s, 1, Len(s) - 1), 1, i) = SubSeq(s, 1, i)
      <4>1. 1 \in 1 .. Len(s) /\ Len(s) - 1 \in 1 .. Len(s) /\ 1 \in 1 .. (Len(s) - 1) - 1 + 1 /\ i \in 1 .. (Len(s) - 1) - 1 + 1
        BY <2>1, <3>3
      <4>2. SubSeq(SubSeq(s, 1, Len(s) - 1), 1, i) = SubSeq(s, 1 + 1 - 1, 1 + i - 1)
        BY <2>1, <3>2, <4>1, SubSeqOfSubSeq
      <4>3. QED
        BY <2>1, <4>2
    <3>4. QED
      BY <3>2, <3>3
  <2>3. QED
    <3>1. Up(s) = SubSeq(s, 1, Len(s) - 1)
      BY <1>2 DEF Up, Front
    <3>2. \A i \in 1 .. Len(s) - 1 : SubSeq(s, 1, i) \notin DOMAIN to
      BY <2>1 DEF LinkFree
    <3>3. QED
      BY <2>2, <3>1, <3>2 DEF LinkFree
<1>3. QED
  BY <1>1, <1>2

LEMMA StartsOfAppend ==
    ASSUME NEW s \in Seq(PathNames), NEW n \in PathNames
    PROVE  /\ Append(s, n) \in Seq(PathNames) /\ Len(Append(s, n)) = Len(s) + 1 /\ Len(s) \in Nat
           /\ \A i \in 1 .. Len(s) : SubSeq(Append(s, n), 1, i) = SubSeq(s, 1, i)
           /\ SubSeq(Append(s, n), 1, Len(s) + 1) = Append(s, n)
<1>1. Append(s, n) \in Seq(PathNames) /\ Len(Append(s, n)) = Len(s) + 1 /\ Len(s) \in Nat
  BY AppendProperties
<1>2. SubSeq(Append(s, n), 1, Len(s) + 1) = Append(s, n)
  BY <1>1, SubSeqFull
<1>3. ASSUME NEW i \in 1 .. Len(s) PROVE SubSeq(Append(s, n), 1, i) = SubSeq(s, 1, i)
  <2>1. <<n>> \in Seq(PathNames) /\ Append(s, n) = s \o <<n>> /\ 1 \in 1 .. Len(s)
    BY <1>1, <1>3, AppendIsConcat
  <2>2. SubSeq(s \o <<n>>, 1, i) = SubSeq(s, 1, i)
    BY <2>1, <1>3, SubSeqOfConcat1
  <2>3. QED
    BY <2>1, <2>2
<1>4. QED
  BY <1>1, <1>2, <1>3

LEMMA NextIsFree ==
    ASSUME NEW to, NEW s, LinkFree(to, s), NEW n \in AnyName, StepTo(s, n) \notin DOMAIN to
    PROVE  LinkFree(to, StepTo(s, n))
<1>1. CASE n = ".."
  BY <1>1, UpIsFree DEF StepTo
<1>2. CASE n # ".."
  <2>1. n \in PathNames /\ s \in Seq(PathNames) /\ StepTo(s, n) = Append(s, n)
    BY <1>2 DEF AnyName, StepTo, LinkFree
  <2>2. ASSUME NEW i \in 1 .. Len(s) + 1 PROVE SubSeq(Append(s, n), 1, i) \notin DOMAIN to
    <3>1. CASE i = Len(s) + 1
      BY <2>1, <3>1, StartsOfAppend
    <3>2. CASE i # Len(s) + 1
      <4>1. i \in 1 .. Len(s)
        BY <2>1, <3>2, StartsOfAppend
      <4>2. QED
        BY <2>1, <4>1, StartsOfAppend DEF LinkFree
    <3>3. QED
      BY <3>1, <3>2
  <2>3. QED
    BY <2>1, <2>2, StartsOfAppend DEF LinkFree
<1>3. QED
  BY <1>1, <1>2

LEMMA FollowedIsFree ==
    ASSUME NEW parts \in AnyPath, NEW to, LeadsOn(to)
    PROVE  LinkFree(to, Followed(parts, to))
<1>1. PICK f : Walks(parts, to, f, Len(parts)) /\ Followed(parts, to) = f[Len(parts)]
  BY FollowedWalks
<1>2. Len(parts) \in Nat /\ \A i \in 1 .. Len(parts) : parts[i] \in AnyName
  BY DEF AnyPath
<1> DEFINE bad == {m \in 0 .. Len(parts) : ~LinkFree(to, f[m])}
<1>3. bad = {}
  <2> SUFFICES ASSUME bad # {} PROVE FALSE
    OBVIOUS
  <2>1. PICK m \in bad : \A k \in bad : m <= k
    <3>1. bad \in SUBSET Nat
      BY <1>2
    <3> HIDE DEF bad
    <3>2. QED
      BY <3>1, Least
  <2>2. m # 0
    BY <1>1, EmptyIsFree DEF Walks
  <2>3. m \in 1 .. Len(parts) /\ m - 1 \in 0 .. Len(parts) /\ m - 1 \notin bad
    BY <1>2, <2>1, <2>2
  <2>4. LinkFree(to, f[m - 1]) /\ f[m] = Advance(parts, to, f[m - 1], m) /\ parts[m] \in AnyName
    BY <1>1, <1>2, <2>3 DEF Walks
  <2>5. LinkFree(to, f[m])
    BY <2>4, NextIsFree DEF Advance, LeadsOn
  <2>6. QED
    BY <2>1, <2>5
<1>4. QED
  BY <1>1, <1>2, <1>3

LEMMA FreeIsItself ==
    ASSUME NEW to, NEW s, LinkFree(to, s)
    PROVE  Followed(s, to) = s
<1>1. s \in Seq(PathNames) /\ s \in AnyPath /\ Len(s) \in Nat
  BY PlainNames DEF LinkFree
<1>2. PICK f : Walks(s, to, f, Len(s)) /\ Followed(s, to) = f[Len(s)]
  BY <1>1, FollowedWalks
<1> DEFINE bad == {m \in 0 .. Len(s) : f[m] # SubSeq(s, 1, m)}
<1>3. bad = {}
  <2> SUFFICES ASSUME bad # {} PROVE FALSE
    OBVIOUS
  <2>1. PICK m \in bad : \A k \in bad : m <= k
    <3>1. bad \in SUBSET Nat
      BY <1>1
    <3> HIDE DEF bad
    <3>2. QED
      BY <3>1, Least
  <2>2. m # 0
    <3>1. SubSeq(s, 1, 0) = <<>> /\ f[0] = <<>>
      BY <1>2, SubSeqEmpty DEF Walks
    <3>2. QED
      BY <2>1, <3>1
  <2>3. m \in 1 .. Len(s) /\ m - 1 \in 0 .. Len(s) /\ m - 1 \notin bad
    BY <1>1, <2>1, <2>2
  <2>4. f[m - 1] = SubSeq(s, 1, m - 1) /\ f[m] = Advance(s, to, f[m - 1], m)
    BY <1>2, <2>3 DEF Walks
  <2>5. StepTo(SubSeq(s, 1, m - 1), s[m]) = SubSeq(s, 1, m)
    <3>1. s[m] \in PathNames /\ s[m] # ".."
      BY <1>1, <2>3, PlainNames
    <3>2. SubSeq(s, 1, m) = SubSeq(s, 1, m - 1) \o <<s[m]>>
      BY <1>1, <2>3, SubSeqRecursiveSecond
    <3>3. SubSeq(s, 1, m - 1) \in Seq(PathNames)
      BY <1>1, <2>3, SubSeqProperties
    <3>4. QED
      BY <3>1, <3>2, <3>3, AppendIsConcat DEF StepTo
  <2>6. SubSeq(s, 1, m) \notin DOMAIN to
    BY <2>3 DEF LinkFree
  <2>7. QED
    BY <2>1, <2>4, <2>5, <2>6 DEF Advance
<1>4. f[Len(s)] = SubSeq(s, 1, Len(s))
  BY <1>1, <1>3
<1>5. QED
  BY <1>1, <1>2, <1>4, SubSeqFull

LEMMA LexicalIsItself ==
    ASSUME NEW s \in Seq(PathNames)
    PROVE  Lexical(s) = s
<1>1. LinkFree(NoLinks, s)
  BY DEF LinkFree, NoLinks
<1>2. QED
  BY <1>1, FreeIsItself DEF Lexical

-----------------------------------------------------------------------------
(* A path below /workspace                                                 *)

LEMMA CodeNamesAreNames == CodeNames \subseteq PathNames /\ Mounts \subseteq PathNames
BY SandboxAssumption DEF SandboxAssumption, PathAssumption

LEMMA SpeltIs ==
    ASSUME NEW p \in Paths
    PROVE  Spelt(p) \in AnyPath /\ Len(Spelt(p)) \in Nat \ {0}
<1>1. p.parts \in AnyPath /\ p.parts # <<>>
  BY SandboxAssumption DEF SandboxAssumption, PathAssumption, AnyPath, AnyName
<1>2. <<"workspace">> \in AnyPath /\ Len(<<"workspace">>) = 1
  BY CodeNamesAreNames DEF CodeNames, AnyPath, AnyName
<1>3. Len(p.parts) \in Nat \ {0}
  BY <1>1 DEF AnyPath
<1>4. <<"workspace">> \o p.parts \in AnyPath /\ Len(<<"workspace">> \o p.parts) = 1 + Len(p.parts)
  BY <1>1, <1>2, ConcatIs
<1>5. QED
  BY <1>1, <1>3, <1>4 DEF Spelt

LEMMA StrippedIsItself ==
    ASSUME NEW s \in Seq(PathNames), s # <<>>, s[1] \notin DOMAIN Hidden
    PROVE  Stripped(s) = s
<1>1. Len(s) \in Nat \ {0} /\ s[1] \in PathNames
  OBVIOUS
<1>2. {i \in DOMAIN s : \A j \in 1 .. i : s[j] = ".."} = {}
  <2> SUFFICES ASSUME NEW i \in DOMAIN s, \A j \in 1 .. i : s[j] = ".." PROVE FALSE
    OBVIOUS
  <2>1. i \in 1 .. Len(s) /\ s[i] \in PathNames
    OBVIOUS
  <2>2. QED
    BY <2>1, PlainNames
<1>3. Drop(s, 0) = s
  BY SubSeqFull DEF Drop
<1>4. QED
  BY <1>2, <1>3, FS_EmptySet DEF Stripped

LEMMA DirectNames ==
    ASSUME NEW p \in Paths, Direct(p)
    PROVE  Spelt(p) \in Seq(PathNames)
<1>1. Spelt(p) \in AnyPath /\ \A i \in 1 .. Len(Spelt(p)) : Spelt(p)[i] # ".."
  BY SpeltIs DEF Direct, Contains
<1>2. Len(Spelt(p)) \in Nat /\ \A i \in 1 .. Len(Spelt(p)) : Spelt(p)[i] \in PathNames
  BY <1>1 DEF AnyPath, AnyName
<1>3. SubSeq(Spelt(p), 1, Len(Spelt(p))) \in Seq(PathNames)
  BY <1>2, SubSeqProperties
<1>4. QED
  BY <1>1, <1>3, SubSeqFull DEF AnyPath

LEMMA NormalizedPlain ==
    ASSUME NEW p \in Paths, Plain(p)
    PROVE  Spelt(p) \in Seq(PathNames) /\ Normalize(p) = Spelt(p)
<1>2. Spelt(p) \in Seq(PathNames)
  BY DirectNames DEF Plain
<1>3. CASE p.abs
  BY <1>2, <1>3, LexicalIsItself DEF Normalize, Spelt
<1>4. CASE ~p.abs
  <2>1. Spelt(p) = <<"workspace">> \o p.parts
    BY <1>4 DEF Spelt
  <2>2. p.parts \in AnyPath /\ p.parts # <<>> /\ Len(p.parts) \in Nat
    BY SandboxAssumption DEF SandboxAssumption, PathAssumption, AnyPath, AnyName
  <2>3. <<"workspace">> \in AnyPath /\ Len(<<"workspace">>) = 1
    BY CodeNamesAreNames DEF CodeNames, AnyPath, AnyName
  <2>4. \A i \in 1 .. Len(p.parts) : p.parts[i] = Spelt(p)[1 + i] /\ 1 + i \in 1 .. Len(Spelt(p))
    BY <2>1, <2>2, <2>3, ConcatIs
  <2>5. \A i \in 1 .. Len(p.parts) : p.parts[i] \in PathNames
    BY <1>2, <2>4
  <2>6. p.parts \in Seq(PathNames)
    <3>1. SubSeq(p.parts, 1, Len(p.parts)) \in Seq(PathNames)
      BY <2>2, <2>5, SubSeqProperties
    <3>2. QED
      BY <2>2, <3>1, SubSeqFull DEF AnyPath
  <2>7. Stripped(p.parts) = p.parts
    BY <1>4, <2>2, <2>6, StrippedIsItself DEF Plain
  <2>8. QED
    BY <1>2, <1>4, <2>1, <2>7, LexicalIsItself DEF Normalize
<1>5. QED
  BY <1>2, <1>3, <1>4

\* The mounts of a resolver.
UsersMounts(r) == \A k \in Kinds : r.user[k] \subseteq Mounts

LEMMA FixedMappings ==
    /\ WorkspaceMapping.sandbox = <<"workspace">> /\ WorkspaceMapping.docker = WorkspaceDir
    /\ PersistentMapping.sandbox = <<"workspace", "external", "persistent">> /\ PersistentMapping.docker = Persistent
    /\ \A k, m : /\ UserMapping(k, m).sandbox = <<"workspace", "external", k, m>>
                 /\ UserMapping(k, m).docker = Base(k) \o <<m>>
BY DEF WorkspaceMapping, PersistentMapping, UserMapping, Mapping

LEMMA SandboxPlaces ==
    /\ <<"workspace">> \in AnyPath /\ <<"workspace", "external", "persistent">> \in AnyPath
    /\ <<"venv">> \in AnyPath /\ <<"skills">> \in AnyPath /\ UserSkills \in AnyPath
    /\ Base("ro") \in AnyPath /\ Base("rw") \in AnyPath
    /\ \A k \in Kinds, m \in Mounts : <<"workspace", "external", k, m>> \in AnyPath
<1>1. CodeNames \subseteq AnyName /\ Mounts \subseteq AnyName
  BY CodeNamesAreNames DEF AnyName
<1>2. QED
  BY <1>1, FixedPaths DEF CodeNames, AnyPath, Kinds

LEMMA SandboxMappings ==
    ASSUME NEW r, UsersMounts(r), NEW n \in AnyPath, Len(n) \in Nat \ {0}, n[1] = "workspace", NEW m
    PROVE  m \in ForSandbox(r, n) <=>
              \/ m = WorkspaceMapping
              \/ m = PersistentMapping /\ External(n) /\ n[3] = "persistent"
              \/ /\ UserArea(n) /\ n[4] \in r.user[n[3]]
                 /\ m = UserMapping(n[3], n[4])
<1>1. IsPrefix(<<"workspace">>, n)
  <2>1. IsPrefix(<<"workspace">>, n) <=> 1 <= Len(n) /\ \A i \in 1 .. 1 : <<"workspace">>[i] = n[i]
    BY SandboxPlaces, PrefixIs
  <2>2. QED
    BY <2>1
<1>2. ~IsPrefix(<<"venv">>, n) /\ ~IsPrefix(<<"skills">>, n) /\ ~IsPrefix(UserSkills, n)
  BY SandboxPlaces, PrefixIs DEF UserSkills
<1>3. ~IsPrefix(Base("ro"), n) /\ ~IsPrefix(Base("rw"), n)
  BY SandboxPlaces, PrefixIs DEF Base
<1>4. IsPrefix(<<"workspace", "external", "persistent">>, n) <=> External(n) /\ n[3] = "persistent"
  <2>1. IsPrefix(<<"workspace", "external", "persistent">>, n) <=>
            3 <= Len(n) /\ \A i \in 1 .. 3 : <<"workspace", "external", "persistent">>[i] = n[i]
    BY SandboxPlaces, PrefixIs
  <2>2. QED
    BY <2>1 DEF External
<1>5. ASSUME NEW k \in Kinds, NEW u \in Mounts
      PROVE  IsPrefix(<<"workspace", "external", k, u>>, n) <=> External(n) /\ Len(n) > 3 /\ n[3] = k /\ n[4] = u
  <2>1. IsPrefix(<<"workspace", "external", k, u>>, n) <=>
            4 <= Len(n) /\ \A i \in 1 .. 4 : <<"workspace", "external", k, u>>[i] = n[i]
    <3>1. PICK s \in AnyPath : s = <<"workspace", "external", k, u>>
      BY SandboxPlaces
    <3>2. IsPrefix(s, n) <=> Len(s) <= Len(n) /\ \A i \in 1 .. Len(s) : s[i] = n[i]
      BY PrefixIs
    <3>3. Len(s) = 4
      BY <3>1
    <3>4. QED
      BY <3>1, <3>2, <3>3
  <2>2. QED
    BY <2>1 DEF External
<1>6. ASSUME NEW k \in Kinds, NEW u \in r.user[k] PROVE u \in Mounts
  BY <1>6 DEF UsersMounts
<1>7. m \in ForSandbox(r, n) <=> m \in Mappings(r) /\ IsPrefix(m.sandbox, n)
  BY DEF ForSandbox
<1>8. m \in Mappings(r) <=>
        \/ m = WorkspaceMapping \/ m = PersistentMapping
        \/ m = Mapping(<<"venv">>, <<"users", "me", "venv">>, "ro", "venv")
        \/ m = Mapping(<<"skills">>, <<"skills">>, "ro", "global_skills")
        \/ m = Mapping(UserSkills, UserSkills, "ro", "user_skills")
        \/ m = Mapping(Base("ro"), Base("ro"), "ro", "external_ro")
        \/ m = Mapping(Base("rw"), Base("rw"), "rw", "external_rw")
        \/ \E k \in Kinds : \E u \in r.user[k] : m = UserMapping(k, u)
  BY DEF Mappings
<1>9. ASSUME m \in ForSandbox(r, n)
      PROVE  \/ m = WorkspaceMapping
             \/ m = PersistentMapping /\ External(n) /\ n[3] = "persistent"
             \/ UserArea(n) /\ n[4] \in r.user[n[3]] /\ m = UserMapping(n[3], n[4])
  <2>1. m \in Mappings(r) /\ IsPrefix(m.sandbox, n)
    BY <1>7, <1>9
  <2>2. CASE m = WorkspaceMapping
    BY <2>2
  <2>3. CASE m = PersistentMapping
    BY <1>4, <2>1, <2>3, FixedMappings
  <2>4. CASE \/ m = Mapping(<<"venv">>, <<"users", "me", "venv">>, "ro", "venv")
             \/ m = Mapping(<<"skills">>, <<"skills">>, "ro", "global_skills")
             \/ m = Mapping(UserSkills, UserSkills, "ro", "user_skills")
    BY <1>2, <2>1, <2>4 DEF Mapping
  <2>5. CASE \/ m = Mapping(Base("ro"), Base("ro"), "ro", "external_ro")
             \/ m = Mapping(Base("rw"), Base("rw"), "rw", "external_rw")
    BY <1>3, <2>1, <2>5 DEF Mapping
  <2>6. CASE \E k \in Kinds : \E u \in r.user[k] : m = UserMapping(k, u)
    <3>1. PICK k \in Kinds : \E u \in r.user[k] : m = UserMapping(k, u)
      BY <2>6
    <3>2. PICK u \in r.user[k] : m = UserMapping(k, u)
      BY <3>1
    <3>3. External(n) /\ Len(n) > 3 /\ n[3] = k /\ n[4] = u
      BY <1>5, <1>6, <2>1, <3>2, FixedMappings
    <3>4. QED
      BY <3>2, <3>3 DEF UserArea
  <2>7. QED
    BY <1>8, <2>1, <2>2, <2>3, <2>4, <2>5, <2>6
<1>10. WorkspaceMapping \in ForSandbox(r, n)
  BY <1>1, FixedMappings DEF ForSandbox, Mappings
<1>11. External(n) /\ n[3] = "persistent" => PersistentMapping \in ForSandbox(r, n)
  BY <1>4, FixedMappings DEF ForSandbox, Mappings
<1>12. ASSUME UserArea(n), n[4] \in r.user[n[3]] PROVE UserMapping(n[3], n[4]) \in ForSandbox(r, n)
  <2>1. n[3] \in Kinds /\ External(n) /\ Len(n) > 3
    BY <1>12 DEF UserArea
  <2>2. IsPrefix(<<"workspace", "external", n[3], n[4]>>, n)
    BY <1>5, <1>6, <1>12, <2>1
  <2>3. UserMapping(n[3], n[4]) \in Mappings(r)
    BY <1>8, <1>12, <2>1 DEF Mappings
  <2>4. QED
    BY <2>2, <2>3, FixedMappings DEF ForSandbox
<1>13. QED
  BY <1>9, <1>10, <1>11, <1>12

LEMMA LongestOfOne ==
    ASSUME NEW m, Len(m.sandbox) \in Nat
    PROVE  Longest({m}) = m
BY DEF Longest

LEMMA LongestOfTwo ==
    ASSUME NEW m, NEW o, Len(m.sandbox) \in Nat, Len(o.sandbox) \in Nat, Len(m.sandbox) < Len(o.sandbox)
    PROVE  Longest({m, o}) = o
<1>1. \A x \in {m, o} : (\A y \in {m, o} : Len(y.sandbox) <= Len(x.sandbox)) <=> x = o
  OBVIOUS
<1>2. QED
  BY <1>1 DEF Longest

LEMMA MappingLengths ==
    /\ Len(WorkspaceMapping.sandbox) = 1 /\ Len(PersistentMapping.sandbox) = 3
    /\ \A k, m : Len(UserMapping(k, m).sandbox) = 4
<1>1. /\ Len(<<"workspace">>) = 1 /\ Len(<<"workspace", "external", "persistent">>) = 3
      /\ \A k, m : Len(<<"workspace", "external", k, m>>) = 4
  OBVIOUS
<1>2. QED
  BY <1>1, FixedMappings

LEMMA OfTwoMappings ==
    /\ Longest({WorkspaceMapping, PersistentMapping}) = PersistentMapping
    /\ \A k, m : Longest({WorkspaceMapping, UserMapping(k, m)}) = UserMapping(k, m)
<1>1. PICK w : w = WorkspaceMapping
  OBVIOUS
<1>2. Len(w.sandbox) = 1
  BY <1>1, MappingLengths
<1>3. ASSUME NEW u, Len(u.sandbox) \in {3, 4} PROVE Longest({w, u}) = u
  <2>1. \A i, j : i = 1 /\ j \in {3, 4} => i \in Nat /\ j \in Nat /\ i < j
    OBVIOUS
  <2>2. Len(w.sandbox) \in Nat /\ Len(u.sandbox) \in Nat /\ Len(w.sandbox) < Len(u.sandbox)
    BY <1>2, <1>3, <2>1, Zenon
  <2>3. QED
    BY <2>2, LongestOfTwo
<1>4. Longest({w, PersistentMapping}) = PersistentMapping
  <2>1. PICK u : u = PersistentMapping
    OBVIOUS
  <2>2. Len(u.sandbox) = 3
    BY <2>1, MappingLengths
  <2>3. QED
    BY <1>3, <2>1, <2>2
<1>5. ASSUME NEW k, NEW m PROVE Longest({w, UserMapping(k, m)}) = UserMapping(k, m)
  <2>1. PICK u : u = UserMapping(k, m)
    OBVIOUS
  <2>2. Len(u.sandbox) = 4
    BY <2>1, MappingLengths
  <2>3. QED
    BY <1>3, <2>1, <2>2
<1>6. QED
  BY <1>1, <1>4, <1>5

\* Where a path below /workspace is in the container.
LEMMA DockerPlace ==
    ASSUME NEW r, UsersMounts(r), NEW n \in AnyPath, Len(n) \in Nat \ {0}, n[1] = "workspace"
    PROVE  /\ External(n) /\ n[3] \in {"ro", "rw"} => ToDocker(r, n) = Base(n[3]) \o Drop(n, 3)
           /\ External(n) /\ n[3] = "persistent" => ToDocker(r, n) = Persistent \o Drop(n, 3)
           /\ UserArea(n) /\ n[4] \in r.user[n[3]] =>
                ToDocker(r, n) = (Base(n[3]) \o <<n[4]>>) \o Drop(n, 4)
           /\ ~(External(n) /\ n[3] \in {"ro", "rw", "persistent"}) /\ ~UserArea(n) =>
                ToDocker(r, n) = WorkspaceDir \o Drop(n, 1)
<1>1. CASE External(n) /\ n[3] \in {"ro", "rw"}
  <2>1. ~UserArea(n)
    BY <1>1 DEF UserArea, Kinds
  <2>2. ToDocker(r, n) = Base(n[3]) \o Drop(n, 3)
    BY <1>1, <2>1 DEF ToDocker
  <2>3. QED
    BY <1>1, <2>1, <2>2
<1>2. CASE External(n) /\ n[3] = "persistent"
  <2>1. ~UserArea(n)
    BY <1>2 DEF UserArea, Kinds
  <2>2. \A m : m \in ForSandbox(r, n) <=> m \in {WorkspaceMapping, PersistentMapping}
    BY <1>2, <2>1, SandboxMappings
  <2>3. ForSandbox(r, n) = {WorkspaceMapping, PersistentMapping}
    BY <2>2
  <2>4. Longest(ForSandbox(r, n)) = PersistentMapping
    <3>1. Longest({WorkspaceMapping, PersistentMapping}) = PersistentMapping
      BY OfTwoMappings
    <3>2. QED
      BY <2>3, <3>1
  <2>5. ToDocker(r, n) = Persistent \o Drop(n, 3)
    BY <1>2, <2>1, <2>3, <2>4, FixedMappings, MappingLengths DEF ToDocker
  <2>6. QED
    BY <1>2, <2>1, <2>5
<1>3. CASE UserArea(n) /\ n[4] \in r.user[n[3]]
  <2>1. n[3] # "persistent" /\ n[3] \notin {"ro", "rw"} /\ External(n)
    BY <1>3 DEF UserArea, Kinds
  <2>2. \A m : m \in ForSandbox(r, n) <=> m \in {WorkspaceMapping, UserMapping(n[3], n[4])}
    BY <1>3, <2>1, SandboxMappings
  <2>3. ForSandbox(r, n) = {WorkspaceMapping, UserMapping(n[3], n[4])}
    BY <2>2
  <2>4. Longest(ForSandbox(r, n)) = UserMapping(n[3], n[4])
    <3>1. Longest({WorkspaceMapping, UserMapping(n[3], n[4])}) = UserMapping(n[3], n[4])
      BY OfTwoMappings
    <3>2. QED
      BY <2>3, <3>1
  <2>5. ToDocker(r, n) = (Base(n[3]) \o <<n[4]>>) \o Drop(n, 4)
    <3>1. PICK u : u = UserMapping(n[3], n[4])
      OBVIOUS
    <3>2. u.docker = Base(n[3]) \o <<n[4]>> /\ Len(u.sandbox) = 4
      BY <3>1, FixedMappings, MappingLengths
    <3>3. ForSandbox(r, n) # {} /\ Longest(ForSandbox(r, n)) = u
      BY <2>3, <2>4, <3>1
    <3>4. ToDocker(r, n) = u.docker \o Drop(n, Len(u.sandbox))
      BY <1>3, <2>1, <3>3 DEF ToDocker
    <3>5. QED
      BY <3>2, <3>4
  <2>6. QED
    BY <1>3, <2>1, <2>5
<1>4. CASE ~(External(n) /\ n[3] \in {"ro", "rw", "persistent"}) /\ ~UserArea(n)
  <2>1. \A m : m \in ForSandbox(r, n) <=> m = WorkspaceMapping
    BY <1>4, SandboxMappings
  <2>2. ForSandbox(r, n) = {WorkspaceMapping}
    BY <2>1
  <2>3. Longest(ForSandbox(r, n)) = WorkspaceMapping
    BY <2>2, LongestOfOne, MappingLengths
  <2>4. ToDocker(r, n) = WorkspaceDir \o Drop(n, 1)
    BY <1>4, <2>2, <2>3, FixedMappings, MappingLengths DEF ToDocker
  <2>5. QED
    BY <1>4, <2>4
<1>5. QED
  BY <1>1, <1>2, <1>3, <1>4

\* The validator starts from the directory that the resolver names.
LEMMA SameStart ==
    ASSUME NEW p \in Paths, Plain(p), NEW r, UsersMounts(r), r.user = validator.user
    PROVE  ToDocker(r, Normalize(p)) = StartOf(validator, p).root \o StartOf(validator, p).rest
<1> DEFINE n == Spelt(p)
<1>1. /\ n \in AnyPath /\ Len(n) \in Nat \ {0} /\ n[1] = "workspace" /\ Normalize(p) = n
      /\ n # <<>> /\ Tail(n) = Drop(n, 1)
  <2>1. n \in AnyPath /\ Len(n) \in Nat \ {0} /\ n[1] = "workspace" /\ Normalize(p) = n
    BY SpeltIs, NormalizedPlain DEF Plain, Direct
  <2>2. n # <<>>
    BY <2>1
  <2>3. QED
    BY <2>1, <2>2, TailIs
<1>2. External(n) => /\ Len(n) > 3 /\ (n[3] \in {"ro", "rw"} => validator.base[n[3]])
                     /\ (n[3] \in Kinds => n[4] \in validator.user[n[3]])
  BY DEF Plain, Direct
<1>3. CASE ~External(n)
  <2>1. StartOf(validator, p).root = WorkspaceDir /\ StartOf(validator, p).rest = Drop(n, 1)
    BY <1>1, <1>3 DEF StartOf, Root
  <2>2. ~UserArea(n)
    BY <1>3 DEF UserArea
  <2>3. QED
    BY <1>1, <1>3, <2>1, <2>2, DockerPlace
<1>4. CASE External(n) /\ n[3] \in {"ro", "rw"}
  <2>1. StartOf(validator, p).root = Base(n[3]) /\ StartOf(validator, p).rest = Drop(n, 3)
    BY <1>2, <1>4 DEF StartOf, Root, Kinds
  <2>2. QED
    BY <1>1, <1>4, <2>1, DockerPlace
<1>5. CASE External(n) /\ n[3] = "persistent"
  <2>1. StartOf(validator, p).root = Persistent /\ StartOf(validator, p).rest = Drop(n, 3)
    BY <1>2, <1>5 DEF StartOf, Root, Kinds
  <2>2. QED
    BY <1>1, <1>5, <2>1, DockerPlace
<1>6. CASE External(n) /\ n[3] \in Kinds
  <2>1. UserArea(n) /\ n[4] \in r.user[n[3]] /\ n[4] \in validator.user[n[3]]
    BY <1>2, <1>6 DEF UserArea
  <2>2. StartOf(validator, p).root = Base(n[3]) \o <<n[4]>> /\ StartOf(validator, p).rest = Drop(n, 4)
    BY <1>2, <1>6, <2>1 DEF StartOf, UserStart, Root, Kinds
  <2>3. QED
    BY <1>1, <1>6, <2>1, <2>2, DockerPlace
<1>7. CASE External(n) /\ n[3] \notin {"ro", "rw", "persistent"} \union Kinds
  <2>1. StartOf(validator, p).root = WorkspaceDir /\ StartOf(validator, p).rest = Drop(n, 1)
    BY <1>1, <1>2, <1>7 DEF StartOf, Root, Kinds
  <2>2. ~UserArea(n)
    BY <1>7 DEF UserArea
  <2>3. QED
    BY <1>1, <1>7, <2>1, <2>2, DockerPlace
<1>8. QED
  BY <1>3, <1>4, <1>5, <1>6, <1>7

-----------------------------------------------------------------------------
(* The life of the registries                                              *)

\* The links of the mounts are below external, those of the skills in a directory of
\* their own, the agent's is next to them, and none leads to a place below another.
LinkPlace(d) == d \in AnyPath /\ (d = Own \/ IsPrefix(ExternalDir, d) \/ (IsPrefix(SkillsDir, d) /\ Len(d) = 8))
LinkTarget(t) ==
    t \in Seq(PathNames) /\ ~IsPrefix(Own, t) /\ ~IsPrefix(ExternalDir, t) /\ ~IsStrictPrefix(SkillsDir, t)

LinksAreOurs == \A d \in DOMAIN symlinks : LinkPlace(d) /\ LinkTarget(symlinks[d])

\* A run has both registered, with the mounts of one reading.
RunIsConfigured ==
    session = "running" =>
        /\ resolver.set /\ validator.set
        /\ resolver.user = validator.user
        /\ validator.base \in [{"ro", "rw"} -> BOOLEAN]

PathInv == PathTypeOK /\ bases \in [{"ro", "rw"} -> BOOLEAN] /\ LinksAreOurs /\ RunIsConfigured

LEMMA ReadMounts ==
    ASSUME PathTypeOK, NEW user \in UserMounts
    PROVE  user \in [Kinds -> SUBSET Mounts]
<1>1. allowed \in [Kinds -> SUBSET Mounts]
  BY DEF PathTypeOK
<1>2. AllowedMounts \in [Kinds -> SUBSET Mounts] /\ NoMounts \in [Kinds -> SUBSET Mounts]
  BY <1>1 DEF AllowedMounts, NoMounts
<1>3. QED
  BY <1>2 DEF UserMounts

SkillPlace(d, n) == d \in AnyPath /\ IsPrefix(SkillsDir, d) /\ Len(d) = 8 /\ d[8] = n

LEMMA SkillPlaceIs ==
    ASSUME NEW n \in AnyName
    PROVE  SkillPlace(SkillsDir \o <<n>>, n)
<1>1. PICK s \in AnyPath : s = SkillsDir /\ Len(s) = 7
  BY FixedPaths
<1>2. PICK d : d = s \o <<n>>
  OBVIOUS
<1>3. d \in AnyPath /\ Len(d) = 8 /\ d[8] = n /\ \A i \in 1 .. Len(s) : s[i] = d[i]
  <2>1. /\ s \o <<n>> \in AnyPath /\ Len(s \o <<n>>) = Len(s) + 1 /\ (s \o <<n>>)[Len(s) + 1] = n
        /\ \A i \in 1 .. Len(s) : (s \o <<n>>)[i] = s[i]
    BY OneMore
  <2>2. QED
    BY <1>1, <1>2, <2>1
<1>4. IsPrefix(s, d)
  <2>1. Len(s) <= Len(d)
    BY <1>1, <1>3
  <2>2. QED
    BY <1>3, <2>1, PrefixIs
<1>5. QED
  BY <1>1, <1>2, <1>3, <1>4 DEF SkillPlace

LEMMA SkillDirIs ==
    ASSUME NEW n \in PathNames, NEW owner
    PROVE  /\ SkillDir(owner, n) \in Seq(PathNames) /\ SkillDir(owner, n) # <<>>
           /\ SkillDir(owner, n)[1] = IF owner = "user" THEN "user-skills" ELSE "skills"
<1>1. /\ UserSkills \in Seq(PathNames) /\ Len(UserSkills) = 1 /\ UserSkills[1] = "user-skills"
      /\ GlobalSkills \in Seq(PathNames) /\ Len(GlobalSkills) = 3 /\ GlobalSkills[1] = "skills"
  <2>1. {"user-skills", "skills", ".claude"} \subseteq PathNames
    BY CodeNamesAreNames DEF CodeNames
  <2>2. UserSkills \in Seq(PathNames) /\ GlobalSkills \in Seq(PathNames)
    BY <2>1 DEF UserSkills, GlobalSkills
  <2>3. Len(UserSkills) = 1 /\ UserSkills[1] = "user-skills"
    BY DEF UserSkills
  <2>4. Len(GlobalSkills) = 3 /\ GlobalSkills[1] = "skills"
    BY DEF GlobalSkills
  <2>5. QED
    BY <2>2, <2>3, <2>4
<1>2. PICK s \in Seq(PathNames) : s = (IF owner = "user" THEN UserSkills ELSE GlobalSkills)
  BY <1>1
<1>3. Len(s) \in Nat \ {0} /\ s[1] = (IF owner = "user" THEN "user-skills" ELSE "skills")
  <2>1. CASE owner = "user"
    <3>1. s = UserSkills
      BY <1>2, <2>1
    <3>2. Len(s) = 1 /\ s[1] = "user-skills"
      BY <1>1, <3>1, Zenon
    <3>3. QED
      BY <2>1, <3>2
  <2>2. CASE owner # "user"
    <3>1. s = GlobalSkills
      BY <1>2, <2>2
    <3>2. Len(s) = 3 /\ s[1] = "skills"
      BY <1>1, <3>1, Zenon
    <3>3. QED
      BY <2>2, <3>2
  <2>3. QED
    BY <2>1, <2>2
<1>p. PICK u : u = <<n>>
  OBVIOUS
<1>4. PICK t \in Seq(PathNames) : t = <<n>>
  <2>1. u \in Seq(PathNames)
    BY <1>p
  <2>2. QED
    BY <1>p, <2>1
<1>5. s \o t \in Seq(PathNames) /\ Len(s \o t) = Len(s) + Len(t) /\ \A i \in 1 .. Len(s) : (s \o t)[i] = s[i]
  OBVIOUS
<1>6. (s \o t)[1] = s[1] /\ s \o t # <<>>
  <2>1. Len(t) \in Nat /\ 1 \in 1 .. Len(s)
    BY <1>3
  <2>2. Len(s \o t) # 0
    BY <1>3, <1>5, <2>1
  <2>3. QED
    BY <1>5, <2>1, <2>2
<1>7. SkillDir(owner, n) = s \o t
  BY <1>2, <1>4 DEF SkillDir
<1>8. QED
  BY <1>3, <1>5, <1>6, <1>7

\* What is not in a session is below none of the places of its links.
LEMMA NotInSession ==
    ASSUME NEW t \in Seq(PathNames), t # <<>>, t[1] # "users" \/ t[3] # "sessions"
    PROVE  ~IsPrefix(Own, t) /\ ~IsPrefix(ExternalDir, t) /\ ~IsPrefix(SkillsDir, t)
<1>1. t \in AnyPath
  BY PlainNames
<1>2. ASSUME NEW s \in AnyPath, Len(s) >= 3, s[1] = "users", s[3] = "sessions"
      PROVE  ~IsPrefix(s, t)
  <2>1. IsPrefix(s, t) => \A i \in 1 .. Len(s) : s[i] = t[i]
    BY <1>1, PrefixIs
  <2>2. Len(s) \in Nat
    BY DEF AnyPath
  <2>3. 1 \in 1 .. Len(s) /\ 3 \in 1 .. Len(s)
    BY <1>2, <2>2
  <2>4. IsPrefix(s, t) => t[1] = s[1] /\ t[3] = s[3]
    BY <2>1, <2>3
  <2>5. QED
    BY <1>2, <2>4
<1>3. /\ Own[1] = "users" /\ Own[3] = "sessions"
      /\ ExternalDir[1] = "users" /\ ExternalDir[3] = "sessions"
      /\ SkillsDir[1] = "users" /\ SkillsDir[3] = "sessions"
      /\ Len(Own) >= 3 /\ Len(ExternalDir) >= 3 /\ Len(SkillsDir) >= 3
  BY FixedPaths
<1>4. QED
  BY <1>2, <1>3, FixedPaths

LEMMA LinksOfMounts ==
    ASSUME PathTypeOK, NEW user \in [Kinds -> SUBSET Mounts], NEW d \in DOMAIN LinksFor(user)
    PROVE  LinkPlace(d) /\ LinkTarget(LinksFor(user)[d])
<1> DEFINE there(k) == IF k \in Kinds THEN user[k] \intersect present[k] ELSE IF bases[k] THEN Mounts ELSE {}
           places == UNION {{ExternalDir \o <<k, m>> : m \in there(k)} : k \in {"ro", "rw"} \union Kinds}
<1>1. DOMAIN LinksFor(user) = places \union {PersistentLink}
  BY DEF LinksFor
<1>2. LinksFor(user)[d] = IF d = PersistentLink THEN Persistent ELSE Base(d[7]) \o <<d[8]>>
  BY <1>1 DEF LinksFor
<1>3. ASSUME NEW t \in Seq(PathNames), t # <<>>, t[1] = "mounts" \/ t[3] = "ag3ntum"
      PROVE  LinkTarget(t)
  <2>1. ~IsPrefix(Own, t) /\ ~IsPrefix(ExternalDir, t) /\ ~IsPrefix(SkillsDir, t)
    BY <1>3, NotInSession
  <2>2. QED
    BY <2>1 DEF LinkTarget, IsStrictPrefix
<1>4. ASSUME NEW t \in AnyPath
      PROVE  ExternalDir \o t \in AnyPath /\ IsPrefix(ExternalDir, ExternalDir \o t)
  <2>1. /\ ExternalDir \o t \in AnyPath /\ Len(ExternalDir \o t) = Len(ExternalDir) + Len(t)
        /\ \A i \in 1 .. Len(ExternalDir) : (ExternalDir \o t)[i] = ExternalDir[i]
    BY FixedPaths, ConcatIs
  <2>2. Len(ExternalDir) <= Len(ExternalDir \o t)
    <3>1. Len(t) \in Nat
      BY DEF AnyPath
    <3>2. QED
      BY <2>1, <3>1, FixedPaths
  <2>3. QED
    BY <2>1, <2>2, FixedPaths, PrefixIs
<1>5. CASE d = PersistentLink
  <2>1. <<"persistent">> \in AnyPath /\ Persistent \in Seq(PathNames)
    BY CodeNamesAreNames, PlainNames DEF CodeNames, AnyPath, Persistent
  <2>2. d \in AnyPath /\ IsPrefix(ExternalDir, d)
    BY <1>4, <1>5, <2>1 DEF PersistentLink
  <2>3. Persistent # <<>> /\ Len(Persistent) = 4 /\ Persistent[3] = "ag3ntum"
    BY DEF Persistent
  <2>4. LinkTarget(Persistent)
    BY <1>3, <2>1, <2>3
  <2>5. QED
    BY <1>2, <1>5, <2>2, <2>4 DEF LinkPlace
<1>6. CASE d # PersistentLink
  <2>1. d \in places
    BY <1>1, <1>6
  <2>2. PICK k \in {"ro", "rw"} \union Kinds : d \in {ExternalDir \o <<k, m>> : m \in there(k)}
    BY <2>1
  <2>3. there(k) \subseteq Mounts
    BY <2>2 DEF Kinds
  <2>4. PICK m \in Mounts : d = ExternalDir \o <<k, m>>
    BY <2>2, <2>3
  <2>5. k \in PathNames /\ m \in PathNames /\ "mounts" \in PathNames
    BY <2>2, <2>4, CodeNamesAreNames DEF CodeNames, Kinds
  <2>6. <<k, m>> \in AnyPath /\ Len(<<k, m>>) = 2 /\ <<k, m>>[1] = k /\ <<k, m>>[2] = m
    BY <2>5, PlainNames DEF AnyPath
  <2>7. d \in AnyPath /\ IsPrefix(ExternalDir, d)
    BY <1>4, <2>4, <2>6
  <2>8. d[7] = k /\ d[8] = m
    <3>1. PICK t \in AnyPath : t = <<k, m>>
      BY <2>6
    <3>2. Len(t) = 2 /\ t[1] = k /\ t[2] = m
      BY <2>6, <3>1
    <3>3. \A i \in 1 .. Len(t) : (ExternalDir \o t)[Len(ExternalDir) + i] = t[i]
      BY FixedPaths, ConcatIs
    <3>4. d = ExternalDir \o t
      BY <2>4, <3>1
    <3>5. \A i \in 1 .. 2 : d[6 + i] = t[i]
      BY <3>2, <3>3, <3>4, FixedPaths
    <3>6. d[6 + 1] = t[1] /\ d[6 + 2] = t[2]
      BY <3>5
    <3>7. QED
      BY <3>2, <3>6
  <2>9. /\ Base(k) \o <<m>> \in Seq(PathNames) /\ Base(k) \o <<m>> # <<>>
        /\ (Base(k) \o <<m>>)[1] = "mounts"
    <3>1. Base(k) \in Seq(PathNames) /\ <<m>> \in Seq(PathNames) /\ Len(Base(k)) = 2 /\ Base(k)[1] = "mounts"
      BY <2>5 DEF Base
    <3>2. PICK s \in Seq(PathNames) : s = Base(k)
      BY <3>1
    <3>3. PICK t \in Seq(PathNames) : t = <<m>>
      BY <3>1
    <3>4. s \o t \in Seq(PathNames) /\ (s \o t)[1] = s[1] /\ Len(s \o t) # 0
      <4>1. Len(s) = 2 /\ Len(t) \in Nat
        BY <3>1, <3>2
      <4>2. /\ s \o t \in Seq(PathNames) /\ Len(s \o t) = Len(s) + Len(t)
            /\ \A i \in 1 .. Len(s) : (s \o t)[i] = s[i]
        OBVIOUS
      <4>3. QED
        BY <4>1, <4>2
    <3>5. QED
      BY <3>1, <3>2, <3>3, <3>4
  <2>10. QED
    BY <1>2, <1>3, <1>6, <2>7, <2>8, <2>9 DEF LinkPlace
<1>7. QED
  BY <1>5, <1>6

\* The links of the skills of a run.
LeadsToSkill(d, t) ==
    d \in AnyPath /\ IsPrefix(SkillsDir, d) /\ Len(d) = 8 /\ d[8] \in PathNames /\ \E owner : t = SkillDir(owner, d[8])

LEMMA SkillLinkIsOurs ==
    ASSUME NEW d, NEW t, LeadsToSkill(d, t)
    PROVE  LinkPlace(d) /\ LinkTarget(t)
<1>1. LinkPlace(d)
  BY DEF LeadsToSkill, LinkPlace
<1>2. PICK owner : t = SkillDir(owner, d[8])
  BY DEF LeadsToSkill
<1>3. t \in Seq(PathNames) /\ t # <<>> /\ t[1] \in {"skills", "user-skills"}
  BY <1>2, SkillDirIs DEF LeadsToSkill
<1>4. t[1] # "users"
  BY <1>3
<1>5. QED
  BY <1>1, <1>3, <1>4, NotInSession DEF LinkTarget, IsStrictPrefix

LEMMA LinksOfSkills ==
    ASSUME NEW skills \in SkillLinks, NEW to, to = SkillLinked(skills)
    PROVE  /\ DOMAIN WithoutSkills \subseteq DOMAIN to
           /\ \A d \in DOMAIN to : LeadsToSkill(d, to[d]) \/ (d \in DOMAIN symlinks /\ to[d] = symlinks[d])
<1> DEFINE places == {SkillsDir \o <<n>> : n \in DOMAIN skills}
<1>1. DOMAIN skills \subseteq PathNames
  BY SandboxAssumption DEF SandboxAssumption, PathAssumption
<1>2. DOMAIN WithoutSkills \subseteq DOMAIN symlinks
  BY DEF WithoutSkills, Restrict
<1>3. /\ DOMAIN to = DOMAIN WithoutSkills \union places
      /\ \A d \in DOMAIN to : to[d] = IF d \in places THEN SkillDir(skills[d[8]], d[8]) ELSE symlinks[d]
  BY DEF SkillLinked
<1>4. ASSUME NEW d \in DOMAIN to, d \in places PROVE LeadsToSkill(d, to[d])
  <2>1. PICK n \in DOMAIN skills : d = SkillsDir \o <<n>>
    BY <1>4
  <2>2. n \in PathNames /\ n \in AnyName
    BY <1>1, <2>1, PlainNames
  <2>3. SkillPlace(d, n)
    BY <2>1, <2>2, SkillPlaceIs
  <2>4. to[d] = SkillDir(skills[d[8]], d[8])
    BY <1>3, <1>4
  <2>5. QED
    BY <2>2, <2>3, <2>4 DEF SkillPlace, LeadsToSkill
<1>5. ASSUME NEW d \in DOMAIN to, d \notin places PROVE d \in DOMAIN symlinks /\ to[d] = symlinks[d]
  BY <1>2, <1>3, <1>5
<1>6. QED
  BY <1>3, <1>4, <1>5

LEMMA OthersStay ==
    ASSUME NEW d \in DOMAIN WithoutSkills
    PROVE  d \in DOMAIN symlinks /\ WithoutSkills[d] = symlinks[d]
BY DEF WithoutSkills, Restrict

LEMMA PathStarts ==
    ASSUME PathInit, PathAssumption
    PROVE  PathInv
<1>1. DOMAIN symlinks = {}
  BY DEF PathInit
<1>2. LinksAreOurs
  BY <1>1 DEF LinksAreOurs
<1>3. PathTypeOK
  BY DEF PathInit, PathTypeOK
<1>4. QED
  BY <1>2, <1>3 DEF PathInit, PathInv, RunIsConfigured

LEMMA PathStepInv ==
    ASSUME PathInv, PathNext, PathAssumption
    PROVE  PathInv'
<1>1. /\ allowed \in [Kinds -> SUBSET Mounts] /\ present \in [Kinds -> SUBSET Mounts]
      /\ bases \in [{"ro", "rw"} -> BOOLEAN]
      /\ session \in {"new", "idle", "running"}
      /\ resolver = Unconfigured \/ resolver.user \in [Kinds -> SUBSET Mounts]
      /\ validator = Unconfigured \/ validator.user \in [Kinds -> SUBSET Mounts]
  BY DEF PathInv, PathTypeOK
<1>2. ASSUME NEW k \in Kinds, NEW S \in SUBSET Mounts, EditMounts(k, S) PROVE PathInv'
  <2>1. allowed' \in [Kinds -> SUBSET Mounts]
    BY <1>1, <1>2 DEF EditMounts
  <2>2. PathTypeOK'
    BY <1>1, <1>2, <2>1 DEF EditMounts, PathTypeOK
  <2>3. LinksAreOurs' /\ RunIsConfigured'
    BY <1>2 DEF EditMounts, PathInv, LinksAreOurs, RunIsConfigured
  <2>4. QED
    BY <1>1, <1>2, <2>2, <2>3 DEF EditMounts, PathInv
<1>3. CASE CreateSession
  <2>1. PICK user \in UserMounts : symlinks' = LinksFor(user)
    BY <1>3 DEF CreateSession
  <2>2. PathTypeOK /\ user \in [Kinds -> SUBSET Mounts]
    BY <2>1, ReadMounts DEF PathInv
  <2>3. LinksAreOurs'
    <3>1. PICK to : to = LinksFor(user)
      OBVIOUS
    <3>2. \A d \in DOMAIN to : LinkPlace(d) /\ LinkTarget(to[d])
      BY <2>2, <3>1, LinksOfMounts
    <3>3. QED
      BY <2>1, <3>1, <3>2 DEF LinksAreOurs
  <2>4. PathTypeOK' /\ RunIsConfigured'
    BY <1>1, <1>3 DEF CreateSession, PathTypeOK, RunIsConfigured
  <2>5. QED
    BY <1>1, <1>3, <2>3, <2>4 DEF CreateSession, PathInv
<1>4. CASE Configure
  <2>1. PICK user \in UserMounts : ConfigureValidator(user)
    BY <1>4 DEF Configure
  <2>2. user \in [Kinds -> SUBSET Mounts]
    BY <2>1, ReadMounts DEF PathInv
  <2>3. /\ resolver' = [set |-> TRUE, user |-> user]
        /\ validator' = [set |-> TRUE, user |-> user, base |-> bases]
    BY <2>1 DEF ConfigureValidator, ResolverFor
  <2>4. RunIsConfigured'
    BY <1>1, <2>3 DEF RunIsConfigured
  <2>5. PathTypeOK'
    BY <1>1, <1>4, <2>2, <2>3 DEF Configure, PathTypeOK
  <2>6. LinksAreOurs'
    <3>1. PICK to \in {symlinks} \union {SkillLinked(skills) : skills \in SkillLinks} : symlinks' = to
      BY <1>4 DEF Configure
    <3>2. \A d \in DOMAIN to : LinkPlace(d) /\ LinkTarget(to[d])
      <4>1. CASE to = symlinks
        BY <4>1 DEF PathInv, LinksAreOurs
      <4>2. CASE \E skills \in SkillLinks : to = SkillLinked(skills)
        <5>1. PICK skills \in SkillLinks : to = SkillLinked(skills)
          BY <4>2
        <5>2. \A d \in DOMAIN to : LeadsToSkill(d, to[d]) \/ (d \in DOMAIN symlinks /\ to[d] = symlinks[d])
          BY <5>1, LinksOfSkills
        <5>3. QED
          BY <5>2, SkillLinkIsOurs DEF PathInv, LinksAreOurs
      <4>3. QED
        BY <3>1, <4>1, <4>2
    <3>3. QED
      BY <3>1, <3>2 DEF LinksAreOurs
  <2>7. QED
    BY <1>1, <1>4, <2>4, <2>5, <2>6 DEF Configure, PathInv
<1>5. CASE Cleanup
  <2>1. symlinks' = symlinks \/ symlinks' = WithoutSkills
    BY <1>5 DEF Cleanup
  <2>2. LinksAreOurs'
    BY <2>1, OthersStay DEF PathInv, LinksAreOurs
  <2>3. QED
    BY <1>1, <1>5, <2>2 DEF Cleanup, PathInv, PathTypeOK, RunIsConfigured
<1>6. CASE CancelSession
  BY <1>1, <1>6 DEF CancelSession, PathInv, PathTypeOK, LinksAreOurs, RunIsConfigured
<1>7. CASE FileRequest
  <2>1. session # "running"
    BY <1>7 DEF FileRequest, PathInv, RunIsConfigured, Unconfigured
  <2>2. resolver' = [set |-> TRUE, user |-> NoMounts] /\ NoMounts \in [Kinds -> SUBSET Mounts]
    BY <1>7 DEF FileRequest, ResolverFor, NoMounts
  <2>3. PathTypeOK'
    BY <1>1, <1>7, <2>2 DEF FileRequest, PathTypeOK
  <2>4. QED
    BY <1>1, <1>7, <2>1, <2>3 DEF FileRequest, PathInv, LinksAreOurs, RunIsConfigured
<1>8. CASE Restart
  BY <1>1, <1>8 DEF Restart, PathInv, PathTypeOK, LinksAreOurs, RunIsConfigured
<1>9. ASSUME NEW t \in LinkTargets, AgentLinks(t) PROVE PathInv'
  <2>1. LinkTarget(t) /\ LinkPlace(Own)
    BY FixedPaths DEF PathAssumption, LinkTarget, LinkPlace
  <2>2. LinksAreOurs'
    BY <1>9, <2>1 DEF AgentLinks, PathInv, LinksAreOurs
  <2>3. PathTypeOK' /\ RunIsConfigured'
    BY <1>9 DEF AgentLinks, PathInv, PathTypeOK, RunIsConfigured
  <2>4. QED
    BY <1>1, <1>9, <2>2, <2>3 DEF AgentLinks, PathInv
<1>10. QED
  BY <1>2, <1>3, <1>4, <1>5, <1>6, <1>7, <1>8, <1>9 DEF PathNext

-----------------------------------------------------------------------------
(* The shell beside the paths                                              *)

\* What the shell does is a step of the paths, or leaves them.
LEMMA SandboxStep ==
    ASSUME [SandboxNext]_sandboxVars
    PROVE  [PathNext]_pathVars
<1>1. CASE ConfigureRun \/ CancelRun \/ CleanupRun \/ RestartAll
  BY <1>1 DEF ConfigureRun, CancelRun, CleanupRun, RestartAll, PathNext
<1>2. CASE \E k \in Kinds, S \in SUBSET Mounts : EditMounts(k, S) /\ Around
  BY <1>2 DEF PathNext
<1>3. CASE (CreateSession \/ FileRequest) /\ Around
  BY <1>3 DEF PathNext
<1>4. CASE \E t \in LinkTargets : AgentLinks(t) /\ Around
  BY <1>4 DEF PathNext
<1>5. CASE \E c \in Commands, lost \in Unavailable \union {Nothing} : StartCommand(c, lost)
  <2>1. UNCHANGED pathVars
    BY <1>5 DEF StartCommand
  <2>2. QED
    BY <2>1
<1>6. CASE (\E p \in {"main", "loud", "quiet"} : ProcessEnds(p)) \/ AnswerCommand \/ AsyncTimeout \/ LeftEnds
  <2>1. UNCHANGED pathVars
    BY <1>6 DEF ProcessEnds, AnswerCommand, AsyncTimeout, LeftEnds
  <2>2. QED
    BY <2>1
<1>7. CASE UNCHANGED sandboxVars
  BY <1>7 DEF sandboxVars
<1>8. QED
  BY <1>1, <1>2, <1>3, <1>4, <1>5, <1>6, <1>7 DEF SandboxNext

LEMMA PathInvStays ==
    ASSUME PathInv, [PathNext]_pathVars, PathAssumption
    PROVE  PathInv'
<1>1. CASE UNCHANGED pathVars
  BY <1>1 DEF pathVars, PathInv, PathTypeOK, LinksAreOurs, RunIsConfigured
<1>2. QED
  BY <1>1, PathStepInv

LEMMA PathInvHolds == SandboxSpec => []PathInv
<1>1. PathAssumption
  BY SandboxAssumption DEF SandboxAssumption
<1>2. SandboxInit => PathInv
  BY <1>1, PathStarts DEF SandboxInit
<1>3. PathInv /\ [SandboxNext]_sandboxVars => PathInv'
  BY <1>1, SandboxStep, PathInvStays
<1>4. QED
  BY <1>2, <1>3, PTL DEF SandboxSpec

\* The shell runs beside the registries and touches none of them: sandbox.py and
\* the tool that runs a command do, to the paths of a session, what PathSpec allows.
THEOREM SandboxImplementsPaths == SandboxSpec => PathSpec
<1>1. SandboxInit => PathInit
  BY DEF SandboxInit
<1>2. [SandboxNext]_sandboxVars => [PathNext]_pathVars
  BY SandboxStep
<1>3. QED
  BY <1>1, <1>2, PTL DEF SandboxSpec, PathSpec

\* A command whose main process has ended in the sandbox has no other.
EndsWithMain == command # NoCommand /\ command.boxed /\ "main" \notin command.procs => command.procs = {}

LeftInv ==
    /\ command # NoCommand => DOMAIN command = {"boxed", "mounts", "procs"}
    /\ EndsWithMain /\ NothingIsLeft

LEMMA LeftSteps ==
    ASSUME LeftInv, [SandboxNext]_sandboxVars
    PROVE  LeftInv'
<1>1. CASE UNCHANGED <<command, left>>
  BY <1>1 DEF LeftInv, EndsWithMain, NothingIsLeft
<1>2. ASSUME NEW c \in Commands, NEW lost, StartCommand(c, lost) PROVE LeftInv'
  <2>1. /\ command' = [boxed |-> boxMounts # Unboxed, mounts |-> Bound(boxMounts, lost),
                       procs |-> {"main"} \union c.background]
        /\ UNCHANGED left
    BY <1>2 DEF StartCommand
  <2>2. DOMAIN command' = {"boxed", "mounts", "procs"} /\ "main" \in command'.procs
    BY <2>1
  <2>3. QED
    BY <2>1, <2>2 DEF LeftInv, EndsWithMain, NothingIsLeft
<1>3. ASSUME NEW p, ProcessEnds(p) PROVE LeftInv'
  <2>1. /\ command' = [command EXCEPT !.procs = Survivors(command.boxed, @, p)]
        /\ p \in command.procs /\ UNCHANGED left
    BY <1>3 DEF ProcessEnds
  <2>2. command # NoCommand
    BY <2>1 DEF NoCommand
  <2>3. /\ DOMAIN command' = {"boxed", "mounts", "procs"} /\ command'.boxed = command.boxed
        /\ command'.procs = Survivors(command.boxed, command.procs, p)
    BY <2>1, <2>2 DEF LeftInv
  <2>4. ASSUME command.boxed, "main" \notin command'.procs PROVE command'.procs = {}
    <3>1. CASE p = "main"
      BY <2>3, <2>4, <3>1 DEF Survivors
    <3>2. CASE p # "main"
      <4>1. command'.procs = command.procs \ {p}
        BY <2>3, <3>2 DEF Survivors
      <4>2. "main" \notin command.procs
        BY <2>4, <3>2, <4>1
      <4>3. command.procs = {}
        BY <2>2, <2>4, <4>2 DEF LeftInv, EndsWithMain
      <4>4. QED
        BY <4>1, <4>3
    <3>3. QED
      BY <3>1, <3>2
  <2>5. QED
    BY <2>1, <2>3, <2>4 DEF LeftInv, EndsWithMain, NothingIsLeft
<1>4. CASE AnswerCommand
  <2>1. /\ command # NoCommand /\ command.procs \subseteq {"quiet"} /\ command' = NoCommand
        /\ left' = IF command.procs = {} THEN left ELSE [boxed |-> command.boxed, how |-> "answered"]
    BY <1>4 DEF AnswerCommand, Leave
  <2>2. CASE command.procs = {}
    BY <2>1, <2>2 DEF LeftInv, EndsWithMain, NothingIsLeft
  <2>3. CASE command.procs # {}
    <3>1. left' = [boxed |-> command.boxed, how |-> "answered"]
      BY <2>1, <2>3
    <3>2. "main" \notin command.procs
      BY <2>1
    <3>3. ~command.boxed
      BY <2>1, <2>3, <3>2 DEF LeftInv, EndsWithMain
    <3>4. left'.boxed = command.boxed
      BY <3>1
    <3>5. QED
      BY <2>1, <3>3, <3>4 DEF LeftInv, EndsWithMain, NothingIsLeft
  <2>4. QED
    BY <2>2, <2>3
<1>5. CASE AsyncTimeout \/ CancelRun
  <2>1. PICK how \in {"timeout", "cancelled"} : Leave(how)
    BY <1>5 DEF AsyncTimeout, CancelRun
  <2>2. /\ command' = NoCommand
        /\ left' = left \/ left' = [boxed |-> command.boxed, how |-> how]
    BY <2>1 DEF Leave
  <2>3. left' = [boxed |-> command.boxed, how |-> how] => left'.how # "answered"
    BY <2>1
  <2>4. QED
    BY <2>2, <2>3 DEF LeftInv, EndsWithMain, NothingIsLeft
<1>6. CASE LeftEnds
  <2>1. left' = NothingLeft /\ UNCHANGED command
    BY <1>6 DEF LeftEnds
  <2>2. QED
    BY <2>1 DEF LeftInv, EndsWithMain, NothingIsLeft
<1>7. CASE CleanupRun \/ RestartAll
  <2>1. command' = NoCommand \/ UNCHANGED command
    BY <1>7 DEF CleanupRun, RestartAll
  <2>2. left' = left \/ left' = NothingLeft
    BY <1>7 DEF CleanupRun, RestartAll
  <2>3. QED
    BY <2>1, <2>2 DEF LeftInv, EndsWithMain, NothingIsLeft
<1>8. CASE ConfigureRun
  BY <1>1, <1>8 DEF ConfigureRun
<1>9. CASE \/ \E k \in Kinds, S \in SUBSET Mounts : EditMounts(k, S) /\ Around
           \/ (CreateSession \/ FileRequest) /\ Around
           \/ \E t \in LinkTargets : AgentLinks(t) /\ Around
  BY <1>1, <1>9 DEF Around
<1>10. CASE UNCHANGED sandboxVars
  BY <1>1, <1>10 DEF sandboxVars
<1>11. QED
  BY <1>2, <1>3, <1>4, <1>5, <1>6, <1>7, <1>8, <1>9, <1>10 DEF SandboxNext

\* A command that the tool has answered for leaves no process of its sandbox, what it
\* ran in the background included, with or without its output: only one whose tool ran
\* into its time limit, or was cancelled, may.
THEOREM NothingOfACommandIsLeft == SandboxSpec => []NothingIsLeft
<1>1. SandboxInit => LeftInv
  BY DEF SandboxInit, LeftInv, EndsWithMain, NothingIsLeft
<1>2. LeftInv /\ [SandboxNext]_sandboxVars => LeftInv'
  BY LeftSteps
<1>3. LeftInv => NothingIsLeft
  BY DEF LeftInv
<1>4. QED
  BY <1>1, <1>2, <1>3, PTL DEF SandboxSpec

\* While the agent runs, its tools and the file explorer mean the same file by the
\* same path: validate_path and SandboxPathResolver work on the mounts of one reading.
THEOREM ToolsAndExplorerAgree == SandboxSpec => []SameFile
<1>1. ASSUME PathInv PROVE SameFile
  <2> SUFFICES ASSUME session = "running", NEW p \in Paths, Plain(p), Validate(validator, p, FALSE) # Refused
               PROVE  Resolve(ToDocker(resolver, Normalize(p))) = Validate(validator, p, FALSE)
    BY DEF SameFile
  <2>1. /\ resolver.user = validator.user /\ resolver.set
        /\ resolver.user \in [Kinds -> SUBSET Mounts]
    BY <1>1 DEF PathInv, RunIsConfigured, PathTypeOK, Unconfigured
  <2>2. UsersMounts(resolver)
    BY <2>1 DEF UsersMounts
  <2>3. ToDocker(resolver, Normalize(p)) = StartOf(validator, p).root \o StartOf(validator, p).rest
    BY <2>1, <2>2, SameStart
  <2>4. /\ Validate(validator, p, FALSE) = NormalizePath(validator, p)
        /\ NormalizePath(validator, p) # Refused
    BY DEF Validate
  <2>5. NormalizePath(validator, p) = Resolve(StartOf(validator, p).root \o StartOf(validator, p).rest)
    BY <2>4 DEF NormalizePath
  <2>6. QED
    BY <2>3, <2>4, <2>5
<1>2. QED
  BY <1>1, PathInvHolds, PTL

-----------------------------------------------------------------------------
(* What is read-only for one                                               *)

\* The mappings of the sandbox that begin elsewhere than in the workspace.
LEMMA OtherMappings ==
    ASSUME NEW r, UsersMounts(r), NEW n \in AnyPath, Len(n) \in Nat \ {0}, NEW m \in ForSandbox(r, n)
    PROVE  \/ n[1] = "workspace"
           \/ n[1] \in {"venv", "skills", "user-skills"}
           \/ /\ Len(n) > 1 /\ n[1] = "mounts" /\ n[2] = "ro"
           \/ /\ Len(n) > 1 /\ n[1] = "mounts" /\ n[2] = "rw"
              /\ m = Mapping(Base("rw"), Base("rw"), "rw", "external_rw")
<1>1. m \in Mappings(r) /\ IsPrefix(m.sandbox, n)
  BY DEF ForSandbox
<1>2. ASSUME NEW s \in AnyPath, IsPrefix(s, n), Len(s) > 0 PROVE s[1] = n[1] /\ (Len(s) > 1 => Len(n) > 1 /\ s[2] = n[2])
  <2>1. Len(s) \in Nat /\ Len(n) \in Nat /\ Len(s) <= Len(n) /\ \A i \in 1 .. Len(s) : s[i] = n[i]
    BY <1>2, PrefixIs DEF AnyPath
  <2>2. QED
    BY <1>2, <2>1
<1>3. CASE m = WorkspaceMapping
  <2>1. <<"workspace">>[1] = n[1]
    BY <1>1, <1>2, <1>3, FixedMappings, SandboxPlaces
  <2>2. QED
    BY <2>1
<1>4. CASE m = PersistentMapping
  <2>1. <<"workspace", "external", "persistent">>[1] = n[1]
    BY <1>1, <1>2, <1>4, FixedMappings, SandboxPlaces
  <2>2. QED
    BY <2>1
<1>5. CASE m = Mapping(<<"venv">>, <<"users", "me", "venv">>, "ro", "venv")
  <2>1. m.sandbox = <<"venv">>
    BY <1>5 DEF Mapping
  <2>2. <<"venv">>[1] = n[1]
    BY <1>1, <1>2, <2>1, SandboxPlaces
  <2>3. QED
    BY <2>2
<1>6. CASE m = Mapping(<<"skills">>, <<"skills">>, "ro", "global_skills")
  <2>1. m.sandbox = <<"skills">>
    BY <1>6 DEF Mapping
  <2>2. <<"skills">>[1] = n[1]
    BY <1>1, <1>2, <2>1, SandboxPlaces
  <2>3. QED
    BY <2>2
<1>7. CASE m = Mapping(UserSkills, UserSkills, "ro", "user_skills")
  <2>1. m.sandbox = UserSkills /\ Len(UserSkills) = 1 /\ UserSkills[1] = "user-skills"
    BY <1>7 DEF Mapping, UserSkills
  <2>2. UserSkills[1] = n[1]
    BY <1>1, <1>2, <2>1, SandboxPlaces
  <2>3. QED
    BY <2>1, <2>2
<1>8. ASSUME NEW k \in {"ro", "rw"}, m.sandbox = Base(k)
      PROVE  Len(n) > 1 /\ n[1] = "mounts" /\ n[2] = k
  <2>1. Len(Base(k)) = 2 /\ Base(k)[1] = "mounts" /\ Base(k)[2] = k
    BY DEF Base
  <2>2. PICK s \in AnyPath : s = Base(k)
    BY SandboxPlaces
  <2>3. Len(s) = 2 /\ s[1] = "mounts" /\ s[2] = k /\ IsPrefix(s, n)
    BY <1>1, <1>8, <2>1, <2>2
  <2>4. s[1] = n[1] /\ (Len(s) > 1 => Len(n) > 1 /\ s[2] = n[2])
    BY <1>2, <2>3
  <2>5. QED
    BY <2>3, <2>4
<1>9. CASE m = Mapping(Base("ro"), Base("ro"), "ro", "external_ro")
  BY <1>8, <1>9 DEF Mapping
<1>10. CASE m = Mapping(Base("rw"), Base("rw"), "rw", "external_rw")
  BY <1>8, <1>10 DEF Mapping
<1>11. CASE \E k \in Kinds : \E u \in r.user[k] : m = UserMapping(k, u)
  <2>1. PICK k \in Kinds : \E u \in r.user[k] : m = UserMapping(k, u)
    BY <1>11
  <2>2. PICK u \in r.user[k] : m = UserMapping(k, u)
    BY <2>1
  <2>3. u \in Mounts
    BY <2>2 DEF UsersMounts
  <2>4. PICK s \in AnyPath : s = <<"workspace", "external", k, u>>
    BY <2>1, <2>3, SandboxPlaces
  <2>5. Len(s) = 4 /\ s[1] = "workspace" /\ m.sandbox = s
    BY <2>2, <2>4, FixedMappings
  <2>6. IsPrefix(s, n) /\ Len(s) > 0
    BY <1>1, <2>5
  <2>7. s[1] = n[1]
    BY <1>2, <2>6
  <2>8. QED
    BY <2>5, <2>7
<1>12. QED
  BY <1>1, <1>3, <1>4, <1>5, <1>6, <1>7, <1>9, <1>10, <1>11 DEF Mappings

LEMMA TailDrops ==
    ASSUME NEW s \in AnyPath, s # <<>>
    PROVE  /\ Tail(s) \in AnyPath /\ Len(s) \in Nat \ {0} /\ Len(Tail(s)) = Len(s) - 1
           /\ \A i \in 1 .. Len(s) - 1 : Tail(s)[i] = s[i + 1]
<1>1. Len(s) \in Nat \ {0}
  BY DEF AnyPath
<1>2. 1 \in 0 .. Len(s) /\ Tail(s) = Drop(s, 1)
  BY <1>1, TailIs
<1>3. QED
  BY <1>1, <1>2, DropIs

LEMMA ResolverTyped ==
    ASSUME PathInv, resolver.set
    PROVE  UsersMounts(resolver)
<1>1. resolver.user \in [Kinds -> SUBSET Mounts]
  BY DEF PathInv, PathTypeOK, Unconfigured
<1>2. QED
  BY <1>1 DEF UsersMounts

\* A path that the explorer lists as read-only is not one it deletes.
LEMMA ListedStays ==
    ASSUME PathInv
    PROVE  ListedIsKept
<1> SUFFICES ASSUME resolver.set, NEW p \in Paths, BrowsePath(p) # Refused, ListedReadOnly(BrowsePath(p)),
                    Len(BrowsePath(p)) > 2, ~p.abs => p.parts[1] # "workspace"
             PROVE  ~MayDelete(resolver, p)
  BY DEF ListedIsKept
<1> DEFINE n == BrowsePath(p)
           N == Normalize(p)
<1>1. UsersMounts(resolver)
  BY ResolverTyped
<1>2. p.abs \in BOOLEAN /\ p.parts \in AnyPath /\ p.parts # <<>> /\ Len(p.parts) \in Nat \ {0}
  BY SandboxAssumption DEF SandboxAssumption, PathAssumption, AnyPath, AnyName
<1>3. /\ n = IF p.parts[1] = "workspace" THEN Tail(p.parts) ELSE p.parts
      /\ ~Contains(n, "..")
  BY DEF BrowsePath
<1>4. /\ n \in AnyPath /\ Len(n) \in Nat /\ Len(n) > 2
      /\ \A i \in 1 .. Len(n) : n[i] # ".."
      /\ n[1] = "external" /\ n[2] \in {"ro", "user-ro"}
  <2>1. n \in AnyPath
    BY <1>2, <1>3, TailIs
  <2>2. Len(n) \in Nat /\ \A i \in 1 .. Len(n) : n[i] # ".."
    <3>1. PICK s \in AnyPath : s = n
      BY <2>1
    <3>2. ~\E i \in 1 .. Len(s) : s[i] = ".."
      BY <1>3, <3>1 DEF Contains
    <3>3. Len(s) \in Nat
      BY DEF AnyPath
    <3>4. QED
      BY <3>1, <3>2, <3>3
  <2>3. QED
    BY <2>1, <2>2 DEF ListedReadOnly
<1> HIDE DEF n
<1>5. p.parts \in Seq(PathNames)
  <2>1. \A i \in 1 .. Len(p.parts) : p.parts[i] # ".."
    <3>1. CASE p.parts[1] = "workspace"
      <4>1. n = Tail(p.parts)
        BY <1>3, <3>1
      <4>2. /\ Len(Tail(p.parts)) = Len(p.parts) - 1
            /\ \A i \in 1 .. Len(p.parts) - 1 : Tail(p.parts)[i] = p.parts[i + 1]
        BY <1>2, TailDrops
      <4>3. Len(n) = Len(p.parts) - 1 /\ \A i \in 1 .. Len(p.parts) - 1 : n[i] = p.parts[i + 1]
        BY <4>1, <4>2
      <4>4. ASSUME NEW i \in 1 .. Len(p.parts), i # 1 PROVE p.parts[i] # ".."
        <5>1. i - 1 \in 1 .. Len(p.parts) - 1 /\ (i - 1) + 1 = i
          BY <1>2, <4>4
        <5>2. n[i - 1] = p.parts[(i - 1) + 1]
          BY <4>3, <5>1
        <5>3. QED
          BY <1>4, <4>3, <5>1, <5>2
      <4>5. QED
        BY <3>1, <4>4
    <3>2. CASE p.parts[1] # "workspace"
      BY <1>3, <1>4, <3>2
    <3>3. QED
      BY <3>1, <3>2
  <2>2. \A i \in 1 .. Len(p.parts) : p.parts[i] \in PathNames
    BY <1>2, <2>1 DEF AnyPath, AnyName
  <2>3. SubSeq(p.parts, 1, Len(p.parts)) \in Seq(PathNames)
    BY <1>2, <2>2, SubSeqProperties
  <2>4. QED
    BY <1>2, <2>3, SubSeqFull DEF AnyPath
<1>6. /\ N = Spelt(p) /\ Spelt(p) \in Seq(PathNames)
      /\ ~p.abs => p.parts[1] = "external"
  <2>1. ~p.abs => p.parts[1] = "external"
    BY <1>3, <1>4
  <2>2. CASE p.abs
    BY <1>5, <2>2, LexicalIsItself DEF Normalize, Spelt
  <2>3. CASE ~p.abs
    <3>1. p.parts[1] \notin DOMAIN Hidden
      BY <2>1, <2>3, SandboxAssumption DEF SandboxAssumption, PathAssumption
    <3>2. Stripped(p.parts) = p.parts
      BY <1>2, <1>5, <3>1, StrippedIsItself
    <3>3. <<"workspace">> \in Seq(PathNames)
      BY CodeNamesAreNames DEF CodeNames
    <3>4. <<"workspace">> \o p.parts \in Seq(PathNames)
      BY <1>5, <3>3
    <3>5. Spelt(p) = <<"workspace">> \o p.parts /\ N = Lexical(<<"workspace">> \o p.parts)
      BY <2>3, <3>2 DEF Normalize, Spelt
    <3>6. Lexical(<<"workspace">> \o p.parts) = <<"workspace">> \o p.parts
      BY <3>4, LexicalIsItself
    <3>7. QED
      BY <2>1, <3>4, <3>5, <3>6
  <2>4. QED
    BY <1>2, <2>1, <2>2, <2>3
<1>7. CASE p.abs /\ p.parts[1] # "workspace"
  <2>1. N = n
    BY <1>3, <1>6, <1>7 DEF Spelt
  <2>2. n[1] = "external" /\ n \in AnyPath /\ Len(n) \in Nat \ {0}
    BY <1>4
  <2>3. ~External(n) /\ ~UserArea(n)
    BY <2>2 DEF External, UserArea
  <2>4. ForSandbox(resolver, n) = {}
    BY <1>1, <2>2, OtherMappings
  <2>5. ToDocker(resolver, n) = Refused
    BY <2>3, <2>4 DEF ToDocker
  <2>6. QED
    BY <2>1, <2>5 DEF MayDelete, ResolveFile
<1>8. CASE ~p.abs \/ p.parts[1] = "workspace"
  <2>1. /\ N \in AnyPath /\ Len(N) = Len(n) + 1 /\ N[1] = "workspace"
        /\ \A i \in 1 .. Len(n) : N[i + 1] = n[i]
    <3>1. CASE p.abs
      <4>1. N = p.parts /\ p.parts[1] = "workspace" /\ n = Tail(p.parts)
        BY <1>3, <1>6, <1>8, <3>1 DEF Spelt
      <4>2. /\ Len(Tail(p.parts)) = Len(p.parts) - 1
            /\ \A i \in 1 .. Len(p.parts) - 1 : Tail(p.parts)[i] = p.parts[i + 1]
        BY <1>2, TailDrops
      <4>3. Len(n) = Len(N) - 1 /\ \A i \in 1 .. Len(N) - 1 : n[i] = N[i + 1]
        BY <4>1, <4>2
      <4>4. QED
        BY <1>2, <4>1, <4>3
    <3>2. CASE ~p.abs
      <4>1. N = <<"workspace">> \o n /\ <<"workspace">> \in AnyPath
        BY <1>3, <1>6, <3>2, SandboxPlaces DEF Spelt
      <4>2. PICK w \in AnyPath : w = <<"workspace">>
        BY <4>1
      <4>3. Len(w) = 1 /\ w[1] = "workspace" /\ N = w \o n
        BY <4>1, <4>2
      <4>4. /\ w \o n \in AnyPath /\ Len(w \o n) = Len(w) + Len(n)
            /\ \A i \in 1 .. Len(w) : (w \o n)[i] = w[i]
            /\ \A i \in 1 .. Len(n) : (w \o n)[Len(w) + i] = n[i]
        BY <1>4, ConcatIs
      <4>5. \A i \in 1 .. Len(n) : 1 + i = i + 1
        OBVIOUS
      <4>6. QED
        BY <1>4, <4>3, <4>4, <4>5
    <3>3. QED
      BY <1>2, <3>1, <3>2
  <2>2. N[2] = "external" /\ N[3] \in {"ro", "user-ro"} /\ Len(N) > 3
    <3>1. 1 \in 1 .. Len(n) /\ 2 \in 1 .. Len(n)
      BY <1>4
    <3>2. N[1 + 1] = n[1] /\ N[2 + 1] = n[2]
      BY <2>1, <3>1
    <3>3. QED
      BY <1>4, <2>1, <3>2
  <2>3. MountType(resolver, N) \in {"external_ro", "user-ro"}
    BY <2>1, <2>2 DEF MountType, External, UserArea, Kinds
  <2>4. QED
    BY <2>3 DEF MayDelete, ResolveFile
<1>9. QED
  BY <1>2, <1>7, <1>8

LEMMA OursLeadOn ==
    ASSUME LinksAreOurs
    PROVE  LeadsOn(symlinks)
<1> SUFFICES ASSUME NEW d \in DOMAIN symlinks, NEW i \in 1 .. Len(symlinks[d]), SubSeq(symlinks[d], 1, i) \in DOMAIN symlinks
             PROVE  FALSE
  BY DEF LeadsOn, LinkFree, LinksAreOurs, LinkTarget
<1>1. PICK t : t = symlinks[d]
  OBVIOUS
<1>2. /\ t \in Seq(PathNames) /\ t \in AnyPath /\ Len(t) \in Nat
      /\ ~IsPrefix(Own, t) /\ ~IsPrefix(ExternalDir, t) /\ ~IsStrictPrefix(SkillsDir, t)
  BY <1>1, PlainNames DEF LinksAreOurs, LinkTarget
<1>3. PICK u : u = SubSeq(t, 1, i)
  OBVIOUS
<1>4. u \in AnyPath /\ Len(u) = i /\ i \in Nat /\ i <= Len(t) /\ \A j \in 1 .. i : u[j] = t[j]
  <2>1. i \in 1 .. Len(t) /\ i \in Int /\ 1 \in Int /\ \A j \in 1 .. i : t[j] \in AnyName
    BY <1>1, <1>2 DEF AnyPath
  <2>2. /\ SubSeq(t, 1, i) \in Seq(AnyName) /\ Len(SubSeq(t, 1, i)) = (IF 1 <= i THEN i - 1 + 1 ELSE 0)
        /\ \A j \in 1 .. i - 1 + 1 : SubSeq(t, 1, i)[j] = t[1 + j - 1]
    BY <2>1, SubSeqProperties
  <2>3. QED
    BY <1>2, <1>3, <2>1, <2>2 DEF AnyPath
<1>5. ASSUME NEW s \in AnyPath, IsPrefix(s, u) PROVE IsPrefix(s, t)
  <2>1. Len(s) \in Nat /\ Len(s) <= i /\ \A j \in 1 .. Len(s) : s[j] = u[j]
    BY <1>4, <1>5, PrefixIs DEF AnyPath
  <2>2. Len(s) <= Len(t) /\ \A j \in 1 .. Len(s) : s[j] = t[j]
    BY <1>2, <1>4, <2>1
  <2>3. QED
    BY <1>2, <2>2, PrefixIs
<1>6. u = Own \/ IsPrefix(ExternalDir, u) \/ (IsPrefix(SkillsDir, u) /\ Len(u) = 8)
  BY <1>1, <1>3 DEF LinksAreOurs, LinkPlace
<1>7. CASE u = Own
  <2>1. IsPrefix(u, u)
    <3>1. Len(u) <= Len(u)
      BY <1>4
    <3>2. QED
      BY <1>4, <3>1, PrefixIs
  <2>2. QED
    BY <1>2, <1>5, <1>7, <2>1, FixedPaths
<1>8. CASE IsPrefix(ExternalDir, u)
  BY <1>2, <1>5, <1>8, FixedPaths
<1>9. CASE IsPrefix(SkillsDir, u) /\ Len(u) = 8
  <2>1. IsPrefix(SkillsDir, t)
    BY <1>5, <1>9, FixedPaths
  <2>2. Len(t) >= 8 /\ Len(SkillsDir) = 7
    BY <1>2, <1>4, <1>9, FixedPaths
  <2>3. t # SkillsDir
    BY <1>2, <2>2
  <2>4. QED
    BY <1>2, <2>1, <2>3 DEF IsStrictPrefix
<1>10. QED
  BY <1>6, <1>7, <1>8, <1>9

\* The validator works on paths.
LEMMA StartTyped ==
    ASSUME NEW v, UsersMounts(v), NEW p \in Paths
    PROVE  StartOf(v, p).root \o StartOf(v, p).rest \in AnyPath
<1> DEFINE n == Spelt(p)
<1>1. n \in AnyPath /\ Len(n) \in Nat \ {0} /\ Tail(n) \in AnyPath
  <2>1. n \in AnyPath /\ Len(n) \in Nat \ {0}
    BY SpeltIs
  <2>2. n # <<>>
    BY <2>1
  <2>3. QED
    BY <2>1, <2>2, TailIs
<1>2. Len(n) > 3 => Drop(n, 3) \in AnyPath /\ Drop(n, 4) \in AnyPath
  <2>1. Len(n) > 3 => 3 \in 0 .. Len(n) /\ 4 \in 0 .. Len(n)
    BY <1>1
  <2>2. QED
    BY <1>1, <2>1, DropIs
<1>3. /\ WorkspaceDir \in AnyPath /\ Persistent \in AnyPath /\ Base("ro") \in AnyPath /\ Base("rw") \in AnyPath
      /\ <<>> \in AnyPath
  BY FixedPaths, SandboxPlaces DEF AnyPath
<1>4. \A k \in Kinds, u \in Mounts : Base(k) \o <<u>> \in AnyPath
  <2>1. \A k \in Kinds : Base(k) \in AnyPath
    BY CodeNamesAreNames, FixedPaths DEF CodeNames, AnyName, Kinds
  <2>2. \A u \in Mounts : u \in AnyName
    BY CodeNamesAreNames DEF AnyName
  <2>3. QED
    BY <2>1, <2>2, OneMore
<1>5. ASSUME NEW k \in Kinds, Len(n) > 3
      PROVE  UserStart(v, k, n).root \in AnyPath /\ UserStart(v, k, n).rest \in AnyPath
  <2>1. CASE n[4] \in v.user[k]
    BY <1>2, <1>4, <1>5, <2>1 DEF UserStart, Root, UsersMounts
  <2>2. CASE n[4] \notin v.user[k]
    BY <1>1, <1>3, <2>2 DEF UserStart, Root
  <2>3. QED
    BY <2>1, <2>2
<1>6. StartOf(v, p).root \in AnyPath /\ StartOf(v, p).rest \in AnyPath
  <2>1. CASE External(n) /\ Len(n) > 3 /\ n[3] \in {"ro", "rw"}
    BY <1>2, <1>3, <1>5, <2>1 DEF StartOf, Root, Kinds
  <2>2. CASE External(n) /\ Len(n) > 3 /\ n[3] = "persistent"
    BY <1>2, <1>3, <2>2 DEF StartOf, Root, Kinds
  <2>3. CASE External(n) /\ Len(n) > 3 /\ n[3] \in Kinds
    BY <1>5, <2>3 DEF StartOf, Kinds
  <2>4. CASE External(n) /\ Len(n) > 3 /\ n[3] \notin {"ro", "rw", "persistent"} \union Kinds
    BY <1>1, <1>3, <2>4 DEF StartOf, Root, Kinds
  <2>5. CASE ~(External(n) /\ Len(n) > 3)
    <3>1. \/ StartOf(v, p) = [Root(WorkspaceDir, Tail(n), TRUE) EXCEPT !.bounded = p.abs]
          \/ StartOf(v, p) = Root(<<>>, n, FALSE)
      BY <2>5 DEF StartOf
    <3>2. \/ StartOf(v, p).root = WorkspaceDir /\ StartOf(v, p).rest = Tail(n)
          \/ StartOf(v, p).root = <<>> /\ StartOf(v, p).rest = n
      BY <3>1 DEF Root
    <3>3. QED
      BY <1>1, <1>3, <3>2
  <2>6. QED
    BY <2>1, <2>2, <2>3, <2>4, <2>5
<1>7. QED
  BY <1>6, ConcatIs

\* The directories of the container that are mapped lie in different places.
LEMMA DockerMappings ==
    ASSUME NEW r, UsersMounts(r), NEW d \in AnyPath, NEW m \in ForDocker(r, d)
    PROVE  \/ d[1] = "users" /\ d[3] = "sessions" /\ m = WorkspaceMapping
           \/ d[1] = "users" /\ d[3] = "ag3ntum" /\ m = PersistentMapping
           \/ d[1] = "users" /\ d[3] = "venv"
           \/ d[1] \in {"skills", "user-skills"}
           \/ d[1] = "mounts" /\ d[2] = "ro"
           \/ d[1] = "mounts" /\ d[2] = "rw" /\ m = Mapping(Base("rw"), Base("rw"), "rw", "external_rw")
           \/ d[1] = "mounts" /\ d[2] \in Kinds /\ d[3] \in r.user[d[2]] /\ m = UserMapping(d[2], d[3])
<1>1. m \in Mappings(r) /\ IsPrefix(m.docker, d)
  BY DEF ForDocker
<1>2. ASSUME NEW s \in AnyPath, m.docker = s
      PROVE  \A i \in 1 .. Len(s) : d[i] = s[i]
  BY <1>1, <1>2, PrefixIs
<1>3. CASE m = WorkspaceMapping
  <2>1. \A i \in 1 .. 5 : d[i] = WorkspaceDir[i]
    BY <1>2, <1>3, FixedMappings, FixedPaths
  <2>2. d[1] = WorkspaceDir[1] /\ d[3] = WorkspaceDir[3]
    BY <2>1
  <2>3. QED
    BY <1>3, <2>2, FixedPaths
<1>4. CASE m = PersistentMapping
  <2>1. PICK s \in AnyPath : s = Persistent
    BY FixedPaths
  <2>2. Len(s) = 4 /\ s[1] = "users" /\ s[3] = "ag3ntum"
    BY <2>1 DEF Persistent
  <2>3. d[1] = s[1] /\ d[3] = s[3]
    BY <1>2, <1>4, <2>1, <2>2, FixedMappings
  <2>4. QED
    BY <1>4, <2>2, <2>3
<1>5. CASE m = Mapping(<<"venv">>, <<"users", "me", "venv">>, "ro", "venv")
  <2>1. PICK s \in AnyPath : s = <<"users", "me", "venv">>
    <3>1. CodeNames \subseteq AnyName
      BY CodeNamesAreNames DEF AnyName
    <3>2. <<"users", "me", "venv">> \in AnyPath
      BY <3>1 DEF CodeNames, AnyPath
    <3>3. QED
      BY <3>2
  <2>2. Len(s) = 3 /\ s[1] = "users" /\ s[3] = "venv" /\ m.docker = s
    BY <1>5, <2>1 DEF Mapping
  <2>3. d[1] = s[1] /\ d[3] = s[3]
    BY <1>2, <2>2
  <2>4. QED
    BY <2>2, <2>3
<1>6. CASE m = Mapping(<<"skills">>, <<"skills">>, "ro", "global_skills")
  <2>1. PICK s \in AnyPath : s = <<"skills">>
    BY SandboxPlaces
  <2>2. Len(s) = 1 /\ s[1] = "skills" /\ m.docker = s
    BY <1>6, <2>1 DEF Mapping
  <2>3. d[1] = s[1]
    BY <1>2, <2>2
  <2>4. QED
    BY <2>2, <2>3
<1>7. CASE m = Mapping(UserSkills, UserSkills, "ro", "user_skills")
  <2>1. PICK s \in AnyPath : s = UserSkills
    BY SandboxPlaces
  <2>2. Len(s) = 1 /\ s[1] = "user-skills" /\ m.docker = s
    BY <1>7, <2>1 DEF Mapping, UserSkills
  <2>3. d[1] = s[1]
    BY <1>2, <2>2
  <2>4. QED
    BY <2>2, <2>3
<1>8. ASSUME NEW k \in {"ro", "rw"}, m.docker = Base(k)
      PROVE  d[1] = "mounts" /\ d[2] = k
  <2>1. PICK s \in AnyPath : s = Base(k)
    BY SandboxPlaces
  <2>2. Len(s) = 2 /\ s[1] = "mounts" /\ s[2] = k
    BY <2>1 DEF Base
  <2>3. d[1] = s[1] /\ d[2] = s[2]
    BY <1>2, <1>8, <2>1, <2>2
  <2>4. QED
    BY <2>2, <2>3
<1>9. CASE m = Mapping(Base("ro"), Base("ro"), "ro", "external_ro")
  BY <1>8, <1>9 DEF Mapping
<1>10. CASE m = Mapping(Base("rw"), Base("rw"), "rw", "external_rw")
  BY <1>8, <1>10 DEF Mapping
<1>11. CASE \E k \in Kinds : \E u \in r.user[k] : m = UserMapping(k, u)
  <2>1. PICK k \in Kinds : \E u \in r.user[k] : m = UserMapping(k, u)
    BY <1>11
  <2>2. PICK u \in r.user[k] : m = UserMapping(k, u)
    BY <2>1
  <2>3. u \in AnyName /\ Base(k) \in AnyPath
    BY <2>2, CodeNamesAreNames, FixedPaths DEF UsersMounts, CodeNames, AnyName, Kinds
  <2>4. PICK b \in AnyPath : b = Base(k)
    BY <2>3
  <2>5. Len(b) = 2 /\ b[1] = "mounts" /\ b[2] = k
    BY <2>4 DEF Base
  <2>6. PICK s \in AnyPath : s = b \o <<u>>
    BY <2>3, OneMore
  <2>7. Len(s) = Len(b) + 1 /\ (\A i \in 1 .. Len(b) : s[i] = b[i]) /\ s[Len(b) + 1] = u
    BY <2>3, <2>6, OneMore
  <2>8. Len(s) = 3 /\ s[1] = "mounts" /\ s[2] = k /\ s[3] = u
    BY <2>5, <2>7
  <2>9. m.docker = s
    BY <2>2, <2>4, <2>6, FixedMappings
  <2>10. d[1] = s[1] /\ d[2] = s[2] /\ d[3] = s[3]
    BY <1>2, <2>8, <2>9
  <2>11. QED
    BY <2>1, <2>2, <2>8, <2>10
<1>12. QED
  BY <1>1, <1>3, <1>4, <1>5, <1>6, <1>7, <1>9, <1>10, <1>11 DEF Mappings

LEMMA SandboxPlace ==
    ASSUME NEW r, NEW d \in Seq(PathNames), NEW m, ForDocker(r, d) = {m}, Len(m.sandbox) \in Nat
    PROVE  ToSandbox(r, d) = m.sandbox \o Drop(d, Len(m.docker))
BY LexicalIsItself, LongestOfOne DEF ToSandbox

LEMMA Moved ==
    ASSUME NEW w \in AnyPath, NEW d \in AnyPath, NEW k \in 0 .. Len(d)
    PROVE  /\ w \o Drop(d, k) \in AnyPath /\ Len(w \o Drop(d, k)) = Len(w) + (Len(d) - k)
           /\ \A i \in 1 .. Len(w) : (w \o Drop(d, k))[i] = w[i]
           /\ \A i \in 1 .. Len(d) - k : (w \o Drop(d, k))[Len(w) + i] = d[i + k]
<1>1. /\ Drop(d, k) \in AnyPath /\ Len(Drop(d, k)) = Len(d) - k
      /\ \A i \in 1 .. Len(d) - k : Drop(d, k)[i] = d[i + k]
  BY DropIs
<1>2. PICK t \in AnyPath : t = Drop(d, k)
  BY <1>1
<1>3. /\ w \o t \in AnyPath /\ Len(w \o t) = Len(w) + Len(t)
      /\ \A i \in 1 .. Len(w) : (w \o t)[i] = w[i]
      /\ \A i \in 1 .. Len(t) : (w \o t)[Len(w) + i] = t[i]
  BY ConcatIs
<1>4. Len(w) \in Nat /\ Len(d) \in Nat
  BY DEF AnyPath
<1>5. QED
  BY <1>1, <1>2, <1>3, <1>4

LEMMA UnderWorkspace ==
    ASSUME NEW d \in AnyPath
    PROVE  IsPrefix(WorkspaceDir, d) <=> 5 <= Len(d) /\ \A i \in 1 .. 5 : WorkspaceDir[i] = d[i]
<1>1. IsPrefix(WorkspaceDir, d) <=> Len(WorkspaceDir) <= Len(d) /\ \A i \in 1 .. Len(WorkspaceDir) : WorkspaceDir[i] = d[i]
  BY FixedPaths, PrefixIs
<1>2. Len(WorkspaceDir) = 5
  BY FixedPaths
<1>3. QED
  BY <1>1, <1>2

\* What the workspace has below external/ro and external/user-ro is read-only.
LEMMA ReadOnlyPlaces ==
    ASSUME NEW d \in AnyPath, NEW k \in {"ro", "user-ro"}, IsPrefix(WorkspaceDir, d),
           Len(d) > 6, d[6] = "external", d[7] = k
    PROVE  Below(ReadOnlyRoots(validator), d)
<1>1. <<"external", k>> \in AnyPath /\ Len(<<"external", k>>) = 2 /\ <<"external", k>>[1] = "external" /\ <<"external", k>>[2] = k
  <2>1. "external" \in AnyName /\ k \in AnyName
    BY CodeNamesAreNames DEF CodeNames, AnyName
  <2>2. QED
    BY <2>1 DEF AnyPath
<1>2. PICK t \in AnyPath : t = <<"external", k>>
  BY <1>1
<1>3. PICK s : s = WorkspaceDir \o t
  OBVIOUS
<1>4. /\ s \in AnyPath /\ Len(s) = 5 + 2
      /\ \A i \in 1 .. 5 : s[i] = WorkspaceDir[i]
      /\ \A i \in 1 .. 2 : s[5 + i] = t[i]
  <2>1. /\ WorkspaceDir \o t \in AnyPath /\ Len(WorkspaceDir \o t) = Len(WorkspaceDir) + Len(t)
        /\ \A i \in 1 .. Len(WorkspaceDir) : (WorkspaceDir \o t)[i] = WorkspaceDir[i]
        /\ \A i \in 1 .. Len(t) : (WorkspaceDir \o t)[Len(WorkspaceDir) + i] = t[i]
    BY FixedPaths, ConcatIs
  <2>2. Len(WorkspaceDir) = 5 /\ Len(t) = 2
    BY <1>1, <1>2, FixedPaths
  <2>3. QED
    BY <1>3, <2>1, <2>2
<1>5. s[5 + 1] = "external" /\ s[5 + 2] = k
  BY <1>1, <1>2, <1>4
<1>6. \A i \in 1 .. 5 : WorkspaceDir[i] = d[i]
  BY UnderWorkspace
<1>7. Len(d) \in Nat /\ 7 <= Len(d)
  BY DEF AnyPath
<1>8. \A i \in 1 .. 7 : s[i] = d[i]
  <2>1. \A i \in 1 .. 7 : i \in 1 .. 5 \/ i = 6 \/ i = 7
    OBVIOUS
  <2>2. s[6] = d[6] /\ s[7] = d[7]
    BY <1>5
  <2>3. QED
    BY <1>4, <1>6, <2>1, <2>2
<1>9. IsPrefix(s, d)
  <2>1. IsPrefix(s, d) <=> Len(s) <= Len(d) /\ \A i \in 1 .. Len(s) : s[i] = d[i]
    BY <1>4, PrefixIs
  <2>2. QED
    BY <1>4, <1>7, <1>8, <2>1
<1>10. s \in ReadOnlyRoots(validator)
  <2>1. t \in {<<"skills">>, <<".claude">>, <<"external", "ro">>, <<"external", "user-ro">>}
    BY <1>2
  <2>2. QED
    BY <1>3, <2>1 DEF ReadOnlyRoots
<1>11. QED
  BY <1>9, <1>10 DEF Below

\* The four kinds of places that the validator lets a tool write.
LEMMA WorkspaceShown ==
    ASSUME NEW r, UsersMounts(r), NEW d \in Seq(PathNames), IsPrefix(WorkspaceDir, d),
           ~Below(ReadOnlyRoots(validator), d)
    PROVE  IsPathWritable(r, ToSandbox(r, d))
<1>1. /\ d \in AnyPath /\ Len(d) \in Nat /\ 5 <= Len(d)
      /\ \A i \in 1 .. 5 : d[i] = WorkspaceDir[i]
  BY PlainNames, UnderWorkspace
<1>2. d[1] = "users" /\ d[3] = "sessions"
  BY <1>1, FixedPaths
<1>3. ForDocker(r, d) = {WorkspaceMapping}
  <2>1. ASSUME NEW m \in ForDocker(r, d) PROVE m = WorkspaceMapping
    BY <1>1, <1>2, DockerMappings DEF Kinds
  <2>2. WorkspaceMapping \in ForDocker(r, d)
    BY FixedMappings DEF ForDocker, Mappings
  <2>3. QED
    BY <2>1, <2>2
<1>4. PICK n : n = ToSandbox(r, d)
  OBVIOUS
<1>5. PICK w \in AnyPath : w = <<"workspace">>
  BY SandboxPlaces
<1>6. Len(w) = 1 /\ w[1] = "workspace"
  BY <1>5
<1>7. n = w \o Drop(d, 5)
  <2>1. PICK m : m = WorkspaceMapping
    OBVIOUS
  <2>2. m.sandbox = w /\ Len(m.sandbox) \in Nat /\ Len(m.docker) = 5
    BY <1>5, <1>6, <2>1, FixedMappings, FixedPaths
  <2>3. ToSandbox(r, d) = m.sandbox \o Drop(d, Len(m.docker))
    BY <1>3, <2>1, <2>2, SandboxPlace
  <2>4. QED
    BY <1>4, <2>2, <2>3
<1>8. /\ n \in AnyPath /\ Len(n) = 1 + (Len(d) - 5) /\ n[1] = "workspace"
      /\ \A i \in 1 .. Len(d) - 5 : n[1 + i] = d[i + 5]
  <2>1. 5 \in 0 .. Len(d)
    BY <1>1
  <2>2. /\ n \in AnyPath /\ Len(n) = Len(w) + (Len(d) - 5)
        /\ \A i \in 1 .. Len(w) : n[i] = w[i]
        /\ \A i \in 1 .. Len(d) - 5 : n[Len(w) + i] = d[i + 5]
    <3>1. /\ w \o Drop(d, 5) \in AnyPath /\ Len(w \o Drop(d, 5)) = Len(w) + (Len(d) - 5)
          /\ \A i \in 1 .. Len(w) : (w \o Drop(d, 5))[i] = w[i]
          /\ \A i \in 1 .. Len(d) - 5 : (w \o Drop(d, 5))[Len(w) + i] = d[i + 5]
      BY <1>1, <2>1, Moved
    <3>2. QED
      BY <1>7, <3>1
  <2>3. QED
    BY <1>6, <2>2
<1>9. Len(n) \in Nat \ {0}
  BY <1>1, <1>8
<1>10. External(n) => Len(d) > 6 /\ d[6] = "external" /\ d[7] = n[3]
  <2>1. Len(n) > 2 => 1 \in 1 .. Len(d) - 5 /\ 2 \in 1 .. Len(d) - 5 /\ Len(d) > 6
    BY <1>1, <1>8
  <2>2. Len(n) > 2 => n[1 + 1] = d[1 + 5] /\ n[1 + 2] = d[2 + 5]
    BY <1>8, <2>1
  <2>3. QED
    BY <2>1, <2>2 DEF External
<1>11. External(n) => n[3] \notin {"ro", "user-ro"}
  BY <1>1, <1>10, ReadOnlyPlaces
<1>12. MountType(r, n) \in {"workspace", "persistent", "external_rw", "user-rw"}
  <2>1. CASE External(n) /\ n[3] \in {"persistent", "ro", "rw"}
    <3>1. ~UserArea(n)
      BY <2>1 DEF UserArea, Kinds
    <3>2. QED
      BY <1>11, <2>1, <3>1 DEF MountType
  <2>2. CASE UserArea(n)
    BY <1>11, <2>2 DEF MountType, UserArea, Kinds
  <2>3. CASE ~(External(n) /\ n[3] \in {"persistent", "ro", "rw"}) /\ ~UserArea(n)
    <3>1. \A m : m \in ForSandbox(r, n) <=> m = WorkspaceMapping
      BY <1>8, <1>9, <2>3, SandboxMappings
    <3>2. ForSandbox(r, n) = {WorkspaceMapping}
      BY <3>1
    <3>3. Longest(ForSandbox(r, n)) = WorkspaceMapping
      BY <3>2, LongestOfOne, MappingLengths
    <3>4. MountType(r, n) = "workspace"
      BY <2>3, <3>2, <3>3 DEF MountType, WorkspaceMapping, Mapping
    <3>5. QED
      BY <3>4
  <2>4. QED
    BY <2>1, <2>2, <2>3
<1>13. QED
  BY <1>4, <1>12 DEF IsPathWritable

LEMMA PersistentShown ==
    ASSUME NEW r, UsersMounts(r), NEW d \in Seq(PathNames), IsPrefix(Persistent, d)
    PROVE  IsPathWritable(r, ToSandbox(r, d))
<1>1. PICK s \in AnyPath : s = Persistent
  BY FixedPaths
<1>2. Len(s) = 4 /\ s[1] = "users" /\ s[3] = "ag3ntum"
  BY <1>1 DEF Persistent
<1>3. d \in AnyPath /\ Len(d) \in Nat /\ 4 <= Len(d) /\ d[1] = "users" /\ d[3] = "ag3ntum"
  <2>1. Len(s) <= Len(d) /\ \A i \in 1 .. Len(s) : s[i] = d[i]
    BY <1>1, PlainNames, PrefixIs
  <2>2. QED
    BY <1>2, <2>1, PlainNames
<1>4. ForDocker(r, d) = {PersistentMapping}
  <2>1. ASSUME NEW m \in ForDocker(r, d) PROVE m = PersistentMapping
    BY <1>3, DockerMappings DEF Kinds
  <2>2. PersistentMapping \in ForDocker(r, d)
    BY FixedMappings DEF ForDocker, Mappings
  <2>3. QED
    BY <2>1, <2>2
<1>5. PICK w \in AnyPath : w = <<"workspace", "external", "persistent">>
  BY SandboxPlaces
<1>6. Len(w) = 3 /\ w[1] = "workspace" /\ w[2] = "external" /\ w[3] = "persistent"
  BY <1>5
<1>7. PICK n : n = ToSandbox(r, d)
  OBVIOUS
<1>8. n = w \o Drop(d, 4)
  <2>1. PICK m : m = PersistentMapping
    OBVIOUS
  <2>2. m.sandbox = w /\ Len(m.sandbox) \in Nat /\ Len(m.docker) = 4
    BY <1>1, <1>2, <1>5, <1>6, <2>1, FixedMappings
  <2>3. ToSandbox(r, d) = m.sandbox \o Drop(d, Len(m.docker))
    BY <1>4, <2>1, <2>2, SandboxPlace
  <2>4. QED
    BY <1>7, <2>2, <2>3
<1>9. Len(n) > 2 /\ n[1] = "workspace" /\ n[2] = "external" /\ n[3] = "persistent"
  <2>1. 4 \in 0 .. Len(d)
    BY <1>3
  <2>2. Len(n) = Len(w) + (Len(d) - 4) /\ \A i \in 1 .. Len(w) : n[i] = w[i]
    <3>1. /\ Len(w \o Drop(d, 4)) = Len(w) + (Len(d) - 4)
          /\ \A i \in 1 .. Len(w) : (w \o Drop(d, 4))[i] = w[i]
      BY <1>3, <2>1, Moved
    <3>2. QED
      BY <1>8, <3>1
  <2>3. QED
    BY <1>3, <1>6, <2>2
<1>10. MountType(r, n) = "persistent"
  BY <1>9 DEF MountType, External
<1>11. QED
  BY <1>7, <1>10 DEF IsPathWritable

LEMMA SharedShown ==
    ASSUME NEW r, UsersMounts(r), NEW d \in Seq(PathNames), IsPrefix(Base("rw"), d)
    PROVE  IsPathWritable(r, ToSandbox(r, d))
<1>1. PICK s \in AnyPath : s = Base("rw")
  BY SandboxPlaces
<1>2. Len(s) = 2 /\ s[1] = "mounts" /\ s[2] = "rw"
  BY <1>1 DEF Base
<1>3. d \in AnyPath /\ Len(d) \in Nat /\ 2 <= Len(d) /\ d[1] = "mounts" /\ d[2] = "rw"
  <2>1. Len(s) <= Len(d) /\ \A i \in 1 .. Len(s) : s[i] = d[i]
    BY <1>1, PlainNames, PrefixIs
  <2>2. QED
    BY <1>2, <2>1, PlainNames
<1>4. PICK m : m = Mapping(Base("rw"), Base("rw"), "rw", "external_rw")
  OBVIOUS
<1>5. m.sandbox = s /\ m.docker = s /\ m.type = "external_rw"
  BY <1>1, <1>4 DEF Mapping
<1>6. m \in Mappings(r)
  BY <1>4 DEF Mappings
<1>7. ForDocker(r, d) = {m}
  <2>1. ASSUME NEW o \in ForDocker(r, d) PROVE o = m
    BY <1>3, <1>4, DockerMappings DEF Kinds
  <2>2. m \in ForDocker(r, d)
    BY <1>1, <1>5, <1>6 DEF ForDocker
  <2>3. QED
    BY <2>1, <2>2
<1>8. PICK n : n = ToSandbox(r, d)
  OBVIOUS
<1>9. n = s \o Drop(d, 2)
  <2>1. Len(m.sandbox) \in Nat /\ Len(m.docker) = 2
    BY <1>2, <1>5
  <2>2. ToSandbox(r, d) = m.sandbox \o Drop(d, Len(m.docker))
    BY <1>7, <2>1, SandboxPlace
  <2>3. QED
    BY <1>5, <1>8, <2>1, <2>2
<1>10. /\ n \in AnyPath /\ Len(n) = 2 + (Len(d) - 2) /\ n[1] = "mounts" /\ n[2] = "rw"
       /\ IsPrefix(s, n)
  <2>1. 2 \in 0 .. Len(d)
    BY <1>3
  <2>2. /\ s \o Drop(d, 2) \in AnyPath /\ Len(s \o Drop(d, 2)) = Len(s) + (Len(d) - 2)
        /\ \A i \in 1 .. Len(s) : (s \o Drop(d, 2))[i] = s[i]
    BY <1>3, <2>1, Moved
  <2>3. /\ n \in AnyPath /\ Len(n) = Len(s) + (Len(d) - 2)
        /\ \A i \in 1 .. Len(s) : n[i] = s[i]
    BY <1>9, <2>2
  <2>4. Len(s) <= Len(n)
    BY <1>2, <1>3, <2>3
  <2>5. IsPrefix(s, n)
    BY <2>3, <2>4, PrefixIs
  <2>6. QED
    BY <1>2, <2>3, <2>5
<1>11. Len(n) \in Nat \ {0} /\ ~External(n) /\ ~UserArea(n)
  BY <1>3, <1>10 DEF External, UserArea
<1>12. ForSandbox(r, n) = {m}
  <2>1. ASSUME NEW o \in ForSandbox(r, n) PROVE o = m
    BY <1>4, <1>10, <1>11, OtherMappings
  <2>2. m \in ForSandbox(r, n)
    BY <1>5, <1>6, <1>10 DEF ForSandbox
  <2>3. QED
    BY <2>1, <2>2
<1>13. Longest(ForSandbox(r, n)) = m
  BY <1>2, <1>5, <1>12, LongestOfOne
<1>14. MountType(r, n) = "external_rw"
  BY <1>5, <1>11, <1>12, <1>13 DEF MountType
<1>15. QED
  BY <1>8, <1>14 DEF IsPathWritable

LEMMA UserShown ==
    ASSUME NEW r, UsersMounts(r), NEW d \in Seq(PathNames), NEW u \in r.user["user-rw"],
           IsPrefix(Base("user-rw") \o <<u>>, d)
    PROVE  IsPathWritable(r, ToSandbox(r, d))
<1>1. u \in Mounts /\ u \in AnyName /\ "user-rw" \in Kinds
  BY CodeNamesAreNames DEF UsersMounts, AnyName, Kinds
<1>2. PICK b \in AnyPath : b = Base("user-rw")
  BY CodeNamesAreNames, FixedPaths DEF CodeNames, AnyName
<1>3. Len(b) = 2 /\ b[1] = "mounts" /\ b[2] = "user-rw"
  BY <1>2 DEF Base
<1>4. PICK s \in AnyPath : s = b \o <<u>>
  BY <1>1, OneMore
<1>5. Len(s) = 3 /\ s[1] = "mounts" /\ s[2] = "user-rw" /\ s[3] = u
  <2>1. Len(s) = Len(b) + 1 /\ (\A i \in 1 .. Len(b) : s[i] = b[i]) /\ s[Len(b) + 1] = u
    BY <1>1, <1>4, OneMore
  <2>2. QED
    BY <1>3, <2>1
<1>6. IsPrefix(s, d)
  BY <1>2, <1>4
<1>7. d \in AnyPath /\ Len(d) \in Nat /\ 3 <= Len(d) /\ d[1] = "mounts" /\ d[2] = "user-rw" /\ d[3] = u
  <2>1. Len(s) <= Len(d) /\ \A i \in 1 .. Len(s) : s[i] = d[i]
    BY <1>6, PlainNames, PrefixIs
  <2>2. QED
    BY <1>5, <2>1, PlainNames
<1>8. PICK m : m = UserMapping("user-rw", u)
  OBVIOUS
<1>9. PICK w \in AnyPath : w = <<"workspace", "external", "user-rw", u>>
  BY <1>1, SandboxPlaces
<1>10. Len(w) = 4 /\ w[1] = "workspace" /\ w[2] = "external" /\ w[3] = "user-rw"
  BY <1>9
<1>11. m.sandbox = w /\ m.docker = s
  BY <1>2, <1>4, <1>8, <1>9, FixedMappings
<1>12. m \in Mappings(r)
  BY <1>1, <1>8 DEF Mappings
<1>13. ForDocker(r, d) = {m}
  <2>1. ASSUME NEW o \in ForDocker(r, d) PROVE o = m
    BY <1>7, <1>8, DockerMappings DEF Kinds
  <2>2. m \in ForDocker(r, d)
    BY <1>6, <1>11, <1>12 DEF ForDocker
  <2>3. QED
    BY <2>1, <2>2
<1>14. PICK n : n = ToSandbox(r, d)
  OBVIOUS
<1>15. n = w \o Drop(d, 3)
  <2>1. Len(m.sandbox) \in Nat /\ Len(m.docker) = 3
    BY <1>5, <1>10, <1>11
  <2>2. QED
    BY <1>11, <1>13, <1>14, <2>1, SandboxPlace
<1>16. Len(n) > 3 /\ n[1] = "workspace" /\ n[2] = "external" /\ n[3] = "user-rw"
  <2>1. 3 \in 0 .. Len(d)
    BY <1>7
  <2>2. /\ Len(w \o Drop(d, 3)) = Len(w) + (Len(d) - 3)
        /\ \A i \in 1 .. Len(w) : (w \o Drop(d, 3))[i] = w[i]
    BY <1>7, <2>1, Moved
  <2>3. Len(n) = Len(w) + (Len(d) - 3) /\ \A i \in 1 .. Len(w) : n[i] = w[i]
    BY <1>15, <2>2
  <2>4. QED
    BY <1>7, <1>10, <2>3
<1>17. MountType(r, n) = "user-rw"
  BY <1>16 DEF MountType, External, UserArea, Kinds
<1>18. QED
  BY <1>14, <1>17 DEF IsPathWritable

LEMMA WrittenIsWritable ==
    ASSUME PathInv
    PROVE  WritesAreWritable
<1> SUFFICES ASSUME session = "running", NEW p \in Paths, Validate(validator, p, TRUE) # Refused
             PROVE  LET d == Validate(validator, p, TRUE)  n == ToSandbox(resolver, d)
                    IN  /\ ~Below(ReadOnlyRoots(validator), Resolve(d))
                        /\ n # Refused => IsPathWritable(resolver, n)
  BY DEF WritesAreWritable
<1>1. PICK d : d = Validate(validator, p, TRUE)
  OBVIOUS
<1>2. /\ resolver.set /\ validator.set /\ resolver.user = validator.user
      /\ UsersMounts(resolver) /\ UsersMounts(validator)
  <2>1. resolver.set /\ validator.set /\ resolver.user = validator.user
    BY DEF PathInv, RunIsConfigured
  <2>2. QED
    BY <2>1, ResolverTyped DEF UsersMounts
<1>3. /\ d = NormalizePath(validator, p) /\ d # Refused
      /\ ~Below(ReadOnlyRoots(validator), d)
      /\ Below(WritableRoots(validator), d)
  <2>1. /\ d = NormalizePath(validator, p) /\ d # Refused
        /\ ~Below(ReadOnlyRoots(validator), d)
        /\ Below(ReadOnlyRoots(validator) \union WritableRoots(validator), d)
    BY <1>1 DEF Validate
  <2>2. QED
    BY <2>1 DEF Below
<1>4. d \in Seq(PathNames) /\ Resolve(d) = d
  <2>1. PICK x \in AnyPath : x = StartOf(validator, p).root \o StartOf(validator, p).rest
    BY <1>2, StartTyped
  <2>2. d = Resolve(x)
    BY <1>3, <2>1 DEF NormalizePath
  <2>3. LeadsOn(symlinks)
    BY OursLeadOn DEF PathInv
  <2>4. LinkFree(symlinks, d)
    BY <2>2, <2>3, FollowedIsFree DEF Resolve
  <2>5. QED
    BY <2>4, FreeIsItself DEF LinkFree, Resolve
<1>5. IsPathWritable(resolver, ToSandbox(resolver, d))
  <2>1. PICK root \in WritableRoots(validator) : IsPrefix(root, d)
    BY <1>3 DEF Below
  <2>2. CASE root = WorkspaceDir
    BY <1>2, <1>3, <1>4, <2>1, <2>2, WorkspaceShown
  <2>3. CASE root = Persistent
    BY <1>2, <1>4, <2>1, <2>3, PersistentShown
  <2>4. CASE root = Base("rw")
    BY <1>2, <1>4, <2>1, <2>4, SharedShown
  <2>5. CASE \E u \in validator.user["user-rw"] : root = Base("user-rw") \o <<u>>
    BY <1>2, <1>4, <2>1, <2>5, UserShown
  <2>6. QED
    BY <2>1, <2>2, <2>3, <2>4, <2>5 DEF WritableRoots
<1>6. QED
  BY <1>1, <1>3, <1>4, <1>5

\* What is read-only for one is read-only for all: a path that a tool may write is
\* shown as writable, and one that the file explorer lists as read-only it does not
\* delete, for every configuration of mounts, every link of the agent and any order
\* of the runs and requests.
THEOREM ReadOnlyIsOneThing == SandboxSpec => []ReadOnlyIsKept
<1>1. PathInv => ReadOnlyIsKept
  BY WrittenIsWritable, ListedStays DEF ReadOnlyIsKept
<1>2. QED
  BY <1>1, PathInvHolds, PTL

-----------------------------------------------------------------------------
(* The command as a third reader                                           *)

LEMMA OneWalk ==
    ASSUME NEW parts, NEW to, NEW n \in Nat, NEW f, NEW g, Walks(parts, to, f, n), Walks(parts, to, g, n)
    PROVE  f[n] = g[n]
<1> DEFINE bad == {m \in 0 .. n : f[m] # g[m]}
<1>1. bad = {}
  <2> SUFFICES ASSUME bad # {} PROVE FALSE
    OBVIOUS
  <2>1. PICK m \in bad : \A j \in bad : m <= j
    <3>1. bad \in SUBSET Nat
      OBVIOUS
    <3> HIDE DEF bad
    <3>2. QED
      BY <3>1, Least
  <2>2. m # 0
    BY <2>1 DEF Walks
  <2>3. m \in 1 .. n /\ m - 1 \in 0 .. n /\ m - 1 \notin bad
    BY <2>1, <2>2
  <2>4. f[m - 1] = g[m - 1]
    BY <2>3
  <2>5. f[m] = Advance(parts, to, f[m - 1], m) /\ g[m] = Advance(parts, to, g[m - 1], m)
    BY <2>3 DEF Walks
  <2>6. QED
    BY <2>1, <2>4, <2>5
<1>2. QED
  BY <1>1

\* From a place along the names of a path.
Further(s, t, k, m) ==
    /\ StepTo(t \o SubSeq(s, k + 1, m - 1), s[m]) = t \o SubSeq(s, k + 1, m)
    /\ t # <<>> => (t \o SubSeq(s, k + 1, m))[1] = t[1]

LEMMA OneFurther ==
    ASSUME NEW s \in Seq(PathNames), NEW t \in Seq(PathNames), NEW k \in 0 .. Len(s), NEW m \in k + 1 .. Len(s)
    PROVE  Further(s, t, k, m)
<1>1. Len(s) \in Nat /\ Len(t) \in Nat /\ k \in Nat /\ m \in Nat /\ m - 1 \in Nat
  OBVIOUS
<1>2. s[m] \in PathNames /\ s[m] # ".." /\ \A i \in k + 1 .. m : s[i] \in PathNames
  BY <1>1, PlainNames
<1>3. PICK u : u = SubSeq(s, k + 1, m - 1)
  OBVIOUS
<1>4. PICK j \in Nat : j = m - 1
  BY <1>1
<1>5. k + 1 \in Int /\ j \in Int /\ \A i \in k + 1 .. j : s[i] \in PathNames
  BY <1>1, <1>2, <1>4
<1>6. u \in Seq(PathNames)
  BY <1>3, <1>4, <1>5, SubSeqProperties
<1>7. SubSeq(s, k + 1, m) = u \o <<s[m]>>
  <2>1. k + 1 \in 1 .. Len(s) /\ m \in k + 1 .. Len(s)
    BY <1>1
  <2>2. QED
    BY <1>3, <2>1, SubSeqRecursiveSecond
<1>8. PICK x \in Seq(PathNames) : x = <<s[m]>>
  <2>1. PICK e \in PathNames : e = s[m]
    BY <1>2
  <2>2. <<e>> \in Seq(PathNames)
    OBVIOUS
  <2>3. QED
    BY <2>1, <2>2
<1>9. /\ t \o u \in Seq(PathNames) /\ u \o x \in Seq(PathNames)
      /\ (t \o u) \o x = t \o (u \o x)
      /\ t # <<>> => (t \o (u \o x))[1] = t[1]
  <2>1. t \o u \in Seq(PathNames) /\ u \o x \in Seq(PathNames) /\ (t \o u) \o x = t \o (u \o x)
    BY <1>6, ConcatAssociative
  <2>2. PICK y \in Seq(PathNames) : y = u \o x
    BY <2>1
  <2>3. t # <<>> => (t \o y)[1] = t[1]
    BY <1>1
  <2>4. QED
    BY <2>1, <2>2, <2>3
<1>10. StepTo(t \o u, s[m]) = (t \o u) \o x
  BY <1>2, <1>8, <1>9, AppendIsConcat DEF StepTo
<1>11. QED
  BY <1>3, <1>7, <1>8, <1>9, <1>10 DEF Further

LEMMA FromStart ==
    ASSUME NEW s \in Seq(PathNames), NEW m \in 1 .. Len(s)
    PROVE  StepTo(SubSeq(s, 1, m - 1), s[m]) = SubSeq(s, 1, m)
<1>1. s[m] \in PathNames /\ s[m] # ".." /\ Len(s) \in Nat
  BY PlainNames
<1>2. SubSeq(s, 1, m) = SubSeq(s, 1, m - 1) \o <<s[m]>>
  BY <1>1, SubSeqRecursiveSecond
<1>3. SubSeq(s, 1, m - 1) \in Seq(PathNames)
  BY <1>1, SubSeqProperties
<1>4. QED
  BY <1>1, <1>2, <1>3, AppendIsConcat DEF StepTo

\* The places of a walk that a link takes to t after k names.
PlacesOfWalk(s, k, t, g) ==
    /\ DOMAIN g = 0 .. Len(s) /\ g[0] = <<>> /\ g[k] = t
    /\ \A m \in 1 .. k - 1 : g[m] = SubSeq(s, 1, m)
    /\ \A m \in k + 1 .. Len(s) : g[m][1] = t[1]
    /\ \A m \in 1 .. Len(s) : m # k => StepTo(g[m - 1], s[m]) = g[m]
    /\ StepTo(g[k - 1], s[k]) = SubSeq(s, 1, k)
    /\ g[Len(s)] = t \o Drop(s, k)

LEMMA WalkLedOn ==
    ASSUME NEW s \in Seq(PathNames), NEW k \in 1 .. Len(s), NEW t \in Seq(PathNames), t # <<>>
    PROVE  \E g : PlacesOfWalk(s, k, t, g)
<1> DEFINE start == [m \in 0 .. Len(s) |-> SubSeq(s, 1, m)]
           after == [m \in k .. Len(s) |-> t \o SubSeq(s, k + 1, m)]
           g == [m \in 0 .. Len(s) |-> IF m < k THEN start[m] ELSE after[m]]
<1>1. Len(s) \in Nat /\ k \in Nat /\ k >= 1 /\ k <= Len(s)
  OBVIOUS
<1>2. ASSUME NEW m \in 1 .. Len(s) PROVE StepTo(start[m - 1], s[m]) = start[m]
  <2>1. start[m - 1] = SubSeq(s, 1, m - 1) /\ start[m] = SubSeq(s, 1, m)
    BY <1>1
  <2>2. QED
    BY <2>1, FromStart
<1>3. ASSUME NEW m \in k + 1 .. Len(s)
      PROVE  StepTo(after[m - 1], s[m]) = after[m] /\ after[m][1] = t[1]
  <2>1. after[m - 1] = t \o SubSeq(s, k + 1, m - 1) /\ after[m] = t \o SubSeq(s, k + 1, m)
    BY <1>1
  <2>2. k \in 0 .. Len(s)
    BY <1>1
  <2>3. Further(s, t, k, m)
    BY <2>2, OneFurther
  <2> HIDE DEF after
  <2>4. QED
    BY <2>1, <2>3 DEF Further
<1>4. start[0] = <<>> /\ after[k] = t
  <2>1. SubSeq(s, 1, 0) = <<>> /\ SubSeq(s, k + 1, k) = <<>> /\ t \o <<>> = t
    BY <1>1, SubSeqEmpty, ConcatEmptySeq
  <2>2. start[0] = SubSeq(s, 1, 0) /\ after[k] = t \o SubSeq(s, k + 1, k)
    BY <1>1
  <2> HIDE DEF start, after
  <2>3. QED
    BY <2>1, <2>2
<1>5. /\ \A m \in 0 .. Len(s) : start[m] = SubSeq(s, 1, m)
      /\ after[Len(s)] = t \o Drop(s, k)
  BY <1>1 DEF Drop
<1> HIDE DEF start, after
<1>6. /\ DOMAIN g = 0 .. Len(s)
      /\ \A m \in 0 .. Len(s) : m < k => g[m] = start[m]
      /\ \A m \in 0 .. Len(s) : m >= k => g[m] = after[m]
  BY <1>1
<1> HIDE DEF g
<1>7. /\ g[0] = <<>> /\ g[k] = t /\ g[Len(s)] = t \o Drop(s, k)
      /\ \A m \in 1 .. k - 1 : g[m] = SubSeq(s, 1, m)
      /\ \A m \in k + 1 .. Len(s) : g[m][1] = t[1]
  <2>1. /\ 0 \in 0 .. Len(s) /\ 0 < k /\ k \in 0 .. Len(s) /\ k >= k
        /\ Len(s) \in 0 .. Len(s) /\ Len(s) >= k
        /\ \A m \in 1 .. k - 1 : m \in 0 .. Len(s) /\ m < k
        /\ \A m \in k + 1 .. Len(s) : m \in 0 .. Len(s) /\ m >= k
    BY <1>1
  <2>2. g[0] = <<>> /\ g[k] = t /\ g[Len(s)] = t \o Drop(s, k)
    BY <1>4, <1>5, <1>6, <2>1
  <2>3. ASSUME NEW m \in 1 .. k - 1 PROVE g[m] = SubSeq(s, 1, m)
    BY <1>5, <1>6, <2>1
  <2>4. ASSUME NEW m \in k + 1 .. Len(s) PROVE g[m][1] = t[1]
    BY <1>3, <1>6, <2>1
  <2>5. QED
    BY <2>2, <2>3, <2>4
<1>8. ASSUME NEW m \in 1 .. Len(s), m # k PROVE StepTo(g[m - 1], s[m]) = g[m]
  <2>1. m - 1 \in 0 .. Len(s) /\ m \in 0 .. Len(s) /\ m \in Nat
    BY <1>1
  <2>2. CASE m < k
    BY <1>1, <1>2, <1>6, <2>1, <2>2
  <2>3. CASE m > k
    <3>1. m \in k + 1 .. Len(s) /\ g[m - 1] = after[m - 1] /\ g[m] = after[m]
      BY <1>1, <1>6, <2>1, <2>3
    <3>2. QED
      BY <1>3, <3>1
  <2>4. QED
    BY <1>1, <1>8, <2>1, <2>2, <2>3
<1>9. StepTo(g[k - 1], s[k]) = SubSeq(s, 1, k)
  <2>1. k - 1 \in 0 .. Len(s) /\ k - 1 < k /\ k \in 0 .. Len(s)
    BY <1>1
  <2>2. g[k - 1] = start[k - 1] /\ start[k] = SubSeq(s, 1, k)
    BY <1>5, <1>6, <2>1
  <2>3. QED
    BY <1>2, <2>2
<1>10. PlacesOfWalk(s, k, t, g)
  BY <1>6, <1>7, <1>8, <1>9 DEF PlacesOfWalk
<1>11. QED
  BY <1>10

\* A walk that comes to a link is where the link leads, and goes on from there, if
\* no link begins like that place.
LinkAt(to, s, k, t, a) ==
    /\ \A i \in 1 .. k - 1 : SubSeq(s, 1, i) \notin DOMAIN to
    /\ SubSeq(s, 1, k) \in DOMAIN to /\ to[SubSeq(s, 1, k)] = t
    /\ \A d \in DOMAIN to : d[1] = a
    /\ t # <<>> /\ t[1] # a

LEMMA LedOn ==
    ASSUME NEW to, NEW s \in Seq(PathNames), NEW k \in 1 .. Len(s), NEW t \in Seq(PathNames), NEW a,
           LinkAt(to, s, k, t, a)
    PROVE  Followed(s, to) = t \o Drop(s, k)
<1>0. /\ \A i \in 1 .. k - 1 : SubSeq(s, 1, i) \notin DOMAIN to
      /\ SubSeq(s, 1, k) \in DOMAIN to /\ to[SubSeq(s, 1, k)] = t
      /\ \A d \in DOMAIN to : d[1] = a
      /\ t # <<>> /\ t[1] # a
  BY DEF LinkAt
<1>1. s \in AnyPath /\ Len(s) \in Nat /\ k \in Nat /\ k >= 1 /\ k <= Len(s)
  BY PlainNames
<1>p. PICK g : PlacesOfWalk(s, k, t, g)
  BY <1>0, WalkLedOn
<1>2. /\ DOMAIN g = 0 .. Len(s) /\ g[0] = <<>> /\ g[k] = t
      /\ \A m \in 1 .. k - 1 : g[m] = SubSeq(s, 1, m)
      /\ \A m \in k + 1 .. Len(s) : g[m][1] = t[1]
      /\ \A m \in 1 .. Len(s) : m # k => StepTo(g[m - 1], s[m]) = g[m]
      /\ StepTo(g[k - 1], s[k]) = SubSeq(s, 1, k)
      /\ g[Len(s)] = t \o Drop(s, k)
  BY <1>p DEF PlacesOfWalk
<1>3. ASSUME NEW m \in 1 .. Len(s) PROVE g[m] = Advance(s, to, g[m - 1], m)
  <2>1. CASE m = k
    BY <1>0, <1>2, <2>1 DEF Advance
  <2>2. CASE m # k
    <3>1. StepTo(g[m - 1], s[m]) = g[m]
      BY <1>2, <2>2
    <3>2. g[m] \notin DOMAIN to
      <4>1. CASE m \in 1 .. k - 1
        BY <1>0, <1>2, <4>1
      <4>2. CASE m \in k + 1 .. Len(s)
        BY <1>0, <1>2, <4>2
      <4>3. QED
        BY <1>1, <2>2, <4>1, <4>2
    <3>3. QED
      BY <3>1, <3>2 DEF Advance
  <2>3. QED
    BY <2>1, <2>2
<1>4. Walks(s, to, g, Len(s))
  BY <1>2, <1>3 DEF Walks
<1>5. PICK f : Walks(s, to, f, Len(s)) /\ Followed(s, to) = f[Len(s)]
  BY <1>1, FollowedWalks
<1>6. f[Len(s)] = g[Len(s)]
  BY <1>1, <1>4, <1>5, OneWalk
<1>7. QED
  BY <1>2, <1>5, <1>6

\* A mount of a command: the workspace, one of the places that have another path in
\* the container, or one that has the same path, which is bound as the tools may use it.
PlacedMount(m) ==
    /\ m.source \in AnyPath /\ m.target \in AnyPath
    /\ \/ m.target = <<"workspace">> /\ m.source = WorkspaceDir
       \/ /\ Len(m.target) > 0 /\ m.target[1] \in {"venv", "user-skills", "persistent"}
          /\ Len(m.source) > 2 /\ m.source[1] = "users" /\ m.source[3] # "sessions"
       \/ m.target = m.source /\ Len(m.source) > 0 /\ m.source[1] = "skills" /\ m.mode = "ro"
       \/ /\ m.target = m.source /\ Len(m.source) > 1 /\ m.source[1] = "mounts"
          /\ m.source[2] \in {"ro", "user-ro"} => m.mode = "ro"

Placed(mounts) == \E n \in Nat : DOMAIN mounts \subseteq 1 .. n /\ \A i \in DOMAIN mounts : PlacedMount(mounts[i])

LEMMA TopmostCovers ==
    ASSUME NEW mounts, Placed(mounts), NEW d \in AnyPath, Covering(mounts, d) # {}
    PROVE  \E i \in DOMAIN mounts : Topmost(mounts, d) = mounts[i] /\ IsPrefix(mounts[i].target, d)
<1>1. PICK n \in Nat : DOMAIN mounts \subseteq 1 .. n
  BY DEF Placed
<1> DEFINE below == {n - i : i \in Covering(mounts, d)}
<1>2. Covering(mounts, d) \subseteq 1 .. n
  BY <1>1 DEF Covering
<1>3. PICK b \in below : \A c \in below : b <= c
  <2>1. below \in SUBSET Nat /\ below # {}
    BY <1>1, <1>2
  <2> HIDE DEF below
  <2>2. QED
    BY <2>1, Least
<1>4. PICK i \in Covering(mounts, d) : b = n - i
  BY <1>3
<1>5. \A j \in Covering(mounts, d) : j <= i
  <2> SUFFICES ASSUME NEW j \in Covering(mounts, d) PROVE j <= i
    OBVIOUS
  <2>1. n - j \in below /\ i \in Nat /\ j \in Nat
    BY <1>2
  <2>2. n - i <= n - j
    BY <1>3, <1>4, <2>1
  <2>3. QED
    BY <1>1, <2>1, <2>2
<1>6. PICK o : o = CHOOSE x \in Covering(mounts, d) : \A j \in Covering(mounts, d) : j <= x
  OBVIOUS
<1>7. o \in Covering(mounts, d)
  BY <1>5, <1>6
<1>8. Topmost(mounts, d) = mounts[o]
  BY <1>6 DEF Topmost
<1>9. QED
  BY <1>7, <1>8 DEF Covering

\* What the container has at a place of the sandbox.
LEMMA BehindIs ==
    ASSUME NEW mounts, Placed(mounts), NEW d \in AnyPath, Behind(mounts, d) # Nothing
    PROVE  /\ d # <<>> /\ Behind(mounts, d) \in AnyPath
           /\ \/ /\ d[1] = "workspace" /\ Behind(mounts, d) = WorkspaceDir \o Drop(d, 1)
                 /\ \E i \in DOMAIN mounts : mounts[i].target = <<"workspace">> /\ mounts[i].source = WorkspaceDir
              \/ /\ d[1] \in {"venv", "user-skills", "persistent"}
                 /\ Behind(mounts, d)[1] = "users" /\ Behind(mounts, d)[3] # "sessions"
              \/ d[1] = "skills" /\ Behind(mounts, d) = d /\ Topmost(mounts, d).mode = "ro"
              \/ /\ d[1] = "mounts" /\ Behind(mounts, d) = d
                 /\ d[2] \in {"ro", "user-ro"} => Topmost(mounts, d).mode = "ro"
<1>1. Covering(mounts, d) # {}
  BY DEF Behind
<1>2. PICK j \in DOMAIN mounts : Topmost(mounts, d) = mounts[j] /\ IsPrefix(mounts[j].target, d)
  BY <1>1, TopmostCovers
<1>3. PICK m : m = mounts[j]
  OBVIOUS
<1>4. PlacedMount(m) /\ Topmost(mounts, d) = m /\ Behind(mounts, d) = m.source \o Drop(d, Len(m.target))
  BY <1>1, <1>2, <1>3 DEF Placed, Behind
<1>5. PICK s \in AnyPath : s = m.source
  BY <1>4 DEF PlacedMount
<1>6. PICK t \in AnyPath : t = m.target
  BY <1>4 DEF PlacedMount
<1>7. Len(t) \in 0 .. Len(d) /\ Len(t) \in Nat /\ Len(d) \in Nat /\ Len(s) \in Nat /\ \A i \in 1 .. Len(t) : t[i] = d[i]
  <2>1. IsPrefix(t, d)
    BY <1>2, <1>3, <1>6
  <2>2. Len(t) <= Len(d) /\ \A i \in 1 .. Len(t) : t[i] = d[i]
    BY <2>1, PrefixIs
  <2>3. Len(t) \in Nat /\ Len(d) \in Nat /\ Len(s) \in Nat
    BY DEF AnyPath
  <2>4. QED
    BY <2>2, <2>3
<1>8. /\ Behind(mounts, d) = s \o Drop(d, Len(t)) /\ s \o Drop(d, Len(t)) \in AnyPath
      /\ \A i \in 1 .. Len(s) : (s \o Drop(d, Len(t)))[i] = s[i]
  <2>1. /\ s \o Drop(d, Len(t)) \in AnyPath
        /\ \A i \in 1 .. Len(s) : (s \o Drop(d, Len(t)))[i] = s[i]
    BY <1>7, Moved
  <2>2. QED
    BY <1>4, <1>5, <1>6, <2>1
<1>9. CASE t = <<"workspace">> /\ s = WorkspaceDir
  <2>1. Len(t) = 1 /\ t[1] = "workspace"
    BY <1>9
  <2>2. d[1] = "workspace" /\ d # <<>>
    BY <1>7, <2>1
  <2>3. QED
    BY <1>3, <1>5, <1>6, <1>8, <1>9, <2>1, <2>2
<1>10. CASE /\ Len(t) > 0 /\ t[1] \in {"venv", "user-skills", "persistent"}
            /\ Len(s) > 2 /\ s[1] = "users" /\ s[3] # "sessions"
  <2>1. 1 \in 1 .. Len(t) /\ 1 \in 1 .. Len(s) /\ 3 \in 1 .. Len(s)
    BY <1>7, <1>10
  <2>2. d[1] = t[1] /\ (s \o Drop(d, Len(t)))[1] = s[1] /\ (s \o Drop(d, Len(t)))[3] = s[3] /\ d # <<>>
    BY <1>7, <1>8, <2>1
  <2>3. QED
    BY <1>8, <1>10, <2>2
<1>11. ASSUME t = s, Len(s) > 0 PROVE Behind(mounts, d) = d /\ d # <<>> /\ d[1] = s[1]
  <2>1. PICK b \in AnyPath : b = s \o Drop(d, Len(t))
    BY <1>8
  <2>2. Len(b) = Len(d) /\ \A i \in 1 .. Len(d) - Len(t) : b[Len(s) + i] = d[i + Len(t)]
    <3>1. Len(b) = Len(s) + (Len(d) - Len(t)) /\ \A i \in 1 .. Len(d) - Len(t) : b[Len(s) + i] = d[i + Len(t)]
      BY <1>7, <2>1, Moved
    <3>2. QED
      BY <1>7, <1>11, <3>1
  <2>3. \A i \in 1 .. Len(b) : b[i] = d[i]
    <3> SUFFICES ASSUME NEW i \in 1 .. Len(b) PROVE b[i] = d[i]
      OBVIOUS
    <3>1. CASE i <= Len(s)
      BY <1>7, <1>8, <1>11, <2>1, <2>2, <3>1
    <3>2. CASE i > Len(s)
      <4>1. PICK j2 \in 1 .. Len(d) - Len(t) : i = Len(s) + j2
        <5>1. i - Len(s) \in 1 .. Len(d) - Len(t) /\ i = Len(s) + (i - Len(s))
          BY <1>7, <1>11, <2>2, <3>2
        <5>2. QED
          BY <5>1
      <4>2. b[i] = d[j2 + Len(t)] /\ j2 + Len(t) = i
        <5>1. b[Len(s) + j2] = d[j2 + Len(t)]
          BY <2>2, <4>1
        <5>2. i \in Nat /\ j2 \in Int /\ j2 + Len(t) = Len(s) + j2
          BY <1>7, <1>11, <2>2
        <5>3. QED
          BY <4>1, <5>1, <5>2
      <4>3. QED
        BY <4>2
    <3>3. QED
      BY <1>7, <2>2, <3>1, <3>2
  <2>4. b = d
    BY <2>2, <2>3, SeqEqual DEF AnyPath
  <2>5. QED
    BY <1>7, <1>8, <1>11, <2>1, <2>4
<1>12. CASE t = s /\ Len(s) > 0 /\ s[1] = "skills" /\ m.mode = "ro"
  BY <1>4, <1>8, <1>11, <1>12
<1>13. CASE t = s /\ Len(s) > 1 /\ s[1] = "mounts" /\ (s[2] \in {"ro", "user-ro"} => m.mode = "ro")
  <2>1. d[2] = s[2]
    BY <1>7, <1>13
  <2>2. QED
    BY <1>4, <1>7, <1>8, <1>11, <1>13, <2>1
<1>14. QED
  BY <1>4, <1>5, <1>6, <1>9, <1>10, <1>12, <1>13 DEF PlacedMount

-----------------------------------------------------------------------------
(* The mounts of a run                                                     *)

MountPlaces(k, S) == {UserMount(k, m) : m \in S}

LEMMA MountsAreFinite ==
    ASSUME NEW k, NEW S \in SUBSET Mounts
    PROVE  IsFiniteSet(MountPlaces(k, S))
<1>1. IsFiniteSet(S)
  BY SandboxAssumption, FS_Subset DEF SandboxAssumption, PathAssumption
<1> DEFINE f == [m \in S |-> UserMount(k, m)]
<1>2. f \in Surjection(S, MountPlaces(k, S))
  BY DEF Surjection, MountPlaces
<1>3. QED
  BY <1>1, <1>2, FS_Surjection

LEMMA BaseMount ==
    ASSUME NEW k \in AnyName, NEW m \in AnyName
    PROVE  /\ Base(k) \in AnyPath /\ Len(Base(k)) = 2 /\ Base(k)[1] = "mounts" /\ Base(k)[2] = k
           /\ Base(k) \o <<m>> \in AnyPath /\ Len(Base(k) \o <<m>>) = 3
           /\ (Base(k) \o <<m>>)[1] = "mounts" /\ (Base(k) \o <<m>>)[2] = k /\ (Base(k) \o <<m>>)[3] = m
<1>1. PICK b \in AnyPath : b = Base(k)
  BY FixedPaths
<1>2. Len(b) = 2 /\ b[1] = "mounts" /\ b[2] = k
  BY <1>1 DEF Base
<1>3. /\ b \o <<m>> \in AnyPath /\ Len(b \o <<m>>) = Len(b) + 1 /\ (b \o <<m>>)[Len(b) + 1] = m
      /\ \A i \in 1 .. Len(b) : (b \o <<m>>)[i] = b[i]
  BY OneMore
<1>4. 1 \in 1 .. Len(b) /\ 2 \in 1 .. Len(b) /\ Len(b) + 1 = 3
  BY <1>2
<1>5. QED
  BY <1>1, <1>2, <1>3, <1>4

LEMMA UserMountPlaced ==
    ASSUME NEW k \in Kinds, NEW m \in Mounts
    PROVE  PlacedMount(UserMount(k, m))
<1>1. k \in AnyName /\ m \in AnyName
  BY CodeNamesAreNames DEF CodeNames, AnyName, Kinds
<1>2. PICK s : s = Base(k) \o <<m>>
  OBVIOUS
<1>3. s \in AnyPath /\ Len(s) = 3 /\ s[1] = "mounts" /\ s[2] = k
  BY <1>1, <1>2, BaseMount
<1>4. UserMount(k, m) = [source |-> s, target |-> s, mode |-> IF k = "user-ro" THEN "ro" ELSE "rw", optional |-> TRUE]
  BY <1>2 DEF UserMount, Mount
<1>5. PICK u : u = UserMount(k, m)
  OBVIOUS
<1>6. u.source = s /\ u.target = s /\ u.mode = IF k = "user-ro" THEN "ro" ELSE "rw"
  BY <1>4, <1>5
<1>7. s[2] \in {"ro", "user-ro"} => u.mode = "ro"
  BY <1>3, <1>6 DEF Kinds
<1>8. PlacedMount(u)
  <2>1. Len(s) > 1
    BY <1>3
  <2>2. u.source = s /\ u.target = s
    BY <1>6
  <2>3. QED
    BY <1>3, <1>7, <2>1, <2>2 DEF PlacedMount
<1>9. QED
  BY <1>5, <1>8

LEMMA MountIs ==
    ASSUME NEW s \in AnyPath, NEW t \in AnyPath, NEW mode, NEW o,
           \/ t = <<"workspace">> /\ s = WorkspaceDir
           \/ /\ Len(t) > 0 /\ t[1] \in {"venv", "user-skills", "persistent"}
              /\ Len(s) > 2 /\ s[1] = "users" /\ s[3] # "sessions"
           \/ t = s /\ Len(s) > 0 /\ s[1] = "skills" /\ mode = "ro"
           \/ /\ t = s /\ Len(s) > 1 /\ s[1] = "mounts"
              /\ s[2] \in {"ro", "user-ro"} => mode = "ro"
    PROVE  PlacedMount(Mount(s, t, mode, o))
<1>1. PICK m : m = Mount(s, t, mode, o)
  OBVIOUS
<1>2. m.source = s /\ m.target = t /\ m.mode = mode
  BY <1>1 DEF Mount
<1>3. PlacedMount(m)
  BY <1>2 DEF PlacedMount
<1>4. QED
  BY <1>1, <1>3

LEMMA SharedPlaced ==
    \E R : SessionMounts \in Seq(R) /\ \A m \in R : PlacedMount(m)
<1>1. /\ "workspace" \in AnyName /\ "venv" \in AnyName /\ "skills" \in AnyName /\ "persistent" \in AnyName
      /\ "users" \in AnyName /\ "me" \in AnyName /\ ".claude" \in AnyName /\ "ro" \in AnyName /\ "rw" \in AnyName
      /\ "ag3ntum" \in AnyName /\ "user-skills" \in AnyName /\ "mounts" \in AnyName
  BY CodeNamesAreNames DEF CodeNames, AnyName
<1>2. PICK m1 : m1 = Mount(WorkspaceDir, <<"workspace">>, "rw", FALSE) /\ PlacedMount(m1)
  <2>1. PICK t \in AnyPath : t = <<"workspace">>
    <3>1. PICK t : t = <<"workspace">>
      OBVIOUS
    <3>2. t \in Seq(AnyName)
      BY <1>1, <3>1
    <3>3. t = <<"workspace">>
      BY <3>1
    <3>4. QED
      BY <3>2, <3>3 DEF AnyPath
  <2>2. PICK s \in AnyPath : s = WorkspaceDir
    BY FixedPaths
  <2>3. PlacedMount(Mount(s, t, "rw", FALSE))
    BY <2>1, <2>2, MountIs
  <2>4. QED
    BY <2>1, <2>2, <2>3
<1>3. PICK m2 : m2 = Mount(<<"users", "me", "venv">>, <<"venv">>, "ro", FALSE) /\ PlacedMount(m2)
  <2>1. PICK t \in AnyPath : t = <<"venv">> /\ Len(t) = 1 /\ t[1] = "venv"
    <3>1. PICK t : t = <<"venv">>
      OBVIOUS
    <3>2. t \in Seq(AnyName)
      BY <1>1, <3>1
    <3>3. t = <<"venv">> /\ Len(t) = 1 /\ t[1] = "venv"
      BY <3>1
    <3>4. QED
      BY <3>2, <3>3 DEF AnyPath
  <2>2. PICK s \in AnyPath : s = <<"users", "me", "venv">> /\ Len(s) = 3 /\ s[1] = "users" /\ s[3] = "venv"
    <3>1. PICK s : s = <<"users", "me", "venv">>
      OBVIOUS
    <3>2. s \in Seq(AnyName)
      BY <1>1, <3>1
    <3>3. s = <<"users", "me", "venv">> /\ Len(s) = 3 /\ s[1] = "users" /\ s[3] = "venv"
      BY <3>1
    <3>4. QED
      BY <3>2, <3>3 DEF AnyPath
  <2>h. Len(t) > 0 /\ t[1] \in {"venv", "user-skills", "persistent"} /\ Len(s) > 2 /\ s[1] = "users" /\ s[3] # "sessions"
    BY <2>1, <2>2
  <2>3. PlacedMount(Mount(s, t, "ro", FALSE))
    BY <2>h, MountIs
  <2>4. QED
    BY <2>1, <2>2, <2>3
<1>4. PICK m3 : m3 = Mount(<<"skills">>, <<"skills">>, "ro", FALSE) /\ PlacedMount(m3)
  <2>1. PICK t \in AnyPath : t = <<"skills">> /\ Len(t) = 1 /\ t[1] = "skills"
    <3>1. PICK t : t = <<"skills">>
      OBVIOUS
    <3>2. t \in Seq(AnyName)
      BY <1>1, <3>1
    <3>3. t = <<"skills">> /\ Len(t) = 1 /\ t[1] = "skills"
      BY <3>1
    <3>4. QED
      BY <3>2, <3>3 DEF AnyPath
  <2>h. Len(t) > 0 /\ t[1] = "skills"
    BY <2>1
  <2>2. PlacedMount(Mount(t, t, "ro", FALSE))
    BY <2>h, MountIs
  <2>3. QED
    BY <2>1, <2>2
<1>5. PICK m4 : m4 = Mount(<<"users", "me", ".claude", "skills">>, UserSkills, "ro", TRUE) /\ PlacedMount(m4)
  <2>1. PICK t \in AnyPath : t = UserSkills /\ Len(t) = 1 /\ t[1] = "user-skills"
    <3>1. PICK t : t = <<"user-skills">>
      OBVIOUS
    <3>2. t \in Seq(AnyName)
      BY <1>1, <3>1
    <3>3. t = UserSkills /\ Len(t) = 1 /\ t[1] = "user-skills"
      BY <3>1 DEF UserSkills
    <3>4. QED
      BY <3>2, <3>3 DEF AnyPath
  <2>2. PICK s \in AnyPath : s = <<"users", "me", ".claude", "skills">> /\ Len(s) = 4 /\ s[1] = "users" /\ s[3] = ".claude"
    <3>1. PICK s : s = <<"users", "me", ".claude", "skills">>
      OBVIOUS
    <3>2. s \in Seq(AnyName)
      BY <1>1, <3>1
    <3>3. s = <<"users", "me", ".claude", "skills">> /\ Len(s) = 4 /\ s[1] = "users" /\ s[3] = ".claude"
      BY <3>1
    <3>4. QED
      BY <3>2, <3>3 DEF AnyPath
  <2>h. Len(t) > 0 /\ t[1] \in {"venv", "user-skills", "persistent"} /\ Len(s) > 2 /\ s[1] = "users" /\ s[3] # "sessions"
    BY <2>1, <2>2
  <2>3. PlacedMount(Mount(s, t, "ro", TRUE))
    BY <2>h, MountIs
  <2>4. QED
    BY <2>1, <2>2, <2>3
<1>6. PICK m5 : m5 = Mount(Base("ro"), Base("ro"), "ro", TRUE) /\ PlacedMount(m5)
  <2>1. PICK t \in AnyPath : t = Base("ro") /\ Len(t) = 2 /\ t[1] = "mounts"
    <3>1. PICK t : t = <<"mounts", "ro">>
      OBVIOUS
    <3>2. t \in Seq(AnyName)
      BY <1>1, <3>1
    <3>3. t = Base("ro") /\ Len(t) = 2 /\ t[1] = "mounts"
      BY <3>1 DEF Base
    <3>4. QED
      BY <3>2, <3>3 DEF AnyPath
  <2>h. Len(t) > 1 /\ Len(t) > 0 /\ t[1] = "mounts"
    BY <2>1
  <2>2. PlacedMount(Mount(t, t, "ro", TRUE))
    BY <2>h, MountIs
  <2>3. QED
    BY <2>1, <2>2
<1>7. PICK m6 : m6 = Mount(Base("rw"), Base("rw"), "rw", TRUE) /\ PlacedMount(m6)
  <2>1. PICK t \in AnyPath : t = Base("rw") /\ Len(t) = 2 /\ t[1] = "mounts" /\ t[2] = "rw"
    <3>1. PICK t : t = <<"mounts", "rw">>
      OBVIOUS
    <3>2. t \in Seq(AnyName)
      BY <1>1, <3>1
    <3>3. t = Base("rw") /\ Len(t) = 2 /\ t[1] = "mounts" /\ t[2] = "rw"
      BY <3>1 DEF Base
    <3>4. QED
      BY <3>2, <3>3 DEF AnyPath
  <2>h. Len(t) > 1 /\ Len(t) > 0 /\ t[1] = "mounts" /\ t[2] \notin {"ro", "user-ro"}
    BY <2>1
  <2>2. PlacedMount(Mount(t, t, "rw", TRUE))
    BY <2>h, MountIs
  <2>3. QED
    BY <2>1, <2>2
<1>8. PICK m7 : m7 = Mount(Persistent, <<"persistent">>, "rw", TRUE) /\ PlacedMount(m7)
  <2>1. PICK t \in AnyPath : t = <<"persistent">> /\ Len(t) = 1 /\ t[1] = "persistent"
    <3>1. PICK t : t = <<"persistent">>
      OBVIOUS
    <3>2. t \in Seq(AnyName)
      BY <1>1, <3>1
    <3>3. t = <<"persistent">> /\ Len(t) = 1 /\ t[1] = "persistent"
      BY <3>1
    <3>4. QED
      BY <3>2, <3>3 DEF AnyPath
  <2>2. PICK s \in AnyPath : s = Persistent /\ Len(s) = 4 /\ s[1] = "users" /\ s[3] = "ag3ntum"
    <3>1. PICK s : s = <<"users", "me", "ag3ntum", "persistent">>
      OBVIOUS
    <3>2. s \in Seq(AnyName)
      BY <1>1, <3>1
    <3>3. s = Persistent /\ Len(s) = 4 /\ s[1] = "users" /\ s[3] = "ag3ntum"
      BY <3>1 DEF Persistent
    <3>4. QED
      BY <3>2, <3>3 DEF AnyPath
  <2>h. Len(t) > 0 /\ t[1] \in {"venv", "user-skills", "persistent"} /\ Len(s) > 2 /\ s[1] = "users" /\ s[3] # "sessions"
    BY <2>1, <2>2
  <2>3. PlacedMount(Mount(s, t, "rw", TRUE))
    BY <2>h, MountIs
  <2>4. QED
    BY <2>1, <2>2, <2>3
<1>9. SessionMounts = <<m1, m2, m3, m4, m5, m6, m7>>
  BY <1>2, <1>3, <1>4, <1>5, <1>6, <1>7, <1>8 DEF SessionMounts
<1>10. PICK R : R = {m1, m2, m3, m4, m5, m6, m7}
  OBVIOUS
<1>11. <<m1, m2, m3, m4, m5, m6, m7>> \in Seq(R)
  BY <1>10
<1>12. \A m \in R : PlacedMount(m)
  <2> SUFFICES ASSUME NEW m \in R PROVE PlacedMount(m)
    OBVIOUS
  <2>1. m = m1 \/ m = m2 \/ m = m3 \/ m = m4 \/ m = m5 \/ m = m6 \/ m = m7
    BY <1>10
  <2>2. /\ PlacedMount(m1) /\ PlacedMount(m2) /\ PlacedMount(m3) /\ PlacedMount(m4)
        /\ PlacedMount(m5) /\ PlacedMount(m6) /\ PlacedMount(m7)
    BY <1>2, <1>3, <1>4, <1>5, <1>6, <1>7, <1>8
  <2>3. QED
    BY <2>1, <2>2
<1>13. SessionMounts \in Seq(R)
  BY <1>9, <1>11
<1>14. QED
  BY <1>12, <1>13

\* The table of a run has the mounts of the session and those of the user.
LEMMA TablePlaced ==
    ASSUME NEW user \in [Kinds -> SUBSET Mounts]
    PROVE  Placed(TableFor(user))
<1> DEFINE There(k) == user[k] \intersect present[k]
           S == UNION {{UserMount(k, m) : m \in There(k)} : k \in Kinds}
<1>r. PICK R : SessionMounts \in Seq(R) /\ \A m \in R : PlacedMount(m)
  BY SharedPlaced
<1>1. \A k \in Kinds : There(k) \in SUBSET Mounts
  OBVIOUS
<1>2. S = MountPlaces("user-ro", There("user-ro")) \union MountPlaces("user-rw", There("user-rw"))
  BY DEF Kinds, MountPlaces
<1>3. IsFiniteSet(S)
  <2>1. There("user-ro") \in SUBSET Mounts /\ There("user-rw") \in SUBSET Mounts
    BY <1>1 DEF Kinds
  <2> HIDE DEF There, S
  <2>2. IsFiniteSet(MountPlaces("user-ro", There("user-ro"))) /\ IsFiniteSet(MountPlaces("user-rw", There("user-rw")))
    BY <2>1, MountsAreFinite
  <2>3. QED
    BY <1>2, <2>2, FS_Union
<1>4. \A m \in S : PlacedMount(m)
  BY <1>1, UserMountPlaced
<1>5. TableFor(user) = SessionMounts \o SetToSeq(S)
  BY DEF TableFor
<1> HIDE DEF S
<1>6. SetToSeq(S) \in [1 .. Cardinality(S) -> S] /\ Cardinality(S) \in Nat
  <2>1. Cardinality(S) \in Nat /\ ExistsBijection(1 .. Cardinality(S), S)
    BY <1>3, FS_CardinalityType
  <2>2. \E f \in [1 .. Cardinality(S) -> S] : IsInjective(f)
    BY <2>1 DEF ExistsBijection, Bijection, Injection
  <2>3. SetToSeq(S) \in [1 .. Cardinality(S) -> S]
    BY <2>2 DEF SetToSeq
  <2>4. QED
    BY <2>1, <2>3
<1>7. PICK q \in Seq(S \union R) : q = SetToSeq(S)
  <2>1. SetToSeq(S) \in Seq(S)
    BY <1>6, SeqDef
  <2>2. Seq(S) \subseteq Seq(S \union R)
    BY SeqMonotonic
  <2>3. QED
    BY <2>1, <2>2
<1>8. PICK p \in Seq(S \union R) : p = SessionMounts
  <2>1. SessionMounts \in Seq(R)
    BY <1>r
  <2>2. Seq(R) \subseteq Seq(S \union R)
    BY SeqMonotonic
  <2>3. QED
    BY <2>1, <2>2
<1>9. \A m \in S \union R : PlacedMount(m)
  BY <1>4, <1>r
<1>10. PICK t \in Seq(S \union R) : t = p \o q
  BY ConcatProperties
<1>11. Len(t) \in Nat /\ DOMAIN t \subseteq 1 .. Len(t) /\ \A i \in DOMAIN t : PlacedMount(t[i])
  BY <1>9
<1>12. QED
  BY <1>5, <1>7, <1>8, <1>10, <1>11 DEF Placed

\* What is bound of a table.
LEMMA BoundPlaced ==
    ASSUME NEW mounts, Placed(mounts), NEW lost
    PROVE  Placed(Bound(mounts, lost))
<1>1. PICK n \in Nat : DOMAIN mounts \subseteq 1 .. n /\ \A i \in DOMAIN mounts : PlacedMount(mounts[i])
  BY DEF Placed
<1>2. /\ DOMAIN Bound(mounts, lost) \subseteq DOMAIN mounts
      /\ \A i \in DOMAIN Bound(mounts, lost) : Bound(mounts, lost)[i] = mounts[i]
  BY DEF Bound, Restrict
<1>3. QED
  BY <1>1, <1>2 DEF Placed

-----------------------------------------------------------------------------
(* What the workspace has for a command                                    *)

\* Where the links of the workspace lead; the one of the persistent directory is
\* there as soon as the session is.
LinksLead ==
    /\ session # "new" => PersistentLink \in DOMAIN symlinks
    /\ \A d \in DOMAIN symlinks :
          \/ d = Own /\ symlinks[d] \in LinkTargets
          \/ IsPrefix(ExternalDir, d) /\ Len(d) = 7 /\ d[7] = "persistent" /\ symlinks[d] = Persistent
          \/ /\ IsPrefix(ExternalDir, d) /\ Len(d) = 8 /\ d[7] \in {"ro", "rw"} \union Kinds /\ d[8] \in Mounts
             /\ symlinks[d] = Base(d[7]) \o <<d[8]>>
          \/ LeadsToSkill(d, symlinks[d])

\* A command runs while the agent does, with what was bound of the run's table.
ShellIsPlaced ==
    /\ Placed(boxMounts)
    /\ command # NoCommand => /\ session = "running" /\ Placed(command.mounts)
                              /\ DOMAIN command = {"boxed", "mounts", "procs"}

LEMMA BelowExternal ==
    ASSUME NEW t \in AnyPath
    PROVE  /\ ExternalDir \o t \in AnyPath /\ IsPrefix(ExternalDir, ExternalDir \o t)
           /\ Len(ExternalDir \o t) = 6 + Len(t) /\ \A i \in 1 .. Len(t) : (ExternalDir \o t)[6 + i] = t[i]
<1>1. /\ ExternalDir \o t \in AnyPath /\ Len(ExternalDir \o t) = Len(ExternalDir) + Len(t)
      /\ \A i \in 1 .. Len(ExternalDir) : (ExternalDir \o t)[i] = ExternalDir[i]
      /\ \A i \in 1 .. Len(t) : (ExternalDir \o t)[Len(ExternalDir) + i] = t[i]
  BY FixedPaths, ConcatIs
<1>2. Len(ExternalDir) = 6 /\ ExternalDir \in AnyPath
  BY FixedPaths
<1>3. Len(ExternalDir) <= Len(ExternalDir \o t)
  <2>1. Len(t) \in Nat
    BY DEF AnyPath
  <2>2. QED
    BY <1>1, <1>2, <2>1
<1>4. QED
  BY <1>1, <1>2, <1>3, PrefixIs

LEMMA PersistentLinkIs ==
    /\ PersistentLink \in AnyPath /\ IsPrefix(ExternalDir, PersistentLink) /\ Len(PersistentLink) = 7
    /\ PersistentLink[6] = "external" /\ PersistentLink[7] = "persistent"
<1>1. "persistent" \in AnyName
  BY CodeNamesAreNames DEF CodeNames, AnyName
<1>2. PICK t : t = <<"persistent">>
  OBVIOUS
<1>3. t \in AnyPath /\ Len(t) = 1 /\ t[1] = "persistent" /\ PersistentLink = ExternalDir \o t
  BY <1>1, <1>2 DEF AnyPath, PersistentLink
<1>4. /\ ExternalDir \o t \in AnyPath /\ IsPrefix(ExternalDir, ExternalDir \o t)
      /\ Len(ExternalDir \o t) = 6 + Len(t) /\ \A i \in 1 .. Len(t) : (ExternalDir \o t)[6 + i] = t[i]
  BY <1>3, BelowExternal
<1>5. \A i \in 1 .. 6 : (ExternalDir \o t)[i] = ExternalDir[i]
  <2>1. \A i \in 1 .. Len(ExternalDir) : (ExternalDir \o t)[i] = ExternalDir[i]
    BY <1>3, ConcatIs, FixedPaths
  <2>2. Len(ExternalDir) = 6
    BY FixedPaths
  <2>3. QED
    BY <2>1, <2>2
<1>6. 1 \in 1 .. Len(t) /\ 6 + 1 = 7 /\ 6 \in 1 .. 6
  BY <1>3
<1>7. (ExternalDir \o t)[6 + 1] = t[1] /\ (ExternalDir \o t)[6] = ExternalDir[6]
  BY <1>4, <1>5, <1>6
<1>8. QED
  BY <1>3, <1>4, <1>6, <1>7, FixedPaths

LEMMA LinksOfMountsLead ==
    ASSUME PathTypeOK, NEW user \in [Kinds -> SUBSET Mounts], NEW to, to = LinksFor(user)
    PROVE  /\ PersistentLink \in DOMAIN to
           /\ \A d \in DOMAIN to :
                 \/ IsPrefix(ExternalDir, d) /\ Len(d) = 7 /\ d[7] = "persistent" /\ to[d] = Persistent
                 \/ /\ IsPrefix(ExternalDir, d) /\ Len(d) = 8 /\ d[7] \in {"ro", "rw"} \union Kinds /\ d[8] \in Mounts
                    /\ to[d] = Base(d[7]) \o <<d[8]>>
<1> DEFINE there(k) == IF k \in Kinds THEN user[k] \intersect present[k] ELSE IF bases[k] THEN Mounts ELSE {}
           places == UNION {{ExternalDir \o <<k, m>> : m \in there(k)} : k \in {"ro", "rw"} \union Kinds}
<1>1. DOMAIN to = places \union {PersistentLink}
  BY DEF LinksFor
<1>2. \A d \in DOMAIN to : to[d] = IF d = PersistentLink THEN Persistent ELSE Base(d[7]) \o <<d[8]>>
  BY <1>1 DEF LinksFor
<1>3. ASSUME NEW d \in DOMAIN to, d # PersistentLink
      PROVE  /\ IsPrefix(ExternalDir, d) /\ Len(d) = 8 /\ d[7] \in {"ro", "rw"} \union Kinds /\ d[8] \in Mounts
             /\ to[d] = Base(d[7]) \o <<d[8]>>
  <2>1. d \in places
    BY <1>1, <1>3
  <2>2. PICK k \in {"ro", "rw"} \union Kinds : d \in {ExternalDir \o <<k, m>> : m \in there(k)}
    BY <2>1
  <2>3. there(k) \subseteq Mounts
    BY <2>2 DEF Kinds
  <2>4. PICK m \in Mounts : d = ExternalDir \o <<k, m>>
    BY <2>2, <2>3
  <2>5. k \in AnyName /\ m \in AnyName
    BY <2>2, <2>4, CodeNamesAreNames, PlainNames DEF CodeNames, Kinds
  <2>6. PICK t : t = <<k, m>>
    OBVIOUS
  <2>7. t \in AnyPath /\ Len(t) = 2 /\ t[1] = k /\ t[2] = m
    BY <2>5, <2>6 DEF AnyPath
  <2>8. d = ExternalDir \o t
    BY <2>4, <2>6
  <2>9. IsPrefix(ExternalDir, d) /\ Len(d) = 6 + 2 /\ \A i \in 1 .. 2 : d[6 + i] = t[i]
    BY <2>7, <2>8, BelowExternal
  <2>10. d[6 + 1] = k /\ d[6 + 2] = m
    BY <2>7, <2>9
  <2>11. IsPrefix(ExternalDir, d) /\ Len(d) = 8 /\ d[7] = k /\ d[8] = m
    BY <2>9, <2>10
  <2>12. QED
    BY <1>2, <1>3, <2>2, <2>4, <2>11
<1>4. QED
  BY <1>1, <1>2, <1>3, PersistentLinkIs

LEMMA LinksLeadStays ==
    ASSUME PathInv, LinksLead, [PathNext]_pathVars
    PROVE  LinksLead'
<1>1. CASE CreateSession
  <2>1. PICK user \in UserMounts : symlinks' = LinksFor(user)
    BY <1>1 DEF CreateSession
  <2>2. PathTypeOK /\ user \in [Kinds -> SUBSET Mounts]
    BY <2>1, ReadMounts DEF PathInv
  <2>3. PICK to : to = LinksFor(user)
    OBVIOUS
  <2>4. /\ PersistentLink \in DOMAIN to
        /\ \A d \in DOMAIN to :
              \/ IsPrefix(ExternalDir, d) /\ Len(d) = 7 /\ d[7] = "persistent" /\ to[d] = Persistent
              \/ /\ IsPrefix(ExternalDir, d) /\ Len(d) = 8 /\ d[7] \in {"ro", "rw"} \union Kinds /\ d[8] \in Mounts
                 /\ to[d] = Base(d[7]) \o <<d[8]>>
    BY <2>2, <2>3, LinksOfMountsLead
  <2>5. QED
    BY <2>1, <2>3, <2>4 DEF LinksLead
<1>2. ASSUME NEW t \in LinkTargets, AgentLinks(t) PROVE LinksLead'
  <2>1. /\ symlinks' = [d \in DOMAIN symlinks \union {Own} |-> IF d = Own THEN t ELSE symlinks[d]]
        /\ Own \notin DOMAIN symlinks /\ session = "running" /\ session' = session
    BY <1>2 DEF AgentLinks
  <2>2. /\ DOMAIN symlinks' = DOMAIN symlinks \union {Own} /\ symlinks'[Own] = t
        /\ \A d \in DOMAIN symlinks : symlinks'[d] = symlinks[d]
    BY <2>1
  <2>3. QED
    BY <2>1, <2>2 DEF LinksLead
<1>3. CASE UNCHANGED symlinks /\ (session' # "new" => session # "new")
  BY <1>3 DEF LinksLead
<1>4. ASSUME session # "new" PROVE PersistentLink \in DOMAIN WithoutSkills
  <2>1. PersistentLink \in DOMAIN symlinks
    BY <1>4 DEF LinksLead
  <2>2. ~IsPrefix(SkillsDir, PersistentLink)
    <3>1. IsPrefix(SkillsDir, PersistentLink) => \A i \in 1 .. Len(SkillsDir) : SkillsDir[i] = PersistentLink[i]
      BY PersistentLinkIs, FixedPaths, PrefixIs
    <3>2. 6 \in 1 .. Len(SkillsDir)
      BY FixedPaths
    <3>3. IsPrefix(SkillsDir, PersistentLink) => SkillsDir[6] = PersistentLink[6]
      BY <3>1, <3>2
    <3>4. QED
      BY <3>3, PersistentLinkIs, FixedPaths
  <2>3. QED
    BY <2>1, <2>2 DEF WithoutSkills, Restrict
<1>5. ASSUME symlinks' = WithoutSkills, session # "new" PROVE LinksLead'
  BY <1>4, <1>5, OthersStay DEF LinksLead
<1>6. ASSUME NEW skills \in SkillLinks, symlinks' = SkillLinked(skills), session # "new" PROVE LinksLead'
  <2>1. PICK to : to = SkillLinked(skills)
    OBVIOUS
  <2>2. /\ DOMAIN WithoutSkills \subseteq DOMAIN to
        /\ \A d \in DOMAIN to : LeadsToSkill(d, to[d]) \/ (d \in DOMAIN symlinks /\ to[d] = symlinks[d])
    BY <2>1, LinksOfSkills
  <2>3. PersistentLink \in DOMAIN to
    BY <1>4, <1>6, <2>2
  <2>4. QED
    BY <1>6, <2>1, <2>2, <2>3 DEF LinksLead
<1>7. CASE Configure
  <2>1. session = "idle" /\ symlinks' \in {symlinks} \union {SkillLinked(skills) : skills \in SkillLinks}
    BY <1>7 DEF Configure
  <2>2. QED
    BY <1>3, <1>6, <2>1
<1>8. CASE Cleanup
  <2>1. session = "running" /\ symlinks' \in {symlinks, WithoutSkills}
    BY <1>8 DEF Cleanup
  <2>2. QED
    BY <1>3, <1>5, <2>1
<1>9. QED
  <2>1. ASSUME NEW k \in Kinds, NEW S \in SUBSET Mounts, EditMounts(k, S) PROVE LinksLead'
    BY <1>3, <2>1 DEF EditMounts
  <2>2. CASE CancelSession \/ FileRequest \/ Restart
    BY <1>3, <2>2 DEF CancelSession, FileRequest, Restart
  <2>3. CASE UNCHANGED pathVars
    BY <1>3, <2>3 DEF pathVars
  <2>4. QED
    BY <1>1, <1>2, <1>7, <1>8, <2>1, <2>2, <2>3 DEF PathNext

LEMMA ShellStays ==
    ASSUME PathInv, ShellIsPlaced, [SandboxNext]_sandboxVars
    PROVE  ShellIsPlaced'
<1>1. Placed(<<>>)
  BY DEF Placed
<1>2. CASE ConfigureRun
  <2>1. PICK user \in UserMounts : boxMounts' \in {Unboxed, TableFor(user)}
    BY <1>2 DEF ConfigureRun
  <2>2. Placed(TableFor(user))
    BY <2>1, ReadMounts, TablePlaced DEF PathInv
  <2>3. session' = "running" /\ UNCHANGED command
    BY <1>2 DEF ConfigureRun, Configure
  <2>4. Placed(boxMounts')
    BY <1>1, <2>1, <2>2 DEF Unboxed
  <2>5. QED
    BY <2>3, <2>4 DEF ShellIsPlaced
<1>3. CASE CancelRun \/ CleanupRun \/ RestartAll
  <2>1. boxMounts' = <<>> /\ command' = NoCommand
    BY <1>3 DEF CancelRun, Leave, CleanupRun, RestartAll, Unboxed
  <2>2. QED
    BY <1>1, <2>1 DEF ShellIsPlaced
<1>4. ASSUME NEW c \in Commands, NEW lost, StartCommand(c, lost) PROVE ShellIsPlaced'
  <2>1. PICK ms : ms = Bound(boxMounts, lost)
    OBVIOUS
  <2>2. Placed(ms)
    BY <2>1, BoundPlaced DEF ShellIsPlaced
  <2>3. /\ command' = [boxed |-> boxMounts # Unboxed, mounts |-> ms,
                       procs |-> {"main"} \union c.background]
        /\ UNCHANGED <<session, boxMounts>> /\ session = "running"
    BY <1>4, <2>1 DEF StartCommand, pathVars
  <2>4. command'.mounts = ms /\ DOMAIN command' = {"boxed", "mounts", "procs"}
    BY <2>3
  <2>5. QED
    BY <2>2, <2>3, <2>4 DEF ShellIsPlaced
<1>5. ASSUME NEW p, ProcessEnds(p) PROVE ShellIsPlaced'
  <2>1. command # NoCommand
    BY <1>5 DEF ProcessEnds, NoCommand
  <2>2. DOMAIN command = {"boxed", "mounts", "procs"}
    BY <2>1 DEF ShellIsPlaced
  <2>3. /\ DOMAIN command' = {"boxed", "mounts", "procs"} /\ command'.mounts = command.mounts
        /\ UNCHANGED <<session, boxMounts>>
    BY <1>5, <2>2 DEF ProcessEnds, pathVars
  <2>4. QED
    BY <2>1, <2>3 DEF ShellIsPlaced
<1>6. CASE AnswerCommand \/ AsyncTimeout
  BY <1>6 DEF AnswerCommand, AsyncTimeout, Leave, ShellIsPlaced
<1>7. CASE \/ \E k \in Kinds, S \in SUBSET Mounts : EditMounts(k, S) /\ Around
           \/ FileRequest /\ Around
           \/ \E t \in LinkTargets : AgentLinks(t) /\ Around
           \/ LeftEnds
  <2>1. UNCHANGED <<session, boxMounts, command>>
    BY <1>7 DEF EditMounts, FileRequest, AgentLinks, Around, LeftEnds, pathVars
  <2>2. QED
    BY <2>1 DEF ShellIsPlaced
<1>8. CASE CreateSession /\ Around
  BY <1>8 DEF CreateSession, Around, ShellIsPlaced
<1>9. CASE UNCHANGED sandboxVars
  <2>1. UNCHANGED <<session, boxMounts, command>>
    BY <1>9 DEF sandboxVars, pathVars
  <2>2. QED
    BY <2>1 DEF ShellIsPlaced
<1>10. QED
  BY <1>2, <1>3, <1>4, <1>5, <1>6, <1>7, <1>8, <1>9 DEF SandboxNext

ShellInv == PathInv /\ LinksLead /\ ShellIsPlaced

LEMMA ShellInvHolds == SandboxSpec => []ShellInv
<1>1. SandboxInit => LinksLead /\ ShellIsPlaced
  <2>1. SandboxInit => /\ symlinks = <<>> /\ session = "new"
                       /\ boxMounts = <<>> /\ command = NoCommand
    BY DEF SandboxInit, PathInit, Unboxed
  <2>2. Placed(<<>>) /\ DOMAIN <<>> = {}
    BY DEF Placed
  <2>3. QED
    BY <2>1, <2>2 DEF LinksLead, ShellIsPlaced
<1>2. PathInv /\ LinksLead /\ ShellIsPlaced /\ [SandboxNext]_sandboxVars => (LinksLead /\ ShellIsPlaced)'
  BY SandboxStep, LinksLeadStays, ShellStays
<1>3. QED
  BY <1>1, <1>2, PathInvHolds, PTL DEF SandboxSpec, ShellInv

-----------------------------------------------------------------------------
(* The links that a command sees                                           *)

\* The place in the container of one below /workspace.
Hosted(d) == WorkspaceDir \o Drop(d, 1)

LEMMA HostedIs ==
    ASSUME NEW d \in AnyPath, d # <<>>
    PROVE  /\ Hosted(d) \in AnyPath /\ Len(d) \in Nat \ {0} /\ Len(Hosted(d)) = Len(d) + 4
           /\ \A i \in 1 .. 5 : Hosted(d)[i] = WorkspaceDir[i]
           /\ \A i \in 2 .. Len(d) : Hosted(d)[i + 4] = d[i]
           /\ IsPrefix(WorkspaceDir, Hosted(d))
<1>1. Len(d) \in Nat \ {0} /\ 1 \in 0 .. Len(d)
  <2>1. Len(d) \in Nat /\ Len(d) # 0
    BY DEF AnyPath
  <2>2. QED
    BY <2>1
<1>2. PICK w \in AnyPath : w = WorkspaceDir /\ Len(w) = 5
  BY FixedPaths
<1>3. PICK h : h = w \o Drop(d, 1)
  OBVIOUS
<1>4. /\ h \in AnyPath /\ Len(h) = Len(w) + (Len(d) - 1)
      /\ \A i \in 1 .. Len(w) : h[i] = w[i]
      /\ \A i \in 1 .. Len(d) - 1 : h[Len(w) + i] = d[i + 1]
  BY <1>1, <1>3, Moved
<1>5. ASSUME NEW i \in 2 .. Len(d) PROVE h[i + 4] = d[i]
  <2>1. i - 1 \in 1 .. Len(d) - 1 /\ 5 + (i - 1) = i + 4 /\ (i - 1) + 1 = i
    BY <1>1
  <2>2. h[5 + (i - 1)] = d[(i - 1) + 1]
    BY <1>2, <1>4, <2>1
  <2>3. QED
    BY <2>1, <2>2
<1>6. Len(h) = Len(d) + 4 /\ \A i \in 1 .. 5 : h[i] = w[i]
  BY <1>1, <1>2, <1>4
<1>7. 5 <= Len(h)
  BY <1>1, <1>6
<1>8. IsPrefix(WorkspaceDir, h)
  BY <1>2, <1>4, <1>6, <1>7, UnderWorkspace
<1>9. QED
  BY <1>1, <1>2, <1>3, <1>4, <1>5, <1>6, <1>8 DEF Hosted

LEMMA WorkspaceBehind ==
    ASSUME NEW mounts, Placed(mounts), NEW d \in AnyPath, d # <<>>, d[1] = "workspace", Covering(mounts, d) # {}
    PROVE  Behind(mounts, d) = Hosted(d)
<1>1. PICK j \in DOMAIN mounts : Topmost(mounts, d) = mounts[j] /\ IsPrefix(mounts[j].target, d)
  BY TopmostCovers
<1>2. PICK m : m = mounts[j]
  OBVIOUS
<1>3. PlacedMount(m) /\ Behind(mounts, d) = m.source \o Drop(d, Len(m.target))
  BY <1>1, <1>2 DEF Placed, Behind
<1>4. PICK t \in AnyPath : t = m.target
  BY <1>3 DEF PlacedMount
<1>5. Len(t) > 0 => t[1] = "workspace"
  <2>1. Len(t) \in Nat /\ \A i \in 1 .. Len(t) : t[i] = d[i]
    BY <1>1, <1>2, <1>4, PrefixIs DEF AnyPath
  <2>2. QED
    BY <2>1
<1>6. t = <<"workspace">> /\ m.source = WorkspaceDir
  BY <1>3, <1>4, <1>5 DEF PlacedMount
<1>7. Len(t) = 1
  BY <1>6
<1>8. QED
  BY <1>3, <1>4, <1>6, <1>7 DEF Hosted

IsWorkspace(m) == m.target = <<"workspace">> /\ m.source = WorkspaceDir

LEMMA LinkBegins ==
    ASSUME NEW d, LinkPlace(d)
    PROVE  d \in AnyPath /\ d[1] = "users" /\ d[3] = "sessions"
<1>1. d \in AnyPath /\ (d = Own \/ IsPrefix(ExternalDir, d) \/ IsPrefix(SkillsDir, d))
  BY DEF LinkPlace
<1>2. ASSUME NEW s \in AnyPath, Len(s) >= 3, s[1] = "users", s[3] = "sessions", IsPrefix(s, d)
      PROVE  d[1] = "users" /\ d[3] = "sessions"
  <2>1. \A i \in 1 .. Len(s) : s[i] = d[i]
    BY <1>1, <1>2, PrefixIs
  <2>2. Len(s) \in Nat
    BY DEF AnyPath
  <2>3. 1 \in 1 .. Len(s) /\ 3 \in 1 .. Len(s)
    BY <1>2, <2>2
  <2>4. QED
    BY <1>2, <2>1, <2>3
<1>3. CASE d = Own
  BY <1>1, <1>3, FixedPaths
<1>4. CASE IsPrefix(ExternalDir, d)
  <2>1. Len(ExternalDir) >= 3 /\ ExternalDir[1] = "users" /\ ExternalDir[3] = "sessions"
    BY FixedPaths
  <2>2. QED
    BY <1>1, <1>2, <1>4, <2>1, FixedPaths
<1>5. CASE IsPrefix(SkillsDir, d)
  <2>1. Len(SkillsDir) >= 3 /\ SkillsDir[1] = "users" /\ SkillsDir[3] = "sessions"
    BY FixedPaths
  <2>2. QED
    BY <1>1, <1>2, <1>5, <2>1, FixedPaths
<1>6. QED
  BY <1>1, <1>3, <1>4, <1>5

\* The links that a command sees are those of the workspace, if it sees that.
LEMMA SeenIs ==
    ASSUME NEW mounts, Placed(mounts), LinksAreOurs, NEW d \in DOMAIN LinksSeen(mounts)
    PROVE  /\ d \in AnyPath /\ d # <<>> /\ d[1] = "workspace"
           /\ Hosted(d) \in DOMAIN symlinks /\ LinksSeen(mounts)[d] = symlinks[Hosted(d)]
           /\ \E i \in DOMAIN mounts : IsWorkspace(mounts[i])
<1> DEFINE under(i) == {l \in DOMAIN symlinks : IsPrefix(mounts[i].source, l)}
           places == UNION {{mounts[i].target \o Drop(l, Len(mounts[i].source)) : l \in under(i)} : i \in DOMAIN mounts}
<1>1. d \in places /\ Behind(mounts, d) \in DOMAIN symlinks /\ LinksSeen(mounts)[d] = symlinks[Behind(mounts, d)]
  BY DEF LinksSeen
<1>2. PICK i \in DOMAIN mounts : d \in {mounts[i].target \o Drop(l, Len(mounts[i].source)) : l \in under(i)}
  BY <1>1
<1>3. PICK l \in DOMAIN symlinks : IsPrefix(mounts[i].source, l) /\ d = mounts[i].target \o Drop(l, Len(mounts[i].source))
  BY <1>2
<1>4. d \in AnyPath
  <2>1. PICK m : m = mounts[i]
    OBVIOUS
  <2>2. m.source \in AnyPath /\ m.target \in AnyPath /\ l \in AnyPath
    BY <2>1 DEF Placed, PlacedMount, LinksAreOurs, LinkPlace
  <2>3. Len(m.source) \in 0 .. Len(l)
    <3>1. Len(m.source) <= Len(l) /\ Len(m.source) \in Nat /\ Len(l) \in Nat
      BY <1>3, <2>1, <2>2, PrefixIs DEF AnyPath
    <3>2. QED
      BY <3>1
  <2>4. m.target \o Drop(l, Len(m.source)) \in AnyPath
    BY <2>2, <2>3, Moved
  <2>5. QED
    BY <1>3, <2>1, <2>4
<1>5. PICK b : b = Behind(mounts, d)
  OBVIOUS
<1>6. b \in DOMAIN symlinks /\ b[1] = "users" /\ b[3] = "sessions"
  BY <1>1, <1>5, LinkBegins DEF LinksAreOurs
<1>7. b # Nothing
  BY <1>6 DEF Nothing
<1>8. /\ d # <<>> /\ d[1] = "workspace" /\ b = WorkspaceDir \o Drop(d, 1)
      /\ \E j \in DOMAIN mounts : mounts[j].target = <<"workspace">> /\ mounts[j].source = WorkspaceDir
  BY <1>4, <1>5, <1>6, <1>7, BehindIs
<1>9. QED
  BY <1>1, <1>4, <1>5, <1>8 DEF Hosted, IsWorkspace

LEMMA LinkIsSeen ==
    ASSUME NEW mounts, Placed(mounts), NEW i \in DOMAIN mounts, IsWorkspace(mounts[i]),
           NEW d \in AnyPath, d # <<>>, d[1] = "workspace", Hosted(d) \in DOMAIN symlinks
    PROVE  d \in DOMAIN LinksSeen(mounts) /\ LinksSeen(mounts)[d] = symlinks[Hosted(d)]
<1> DEFINE under(j) == {l \in DOMAIN symlinks : IsPrefix(mounts[j].source, l)}
           places == UNION {{mounts[j].target \o Drop(l, Len(mounts[j].source)) : l \in under(j)} : j \in DOMAIN mounts}
<1>1. PICK h \in AnyPath : h = Hosted(d)
  BY HostedIs
<1>2. /\ Len(d) \in Nat \ {0} /\ Len(h) = Len(d) + 4 /\ \A k \in 2 .. Len(d) : h[k + 4] = d[k]
      /\ IsPrefix(WorkspaceDir, h)
  BY <1>1, HostedIs
<1>3. PICK t \in AnyPath : t = <<"workspace">> /\ Len(t) = 1 /\ t[1] = "workspace"
  <2>1. "workspace" \in AnyName
    BY CodeNamesAreNames DEF CodeNames, AnyName
  <2>2. PICK n \in AnyName : n = "workspace"
    BY <2>1
  <2>3. PICK u : u = <<n>>
    OBVIOUS
  <2>4. u \in AnyPath /\ Len(u) = 1 /\ u[1] = n /\ u = <<"workspace">>
    BY <2>2, <2>3 DEF AnyPath
  <2>5. QED
    BY <2>2, <2>4
<1>4. PICK e : e = t \o Drop(h, 5)
  OBVIOUS
<1>5. 5 \in 0 .. Len(h)
  BY <1>2
<1>6. /\ e \in AnyPath /\ Len(e) = 1 + (Len(h) - 5) /\ e[1] = "workspace"
      /\ \A k \in 1 .. Len(h) - 5 : e[1 + k] = h[k + 5]
  <2>1. /\ e \in AnyPath /\ Len(e) = Len(t) + (Len(h) - 5) /\ \A k \in 1 .. Len(t) : e[k] = t[k]
        /\ \A k \in 1 .. Len(h) - 5 : e[Len(t) + k] = h[k + 5]
    BY <1>4, <1>5, Moved
  <2>2. QED
    BY <1>3, <2>1
<1>7. \A k \in 1 .. Len(d) : e[k] = d[k]
  <2> SUFFICES ASSUME NEW k \in 1 .. Len(d) PROVE e[k] = d[k]
    OBVIOUS
  <2>1. CASE k = 1
    BY <1>6, <2>1
  <2>2. CASE k # 1
    <3>1. k - 1 \in 1 .. Len(h) - 5 /\ 1 + (k - 1) = k /\ (k - 1) + 5 = k + 4 /\ k \in 2 .. Len(d)
      BY <1>2, <2>2
    <3>2. e[1 + (k - 1)] = h[(k - 1) + 5]
      BY <1>6, <3>1
    <3>3. QED
      BY <1>2, <3>1, <3>2
  <2>3. QED
    BY <2>1, <2>2
<1>8. e = d
  <2>1. Len(e) = Len(d)
    BY <1>2, <1>6
  <2>2. QED
    BY <1>6, <1>7, <2>1, SeqEqual DEF AnyPath
<1>9. mounts[i].target = t /\ mounts[i].source = WorkspaceDir /\ Len(mounts[i].source) = 5
  BY <1>3, FixedPaths DEF IsWorkspace
<1>10. d \in places
  <2>1. h \in under(i)
    BY <1>1, <1>2, <1>9
  <2>2. d = mounts[i].target \o Drop(h, Len(mounts[i].source))
    BY <1>4, <1>8, <1>9
  <2> DEFINE of(j) == {mounts[j].target \o Drop(l, Len(mounts[j].source)) : l \in under(j)}
  <2>3. d \in of(i)
    BY <2>1, <2>2
  <2>4. places = UNION {of(j) : j \in DOMAIN mounts}
    OBVIOUS
  <2> HIDE DEF of, places, under
  <2>5. QED
    BY <2>3, <2>4
<1>11. Covering(mounts, d) # {}
  <2>1. IsPrefix(t, d)
    <3>1. Len(t) <= Len(d) /\ \A k \in 1 .. Len(t) : t[k] = d[k]
      BY <1>2, <1>3
    <3>2. QED
      BY <3>1, PrefixIs
  <2>2. QED
    BY <1>9, <2>1 DEF Covering
<1>12. Behind(mounts, d) = Hosted(d)
  BY <1>11, WorkspaceBehind
<1>13. QED
  BY <1>10, <1>12 DEF LinksSeen

LEMMA StartOfPath ==
    ASSUME NEW s \in AnyPath, NEW i \in 1 .. Len(s)
    PROVE  /\ SubSeq(s, 1, i) \in AnyPath /\ Len(SubSeq(s, 1, i)) = i /\ SubSeq(s, 1, i) # <<>>
           /\ \A j \in 1 .. i : SubSeq(s, 1, i)[j] = s[j]
<1>1. Len(s) \in Nat /\ i \in Int /\ i >= 1 /\ 1 \in Int /\ \A j \in 1 .. i : s[j] \in AnyName
  BY DEF AnyPath
<1>2. /\ SubSeq(s, 1, i) \in Seq(AnyName) /\ Len(SubSeq(s, 1, i)) = (IF 1 <= i THEN i - 1 + 1 ELSE 0)
      /\ \A j \in 1 .. i - 1 + 1 : SubSeq(s, 1, i)[j] = s[1 + j - 1]
  BY <1>1, SubSeqProperties
<1>3. PICK u \in Seq(AnyName) : u = SubSeq(s, 1, i)
  BY <1>2
<1>4. Len(u) = i /\ \A j \in 1 .. i : u[j] = s[j]
  BY <1>1, <1>2, <1>3
<1>5. u # <<>>
  BY <1>1, <1>4
<1>6. QED
  BY <1>3, <1>4, <1>5 DEF AnyPath

LEMMA SkillPlaceBegins ==
    ASSUME NEW d \in AnyPath, IsPrefix(SkillsDir, d)
    PROVE  Len(d) >= 7 /\ d[6] = ".claude" /\ d[7] = "skills"
<1>1. Len(SkillsDir) <= Len(d) /\ \A i \in 1 .. Len(SkillsDir) : SkillsDir[i] = d[i]
  BY FixedPaths, PrefixIs
<1>2. Len(SkillsDir) = 7 /\ SkillsDir[6] = ".claude" /\ SkillsDir[7] = "skills"
  BY FixedPaths
<1>3. Len(d) \in Nat
  BY DEF AnyPath
<1>4. QED
  BY <1>1, <1>2, <1>3

\* Which link of the workspace is on the way to a place below /workspace.
LEMMA LinkOnWay ==
    ASSUME LinksLead, LinksAreOurs, NEW n \in AnyPath, NEW i \in 1 .. Len(n),
           NEW l \in DOMAIN symlinks, l = Hosted(SubSeq(n, 1, i))
    PROVE  \/ i = 2 /\ n[2] = "l" /\ l = Own /\ symlinks[l] \in LinkTargets
           \/ i = 3 /\ n[2] = "external" /\ n[3] = "persistent" /\ symlinks[l] = Persistent
           \/ /\ i = 4 /\ n[2] = "external" /\ n[3] \in {"ro", "rw"} \union Kinds /\ n[4] \in Mounts
              /\ symlinks[l] = Base(n[3]) \o <<n[4]>>
           \/ /\ i = 4 /\ n[2] = ".claude" /\ n[3] = "skills" /\ n[4] \in PathNames
              /\ \E owner : symlinks[l] = SkillDir(owner, n[4])
<1>1. PICK u \in AnyPath : u = SubSeq(n, 1, i)
  BY StartOfPath
<1>2. Len(u) = i /\ u # <<>> /\ \A j \in 1 .. i : u[j] = n[j]
  BY <1>1, StartOfPath
<1>3. i \in Nat /\ i >= 1
  BY DEF AnyPath
<1>4. l \in AnyPath /\ Len(l) = i + 4 /\ \A j \in 2 .. i : l[j + 4] = n[j]
  <2>1. l \in AnyPath /\ Len(l) = Len(u) + 4 /\ \A j \in 2 .. Len(u) : l[j + 4] = u[j]
    BY <1>1, <1>2, HostedIs
  <2>2. \A j \in 2 .. i : j \in 1 .. i
    BY <1>3
  <2>3. QED
    BY <1>2, <2>1, <2>2
<1>5. /\ i >= 2 => l[6] = n[2]
      /\ i >= 3 => l[7] = n[3]
      /\ i >= 4 => l[8] = n[4]
  <2>1. /\ i >= 2 => 2 \in 2 .. i
        /\ i >= 3 => 3 \in 2 .. i
        /\ i >= 4 => 4 \in 2 .. i
    BY <1>3
  <2>2. 2 + 4 = 6 /\ 3 + 4 = 7 /\ 4 + 4 = 8
    OBVIOUS
  <2>3. QED
    BY <1>4, <2>1, <2>2
<1>6. IsPrefix(ExternalDir, l) => l[6] = "external"
  <2>1. IsPrefix(ExternalDir, l) => \A j \in 1 .. Len(ExternalDir) : ExternalDir[j] = l[j]
    BY <1>4, PrefixIs, FixedPaths
  <2>2. 6 \in 1 .. Len(ExternalDir)
    BY FixedPaths
  <2>3. QED
    BY <2>1, <2>2, FixedPaths
<1>7. CASE l = Own /\ symlinks[l] \in LinkTargets
  <2>1. i = 2
    <3>1. Len(l) = 6
      BY <1>7, FixedPaths
    <3>2. i + 4 = 6
      BY <1>4, <3>1
    <3>3. QED
      BY <1>3, <3>2
  <2>2. l[6] = "l" /\ l[6] = n[2]
    BY <1>5, <1>7, <2>1, FixedPaths
  <2>3. QED
    BY <1>7, <2>1, <2>2
<1>8. CASE IsPrefix(ExternalDir, l) /\ Len(l) = 7 /\ l[7] = "persistent" /\ symlinks[l] = Persistent
  <2>1. i = 3
    <3>1. i + 4 = 7
      BY <1>4, <1>8
    <3>2. QED
      BY <1>3, <3>1
  <2>2. QED
    BY <1>5, <1>6, <1>8, <2>1
<1>9. CASE /\ IsPrefix(ExternalDir, l) /\ Len(l) = 8 /\ l[7] \in {"ro", "rw"} \union Kinds /\ l[8] \in Mounts
           /\ symlinks[l] = Base(l[7]) \o <<l[8]>>
  <2>1. i = 4
    <3>1. i + 4 = 8
      BY <1>4, <1>9
    <3>2. QED
      BY <1>3, <3>1
  <2>2. l[6] = n[2] /\ l[7] = n[3] /\ l[8] = n[4] /\ l[6] = "external"
    BY <1>5, <1>6, <1>9, <2>1
  <2>3. QED
    BY <1>9, <2>1, <2>2
<1>10. CASE LeadsToSkill(l, symlinks[l])
  <2>1. IsPrefix(SkillsDir, l) /\ Len(l) = 8 /\ l[8] \in PathNames /\ \E owner : symlinks[l] = SkillDir(owner, l[8])
    BY <1>10 DEF LeadsToSkill
  <2>2. i = 4
    <3>1. i + 4 = 8
      BY <1>4, <2>1
    <3>2. QED
      BY <1>3, <3>1
  <2>3. l[6] = ".claude" /\ l[7] = "skills"
    BY <1>4, <2>1, SkillPlaceBegins
  <2>4. l[6] = n[2] /\ l[7] = n[3] /\ l[8] = n[4]
    BY <1>5, <2>2
  <2>5. n[4] \in PathNames /\ \E owner : symlinks[l] = SkillDir(owner, n[4])
    BY <2>1, <2>4
  <2>6. QED
    BY <2>2, <2>3, <2>4, <2>5
<1>11. QED
  BY <1>7, <1>8, <1>9, <1>10 DEF LinksLead

\* And on the way to its place in the container.
LEMMA LinkOnHostedWay ==
    ASSUME LinksLead, LinksAreOurs, NEW n \in AnyPath, n # <<>>, NEW j \in 1 .. Len(Hosted(n)),
           SubSeq(Hosted(n), 1, j) \in DOMAIN symlinks
    PROVE  \/ j = 6 /\ SubSeq(Hosted(n), 1, j) = Own /\ Len(n) > 1 /\ n[2] = "l"
           \/ Len(n) > 2 /\ n[2] = "external"
           \/ j = 8 /\ Len(n) > 3 /\ n[2] = ".claude" /\ SubSeq(Hosted(n), 1, 8) \in DOMAIN symlinks
<1>1. PICK h \in AnyPath : h = Hosted(n)
  BY HostedIs
<1>2. Len(n) \in Nat /\ Len(h) = Len(n) + 4 /\ \A i \in 2 .. Len(n) : h[i + 4] = n[i]
  BY <1>1, HostedIs
<1>3. PICK l \in AnyPath : l = SubSeq(h, 1, j)
  BY <1>1, StartOfPath
<1>4. Len(l) = j /\ j \in Nat /\ j >= 1 /\ j <= Len(h) /\ \A i \in 1 .. j : l[i] = h[i]
  <2>1. Len(l) = j /\ \A i \in 1 .. j : l[i] = h[i]
    BY <1>1, <1>3, StartOfPath
  <2>2. QED
    BY <1>1, <1>2, <2>1
<1>5. j >= 6 => Len(n) > 1 /\ l[6] = n[2]
  <2> SUFFICES ASSUME j >= 6 PROVE Len(n) > 1 /\ l[6] = n[2]
    OBVIOUS
  <2>1. Len(n) >= 2 /\ 2 \in 2 .. Len(n) /\ 2 + 4 = 6 /\ 6 \in 1 .. j
    BY <1>2, <1>4
  <2>2. h[6] = n[2] /\ l[6] = h[6]
    BY <1>2, <1>4, <2>1
  <2>3. QED
    BY <2>1, <2>2
<1>6. CASE l = Own
  <2>1. j = 6
    BY <1>4, <1>6, FixedPaths
  <2>2. Len(n) > 1 /\ l[6] = n[2] /\ l[6] = "l"
    BY <1>5, <1>6, <2>1, FixedPaths
  <2>3. QED
    BY <1>1, <1>3, <1>6, <2>1, <2>2
<1>7. CASE IsPrefix(ExternalDir, l) /\ Len(l) > 6
  <2>1. Len(ExternalDir) = 6 /\ ExternalDir[6] = "external"
    BY FixedPaths
  <2>2. \A i \in 1 .. Len(ExternalDir) : ExternalDir[i] = l[i]
    BY <1>7, PrefixIs, FixedPaths
  <2>3. l[6] = "external"
    BY <2>1, <2>2
  <2>4. Len(n) > 2
    BY <1>2, <1>4, <1>7
  <2>5. QED
    BY <1>4, <1>5, <1>7, <2>3, <2>4
<1>8. l \in DOMAIN symlinks
  BY <1>1, <1>3
<1>9. CASE IsPrefix(SkillsDir, l) /\ Len(l) = 8
  <2>1. j = 8 /\ l[6] = ".claude"
    BY <1>4, <1>9, SkillPlaceBegins
  <2>2. Len(n) > 3
    BY <1>2, <1>4, <2>1
  <2>3. n[2] = ".claude"
    BY <1>5, <2>1
  <2>4. SubSeq(h, 1, 8) \in DOMAIN symlinks
    BY <1>3, <1>8, <2>1
  <2>5. QED
    BY <1>1, <2>1, <2>2, <2>3, <2>4
<1>10. \/ l = Own
       \/ IsPrefix(ExternalDir, l) /\ (Len(l) = 7 \/ Len(l) = 8)
       \/ IsPrefix(SkillsDir, l) /\ Len(l) = 8
  BY <1>8 DEF LinksLead, LeadsToSkill
<1>11. (Len(l) = 7 \/ Len(l) = 8) => Len(l) > 6
  BY <1>4
<1>12. \/ l = Own
       \/ IsPrefix(ExternalDir, l) /\ Len(l) > 6
       \/ IsPrefix(SkillsDir, l) /\ Len(l) = 8
  BY <1>10, <1>11, Zenon
<1>13. QED
  BY <1>6, <1>7, <1>9, <1>12, Zenon

LEMMA HostedNames ==
    ASSUME NEW n \in Seq(PathNames), n # <<>>
    PROVE  Hosted(n) \in Seq(PathNames)
<1>1. Len(n) \in Nat \ {0} /\ \A i \in 2 .. Len(n) : n[i] \in PathNames
  OBVIOUS
<1>2. SubSeq(n, 2, Len(n)) \in Seq(PathNames)
  BY <1>1, SubSeqProperties
<1>3. PICK w : w = WorkspaceDir
  OBVIOUS
<1>4. w \in Seq(PathNames)
  <2>1. WorkspaceDir \in AnyPath /\ Len(WorkspaceDir) = 5 /\ \A i \in 1 .. 5 : WorkspaceDir[i] \in PathNames
    <3>1. {"users", "me", "sessions", "s", "workspace"} \subseteq PathNames
      BY CodeNamesAreNames DEF CodeNames
    <3>2. /\ WorkspaceDir[1] \in PathNames /\ WorkspaceDir[2] \in PathNames /\ WorkspaceDir[3] \in PathNames
          /\ WorkspaceDir[4] \in PathNames /\ WorkspaceDir[5] \in PathNames
      BY <3>1, FixedPaths
    <3>3. QED
      BY <3>2, FixedPaths
  <2>2. SubSeq(w, 1, Len(w)) \in Seq(PathNames)
    BY <1>3, <2>1, SubSeqProperties
  <2>3. QED
    BY <1>3, <2>1, <2>2, SubSeqFull DEF AnyPath
<1>5. PICK t \in Seq(PathNames) : t = SubSeq(n, 2, Len(n))
  BY <1>2
<1>6. w \o t \in Seq(PathNames)
  BY <1>4
<1>7. QED
  BY <1>3, <1>5, <1>6 DEF Hosted, Drop

-----------------------------------------------------------------------------
(* The two walks                                                           *)

LEMMA NoLinkOnWay ==
    ASSUME NEW mounts, Placed(mounts), LinksAreOurs, NEW n \in Seq(PathNames),
           \A i \in 1 .. Len(n) : Hosted(SubSeq(n, 1, i)) \notin DOMAIN symlinks
    PROVE  Followed(n, LinksSeen(mounts)) = n
<1>1. PICK to : to = LinksSeen(mounts)
  OBVIOUS
<1>2. \A d \in DOMAIN to : Hosted(d) \in DOMAIN symlinks
  BY <1>1, SeenIs
<1>3. LinkFree(to, n)
  BY <1>2 DEF LinkFree
<1>4. QED
  BY <1>1, <1>3, FreeIsItself

\* A command goes where the first link leads, or does not see the workspace at all.
LEMMA ThroughLink ==
    ASSUME NEW mounts, Placed(mounts), LinksAreOurs, NEW n \in Seq(PathNames), n # <<>>, n[1] = "workspace",
           NEW k \in 1 .. Len(n), NEW t \in Seq(PathNames), t # <<>>, t[1] # "workspace",
           Hosted(SubSeq(n, 1, k)) \in DOMAIN symlinks, symlinks[Hosted(SubSeq(n, 1, k))] = t,
           \A i \in 1 .. k - 1 : Hosted(SubSeq(n, 1, i)) \notin DOMAIN symlinks
    PROVE  \/ Followed(n, LinksSeen(mounts)) = n /\ Behind(mounts, n) = Nothing
           \/ Followed(n, LinksSeen(mounts)) = t \o Drop(n, k)
<1>1. PICK to : to = LinksSeen(mounts)
  OBVIOUS
<1>2. \A d \in DOMAIN to : /\ d \in AnyPath /\ d # <<>> /\ d[1] = "workspace" /\ Hosted(d) \in DOMAIN symlinks
                           /\ \E i \in DOMAIN mounts : IsWorkspace(mounts[i])
  BY <1>1, SeenIs
<1>3. n \in AnyPath
  BY PlainNames
<1>4. CASE \E i \in DOMAIN mounts : IsWorkspace(mounts[i])
  <2>1. PICK u \in AnyPath : u = SubSeq(n, 1, k)
    BY <1>3, StartOfPath
  <2>2. u # <<>> /\ u[1] = "workspace"
    <3>1. Len(u) = k /\ u # <<>> /\ \A j \in 1 .. k : u[j] = n[j]
      BY <1>3, <2>1, StartOfPath
    <3>2. 1 \in 1 .. k
      OBVIOUS
    <3>3. QED
      BY <3>1, <3>2
  <2>3. u \in DOMAIN to /\ to[u] = t
    BY <1>1, <1>4, <2>1, <2>2, LinkIsSeen
  <2>4. \A i \in 1 .. k - 1 : SubSeq(n, 1, i) \notin DOMAIN to
    BY <1>2
  <2>5. \A d \in DOMAIN to : d[1] = "workspace"
    BY <1>2
  <2>6. SubSeq(n, 1, k) \in DOMAIN to /\ to[SubSeq(n, 1, k)] = t
    BY <2>1, <2>3
  <2>7. Followed(n, to) = t \o Drop(n, k)
    <3>1. PICK a : a = "workspace"
      OBVIOUS
    <3>2. SubSeq(n, 1, k) \in DOMAIN to
      BY <2>6
    <3>3. to[SubSeq(n, 1, k)] = t
      BY <2>6
    <3>4. \A d \in DOMAIN to : d[1] = a
      BY <2>5, <3>1
    <3>5. t[1] # a
      BY <3>1
    <3>6. LinkAt(to, n, k, t, a)
      BY <2>4, <3>2, <3>3, <3>4, <3>5 DEF LinkAt
    <3>7. QED
      BY <3>6, LedOn
  <2>8. QED
    BY <1>1, <2>7
<1>5. CASE ~\E i \in DOMAIN mounts : IsWorkspace(mounts[i])
  <2>1. DOMAIN to = {}
    BY <1>2, <1>5
  <2>2. LinkFree(to, n)
    BY <2>1 DEF LinkFree
  <2>3. Followed(n, to) = n
    BY <2>2, FreeIsItself
  <2>4. Behind(mounts, n) = Nothing
    <3> SUFFICES ASSUME Behind(mounts, n) # Nothing PROVE FALSE
      OBVIOUS
    <3>1. \E i \in DOMAIN mounts : mounts[i].target = <<"workspace">> /\ mounts[i].source = WorkspaceDir
      BY <1>3, BehindIs
    <3>2. QED
      BY <1>5, <3>1 DEF IsWorkspace
  <2>5. QED
    BY <1>1, <2>3, <2>4
<1>6. QED
  BY <1>4, <1>5

\* Where the validator's directories are.
RootBegins(r) == r \in AnyPath /\ Len(r) > 0 /\ r[1] \in {"users", "skills", "user-skills", "mounts"}
SharedRoot(r) == r[1] = "mounts" => Len(r) > 1 /\ r[2] \in {"ro", "user-ro"}

LEMMA Roots ==
    ASSUME NEW v, UsersMounts(v)
    PROVE  /\ \A r \in ReadOnlyRoots(v) : RootBegins(r) /\ SharedRoot(r)
           /\ \A r \in WritableRoots(v) : RootBegins(r)
<1>1. "ro" \in AnyName /\ "rw" \in AnyName /\ "user-ro" \in AnyName /\ "user-rw" \in AnyName /\ Mounts \subseteq AnyName
  BY CodeNamesAreNames DEF CodeNames, AnyName
<1>2. RootBegins(GlobalSkills) /\ SharedRoot(GlobalSkills)
  <2>1. PICK s \in AnyPath : s = GlobalSkills
    BY FixedPaths
  <2>2. Len(s) = 3 /\ s[1] = "skills"
    BY <2>1 DEF GlobalSkills
  <2>3. QED
    BY <2>1, <2>2 DEF RootBegins, SharedRoot
<1>3. RootBegins(UserSkills) /\ SharedRoot(UserSkills)
  <2>1. PICK s \in AnyPath : s = UserSkills
    BY FixedPaths
  <2>2. Len(s) = 1 /\ s[1] = "user-skills"
    BY <2>1 DEF UserSkills
  <2>3. QED
    BY <2>1, <2>2 DEF RootBegins, SharedRoot
<1>4. RootBegins(Persistent)
  <2>1. PICK s \in AnyPath : s = Persistent
    BY FixedPaths
  <2>2. Len(s) = 4 /\ s[1] = "users"
    BY <2>1 DEF Persistent
  <2>3. QED
    BY <2>1, <2>2 DEF RootBegins
<1>5. RootBegins(WorkspaceDir)
  BY FixedPaths DEF RootBegins
<1>6. RootBegins(Base("ro")) /\ SharedRoot(Base("ro")) /\ RootBegins(Base("rw"))
  <2>1. ASSUME NEW k \in AnyName PROVE RootBegins(Base(k)) /\ (k = "ro" => SharedRoot(Base(k)))
    <3>1. PICK s : s = Base(k)
      OBVIOUS
    <3>2. s \in AnyPath /\ Len(s) = 2 /\ s[1] = "mounts" /\ s[2] = k
      BY <3>1, FixedPaths DEF Base
    <3>3. RootBegins(s) /\ (k = "ro" => SharedRoot(s))
      BY <3>2 DEF RootBegins, SharedRoot
    <3>4. QED
      BY <3>1, <3>3
  <2>2. QED
    BY <1>1, <2>1
<1>7. ASSUME NEW k \in Kinds, NEW m \in v.user[k]
      PROVE  RootBegins(Base(k) \o <<m>>) /\ (k = "user-ro" => SharedRoot(Base(k) \o <<m>>))
  <2>1. k \in AnyName /\ m \in AnyName
    BY <1>1 DEF Kinds, UsersMounts
  <2>2. PICK s : s = Base(k) \o <<m>>
    OBVIOUS
  <2>3. s \in AnyPath /\ Len(s) = 3 /\ s[1] = "mounts" /\ s[2] = k
    BY <2>1, <2>2, BaseMount
  <2>4. RootBegins(s) /\ (k = "user-ro" => SharedRoot(s))
    BY <2>3 DEF RootBegins, SharedRoot
  <2>5. QED
    BY <2>2, <2>4
<1>8. ASSUME NEW prefix \in {<<"skills">>, <<".claude">>, <<"external", "ro">>, <<"external", "user-ro">>}
      PROVE  RootBegins(WorkspaceDir \o prefix) /\ SharedRoot(WorkspaceDir \o prefix)
  <2>1. prefix \in AnyPath
    <3>1. "skills" \in AnyName /\ ".claude" \in AnyName /\ "external" \in AnyName
      BY CodeNamesAreNames DEF CodeNames, AnyName
    <3>2. PICK a \in AnyName : a = "skills"
      BY <3>1
    <3>3. PICK b \in AnyName : b = ".claude"
      BY <3>1
    <3>4. PICK e \in AnyName : e = "external"
      BY <3>1
    <3>5. PICK o \in AnyName : o = "ro"
      BY <1>1
    <3>6. PICK u \in AnyName : u = "user-ro"
      BY <1>1
    <3>7. prefix \in {<<a>>, <<b>>, <<e, o>>, <<e, u>>}
      BY <3>2, <3>3, <3>4, <3>5, <3>6
    <3>8. <<a>> \in AnyPath /\ <<b>> \in AnyPath /\ <<e, o>> \in AnyPath /\ <<e, u>> \in AnyPath
      BY DEF AnyPath
    <3>9. QED
      BY <3>7, <3>8
  <2>2. PICK t \in AnyPath : t = prefix
    BY <2>1
  <2>3. PICK s : s = WorkspaceDir \o t
    OBVIOUS
  <2>4. /\ s \in AnyPath /\ Len(s) = Len(WorkspaceDir) + Len(t)
        /\ \A i \in 1 .. Len(WorkspaceDir) : s[i] = WorkspaceDir[i]
    <3>1. PICK w \in AnyPath : w = WorkspaceDir
      BY FixedPaths
    <3>2. /\ w \o t \in AnyPath /\ Len(w \o t) = Len(w) + Len(t)
          /\ \A i \in 1 .. Len(w) : (w \o t)[i] = w[i]
      BY ConcatIs
    <3>3. QED
      BY <2>3, <3>1, <3>2
  <2>5. Len(WorkspaceDir) = 5 /\ WorkspaceDir[1] = "users" /\ Len(t) \in Nat
    BY FixedPaths DEF AnyPath
  <2>6. Len(s) > 0 /\ s[1] = "users"
    BY <2>4, <2>5
  <2>7. RootBegins(s) /\ SharedRoot(s)
    BY <2>4, <2>6 DEF RootBegins, SharedRoot
  <2>8. QED
    BY <2>2, <2>3, <2>7
<1>9. ASSUME NEW r \in ReadOnlyRoots(v) PROVE RootBegins(r) /\ SharedRoot(r)
  <2>1. \/ r = GlobalSkills \/ r = UserSkills \/ r = Base("ro")
        \/ \E m \in v.user["user-ro"] : r = Base("user-ro") \o <<m>>
        \/ \E prefix \in {<<"skills">>, <<".claude">>, <<"external", "ro">>, <<"external", "user-ro">>} :
              r = WorkspaceDir \o prefix
    BY DEF ReadOnlyRoots
  <2>2. QED
    BY <1>2, <1>3, <1>6, <1>7, <1>8, <2>1 DEF Kinds
<1>10. ASSUME NEW r \in WritableRoots(v) PROVE RootBegins(r)
  <2>1. \/ r = WorkspaceDir \/ r = Persistent \/ r = Base("rw")
        \/ \E m \in v.user["user-rw"] : r = Base("user-rw") \o <<m>>
    BY DEF WritableRoots
  <2>2. QED
    BY <1>4, <1>5, <1>6, <1>7, <2>1 DEF Kinds
<1>11. QED
  BY <1>9, <1>10

LEMMA BelowRoots ==
    ASSUME NEW v, UsersMounts(v), NEW d \in AnyPath, Below(ReadOnlyRoots(v) \union WritableRoots(v), d)
    PROVE  /\ d # <<>> /\ d[1] \in {"users", "skills", "user-skills", "mounts"}
           /\ Below(ReadOnlyRoots(v), d) /\ d[1] = "mounts" => d[2] \in {"ro", "user-ro"}
<1>1. ASSUME NEW r \in AnyPath, IsPrefix(r, d) PROVE Len(r) \in Nat /\ Len(d) >= Len(r) /\ \A i \in 1 .. Len(r) : d[i] = r[i]
  BY <1>1, PrefixIs DEF AnyPath
<1>2. PICK r \in ReadOnlyRoots(v) \union WritableRoots(v) : IsPrefix(r, d)
  BY DEF Below
<1>3. RootBegins(r)
  BY <1>2, Roots
<1>4. d # <<>> /\ d[1] = r[1]
  <2>1. r \in AnyPath /\ Len(r) > 0
    BY <1>3 DEF RootBegins
  <2>2. Len(r) \in Nat /\ Len(d) >= Len(r) /\ \A i \in 1 .. Len(r) : d[i] = r[i]
    BY <1>1, <1>2, <2>1
  <2>3. 1 \in 1 .. Len(r)
    BY <2>1, <2>2
  <2>4. Len(d) > 0
    BY <2>1, <2>2
  <2>5. QED
    BY <2>2, <2>3, <2>4
<1>5. ASSUME Below(ReadOnlyRoots(v), d), d[1] = "mounts" PROVE d[2] \in {"ro", "user-ro"}
  <2>1. PICK q \in ReadOnlyRoots(v) : IsPrefix(q, d)
    BY <1>5 DEF Below
  <2>2. RootBegins(q) /\ SharedRoot(q)
    BY <2>1, Roots
  <2>3. q \in AnyPath /\ Len(q) > 0
    BY <2>2 DEF RootBegins
  <2>4. Len(q) \in Nat /\ \A i \in 1 .. Len(q) : d[i] = q[i]
    BY <1>1, <2>1, <2>3
  <2>5. q[1] = "mounts"
    BY <1>5, <2>3, <2>4
  <2>6. Len(q) > 1 /\ q[2] \in {"ro", "user-ro"}
    BY <2>2, <2>5 DEF SharedRoot
  <2>7. QED
    BY <2>4, <2>6
<1>6. QED
  BY <1>3, <1>4, <1>5 DEF RootBegins

LEMMA HostedEqual ==
    ASSUME NEW u \in AnyPath, u # <<>>, NEW l \in AnyPath, Len(l) = Len(u) + 4,
           \A i \in 1 .. 5 : l[i] = WorkspaceDir[i], \A i \in 2 .. Len(u) : l[i + 4] = u[i]
    PROVE  l = Hosted(u)
<1>1. PICK h \in AnyPath : h = Hosted(u)
  BY HostedIs
<1>2. /\ Len(u) \in Nat \ {0} /\ Len(h) = Len(u) + 4 /\ \A i \in 1 .. 5 : h[i] = WorkspaceDir[i]
      /\ \A i \in 2 .. Len(u) : h[i + 4] = u[i]
  BY <1>1, HostedIs
<1>3. \A i \in 1 .. Len(h) : l[i] = h[i]
  <2> SUFFICES ASSUME NEW i \in 1 .. Len(h) PROVE l[i] = h[i]
    OBVIOUS
  <2>1. CASE i <= 5
    BY <1>2, <2>1
  <2>2. CASE i > 5
    <3>1. i - 4 \in 2 .. Len(u) /\ (i - 4) + 4 = i
      BY <1>2, <2>2
    <3>2. l[(i - 4) + 4] = u[i - 4] /\ h[(i - 4) + 4] = u[i - 4]
      BY <1>2, <3>1
    <3>3. QED
      BY <3>1, <3>2
  <2>3. QED
    BY <1>2, <2>1, <2>2
<1>4. Len(l) = Len(h)
  BY <1>2
<1>5. l = h
  BY <1>3, <1>4, SeqEqual DEF AnyPath
<1>6. QED
  BY <1>1, <1>5

LEMMA HostedStart ==
    ASSUME NEW n \in AnyPath, NEW i \in 1 .. Len(n)
    PROVE  Hosted(SubSeq(n, 1, i)) = WorkspaceDir \o SubSeq(n, 2, i)
<1>1. Len(n) \in Nat /\ i \in Nat /\ i >= 1 /\ i <= Len(n)
  BY DEF AnyPath
<1>2. PICK u \in AnyPath : u = SubSeq(n, 1, i)
  BY StartOfPath
<1>3. Len(u) = i /\ \A j \in 1 .. i : u[j] = n[j]
  BY <1>2, StartOfPath
<1>4. PICK e : e = Drop(u, 1)
  OBVIOUS
<1>5. e \in AnyPath /\ Len(e) = i - 1 /\ \A j \in 1 .. i - 1 : e[j] = u[j + 1]
  <2>1. 1 \in 0 .. Len(u)
    BY <1>1, <1>3
  <2>2. QED
    BY <1>3, <1>4, <2>1, DropIs
<1>6. PICK q : q = SubSeq(n, 2, i)
  OBVIOUS
<1>7. q \in AnyPath /\ Len(q) = i - 1 /\ \A j \in 1 .. i - 1 : q[j] = n[j + 1]
  <2>1. \A j \in 2 .. i : n[j] \in AnyName
    BY <1>1 DEF AnyPath
  <2>2. /\ q \in Seq(AnyName) /\ Len(q) = (IF 2 <= i THEN i - 2 + 1 ELSE 0)
        /\ \A j \in 1 .. i - 2 + 1 : q[j] = n[2 + j - 1]
    BY <1>1, <1>6, <2>1, SubSeqProperties
  <2>3. Len(q) = i - 1
    BY <1>1, <2>2
  <2>4. ASSUME NEW j \in 1 .. i - 1 PROVE q[j] = n[j + 1]
    <3>1. j \in 1 .. i - 2 + 1 /\ 2 + j - 1 = j + 1
      BY <1>1
    <3>2. QED
      BY <2>2, <3>1
  <2>5. QED
    BY <2>2, <2>3, <2>4 DEF AnyPath
<1>8. \A j \in 1 .. i - 1 : e[j] = q[j]
  <2>1. \A j \in 1 .. i - 1 : j + 1 \in 1 .. i
    BY <1>1
  <2>2. QED
    BY <1>3, <1>5, <1>7, <2>1
<1>9. e = q
  BY <1>5, <1>7, <1>8, SeqEqual DEF AnyPath
<1>10. QED
  BY <1>2, <1>4, <1>6, <1>9 DEF Hosted

LEMMA OwnIs ==
    ASSUME NEW n \in AnyPath, Len(n) > 1, n[2] = "l"
    PROVE  Hosted(SubSeq(n, 1, 2)) = Own
<1>1. Len(n) \in Nat /\ 2 \in 1 .. Len(n)
  <2>1. Len(n) \in Nat
    BY DEF AnyPath
  <2>2. QED
    BY <2>1
<1>2. PICK u \in AnyPath : u = SubSeq(n, 1, 2)
  BY <1>1, StartOfPath
<1>3. Len(u) = 2 /\ u # <<>> /\ u[2] = "l"
  <2>1. Len(u) = 2 /\ u # <<>> /\ \A j \in 1 .. 2 : u[j] = n[j]
    BY <1>1, <1>2, StartOfPath
  <2>2. QED
    BY <2>1
<1>4. PICK o \in AnyPath : o = Own
  BY FixedPaths
<1>5. Len(o) = 6 /\ o[6] = "l" /\ \A i \in 1 .. 5 : o[i] = WorkspaceDir[i]
  BY <1>4, FixedPaths
<1>6. Len(o) = Len(u) + 4 /\ \A i \in 2 .. Len(u) : o[i + 4] = u[i]
  <2>1. \A i \in 2 .. Len(u) : i = 2
    BY <1>3
  <2>2. QED
    BY <1>3, <1>5, <2>1
<1>7. o = Hosted(u)
  BY <1>3, <1>5, <1>6, HostedEqual
<1>8. QED
  BY <1>2, <1>4, <1>7

LEMMA PersistentOnWay ==
    ASSUME NEW n \in AnyPath, Len(n) > 2, n[2] = "external", n[3] = "persistent"
    PROVE  Hosted(SubSeq(n, 1, 3)) = PersistentLink
<1>1. Len(n) \in Nat /\ 3 \in 1 .. Len(n)
  <2>1. Len(n) \in Nat
    BY DEF AnyPath
  <2>2. QED
    BY <2>1
<1>2. PICK u \in AnyPath : u = SubSeq(n, 1, 3)
  BY <1>1, StartOfPath
<1>3. Len(u) = 3 /\ u # <<>> /\ u[2] = "external" /\ u[3] = "persistent"
  <2>1. Len(u) = 3 /\ u # <<>> /\ \A j \in 1 .. 3 : u[j] = n[j]
    BY <1>1, <1>2, StartOfPath
  <2>2. QED
    BY <2>1
<1>4. PICK o \in AnyPath : o = PersistentLink
  BY PersistentLinkIs
<1>5. Len(o) = 7 /\ o[6] = "external" /\ o[7] = "persistent" /\ IsPrefix(ExternalDir, o)
  BY <1>4, PersistentLinkIs
<1>6. \A i \in 1 .. 5 : o[i] = WorkspaceDir[i]
  <2>1. \A i \in 1 .. Len(ExternalDir) : ExternalDir[i] = o[i]
    BY <1>5, FixedPaths, PrefixIs
  <2>2. Len(ExternalDir) = 6 /\ \A i \in 1 .. 5 : ExternalDir[i] = WorkspaceDir[i]
    BY FixedPaths
  <2>3. QED
    BY <2>1, <2>2
<1>7. Len(o) = Len(u) + 4 /\ \A i \in 2 .. Len(u) : o[i + 4] = u[i]
  <2>1. \A i \in 2 .. Len(u) : i = 2 \/ i = 3
    BY <1>3
  <2>2. QED
    BY <1>3, <1>5, <2>1
<1>8. o = Hosted(u)
  BY <1>3, <1>6, <1>7, HostedEqual
<1>9. QED
  BY <1>2, <1>4, <1>8

\* The place of a path begins with the place of its beginning.
LEMMA HostedParts ==
    ASSUME NEW n \in AnyPath, NEW i \in 1 .. Len(n)
    PROVE  /\ i + 4 \in 1 .. Len(Hosted(n)) /\ SubSeq(Hosted(n), 1, i + 4) = Hosted(SubSeq(n, 1, i))
           /\ Drop(Hosted(n), i + 4) = Drop(n, i)
<1>1. Len(n) \in Nat /\ n # <<>> /\ i \in 0 .. Len(n) /\ i \in Nat /\ i >= 1
  <2>1. Len(n) \in Nat
    BY DEF AnyPath
  <2>2. QED
    BY <2>1
<1>2. PICK h \in AnyPath : h = Hosted(n)
  BY <1>1, HostedIs
<1>3. /\ Len(h) = Len(n) + 4 /\ \A k \in 1 .. 5 : h[k] = WorkspaceDir[k]
      /\ \A k \in 2 .. Len(n) : h[k + 4] = n[k]
  BY <1>1, <1>2, HostedIs
<1>4. i + 4 \in 1 .. Len(h) /\ i + 4 \in 0 .. Len(h)
  BY <1>1, <1>3
<1>5. PICK l \in AnyPath : l = SubSeq(h, 1, i + 4)
  BY <1>4, StartOfPath
<1>6. Len(l) = i + 4 /\ \A k \in 1 .. i + 4 : l[k] = h[k]
  BY <1>4, <1>5, StartOfPath
<1>7. PICK u \in AnyPath : u = SubSeq(n, 1, i)
  BY StartOfPath
<1>8. Len(u) = i /\ u # <<>> /\ \A k \in 1 .. i : u[k] = n[k]
  BY <1>7, StartOfPath
<1>9. l = Hosted(u)
  <2>1. \A k \in 1 .. 5 : l[k] = WorkspaceDir[k]
    <3>1. \A k \in 1 .. 5 : k \in 1 .. i + 4
      BY <1>1
    <3>2. QED
      BY <1>3, <1>6, <3>1
  <2>2. \A k \in 2 .. Len(u) : l[k + 4] = u[k]
    <3> SUFFICES ASSUME NEW k \in 2 .. Len(u) PROVE l[k + 4] = u[k]
      OBVIOUS
    <3>1. k + 4 \in 1 .. i + 4 /\ k \in 2 .. Len(n) /\ k \in 1 .. i
      BY <1>1, <1>8
    <3>2. QED
      BY <1>3, <1>6, <1>8, <3>1
  <2>3. QED
    BY <1>6, <1>8, <2>1, <2>2, HostedEqual
<1>10. Drop(h, i + 4) = Drop(n, i)
  <2>1. PICK a \in AnyPath : a = Drop(h, i + 4)
    BY <1>4, DropIs
  <2>2. PICK b \in AnyPath : b = Drop(n, i)
    BY <1>1, DropIs
  <2>3. Len(a) = Len(h) - (i + 4) /\ \A k \in 1 .. Len(h) - (i + 4) : a[k] = h[k + (i + 4)]
    BY <1>4, <2>1, DropIs
  <2>4. Len(b) = Len(n) - i /\ \A k \in 1 .. Len(n) - i : b[k] = n[k + i]
    BY <1>1, <2>2, DropIs
  <2>5. Len(a) = Len(b)
    BY <1>1, <1>3, <2>3, <2>4
  <2>6. \A k \in 1 .. Len(b) : a[k] = b[k]
    <3> SUFFICES ASSUME NEW k \in 1 .. Len(b) PROVE a[k] = b[k]
      OBVIOUS
    <3>1. /\ k + i \in 2 .. Len(n) /\ (k + i) + 4 = k + (i + 4)
          /\ k \in 1 .. Len(h) - (i + 4) /\ k \in 1 .. Len(n) - i
      BY <1>1, <1>3, <2>4
    <3>2. h[(k + i) + 4] = n[k + i]
      BY <1>3, <3>1
    <3>3. a[k] = h[k + (i + 4)] /\ b[k] = n[k + i]
      BY <2>3, <2>4, <3>1
    <3>4. QED
      BY <3>1, <3>2, <3>3
  <2>7. a = b
    BY <2>5, <2>6, SeqEqual DEF AnyPath
  <2>8. QED
    BY <2>1, <2>2, <2>7
<1>11. QED
  BY <1>2, <1>4, <1>5, <1>7, <1>9, <1>10

LEMMA OverMount ==
    ASSUME NEW n \in AnyPath, Len(n) > 3, NEW k \in AnyName
    PROVE  Base(k) \o Drop(n, 3) = (Base(k) \o <<n[4]>>) \o Drop(n, 4)
<1>1. Len(n) \in Nat /\ 3 \in 0 .. Len(n) /\ 4 \in 0 .. Len(n) /\ n[4] \in AnyName
  <2>1. Len(n) \in Nat
    BY DEF AnyPath
  <2>2. 4 \in 1 .. Len(n)
    BY <2>1
  <2>3. QED
    BY <2>1, <2>2 DEF AnyPath
<1>2. PICK b \in AnyPath : b = Base(k) /\ Len(b) = 2
  BY <1>1, BaseMount
<1>3. PICK t \in AnyPath : t = Base(k) \o <<n[4]>>
  BY <1>1, BaseMount
<1>4. Len(t) = 3 /\ t[1] = b[1] /\ t[2] = b[2] /\ t[3] = n[4]
  <2>1. b[1] = "mounts" /\ b[2] = k
    BY <1>1, <1>2, BaseMount
  <2>2. Len(t) = 3 /\ t[1] = "mounts" /\ t[2] = k /\ t[3] = n[4]
    BY <1>1, <1>3, BaseMount
  <2>3. QED
    BY <2>1, <2>2
<1>5. PICK x \in AnyPath : x = b \o Drop(n, 3)
  BY <1>1, Moved
<1>6. PICK y \in AnyPath : y = t \o Drop(n, 4)
  BY <1>1, Moved
<1>7. /\ Len(x) = 2 + (Len(n) - 3) /\ \A i \in 1 .. 2 : x[i] = b[i]
      /\ \A i \in 1 .. Len(n) - 3 : x[2 + i] = n[i + 3]
  <2>1. /\ Len(x) = Len(b) + (Len(n) - 3) /\ \A i \in 1 .. Len(b) : x[i] = b[i]
        /\ \A i \in 1 .. Len(n) - 3 : x[Len(b) + i] = n[i + 3]
    <3>1. /\ Len(b \o Drop(n, 3)) = Len(b) + (Len(n) - 3) /\ \A i \in 1 .. Len(b) : (b \o Drop(n, 3))[i] = b[i]
          /\ \A i \in 1 .. Len(n) - 3 : (b \o Drop(n, 3))[Len(b) + i] = n[i + 3]
      BY <1>1, Moved
    <3>2. QED
      BY <1>5, <3>1
  <2>2. Len(b) = 2
    BY <1>2
  <2>3. QED
    BY <2>1, <2>2
<1>8. /\ Len(y) = 3 + (Len(n) - 4) /\ \A i \in 1 .. 3 : y[i] = t[i]
      /\ \A i \in 1 .. Len(n) - 4 : y[3 + i] = n[i + 4]
  <2>1. /\ Len(y) = Len(t) + (Len(n) - 4) /\ \A i \in 1 .. Len(t) : y[i] = t[i]
        /\ \A i \in 1 .. Len(n) - 4 : y[Len(t) + i] = n[i + 4]
    <3>1. /\ Len(t \o Drop(n, 4)) = Len(t) + (Len(n) - 4) /\ \A i \in 1 .. Len(t) : (t \o Drop(n, 4))[i] = t[i]
          /\ \A i \in 1 .. Len(n) - 4 : (t \o Drop(n, 4))[Len(t) + i] = n[i + 4]
      BY <1>1, Moved
    <3>2. QED
      BY <1>6, <3>1
  <2>2. Len(t) = 3
    BY <1>4
  <2>3. QED
    BY <2>1, <2>2
<1>9. Len(x) = Len(y) /\ Len(x) = Len(n) - 1
  BY <1>1, <1>7, <1>8
<1>10. x[1] = y[1] /\ x[2] = y[2] /\ x[3] = y[3]
  <2>1. x[2 + 1] = n[1 + 3]
    <3>1. 1 \in 1 .. Len(n) - 3
      BY <1>1
    <3>2. QED
      BY <1>7, <3>1
  <2>2. x[1] = b[1] /\ x[2] = b[2] /\ x[3] = n[4] /\ y[1] = t[1] /\ y[2] = t[2] /\ y[3] = t[3]
    BY <1>7, <1>8, <2>1
  <2>3. QED
    BY <1>4, <2>2
<1>11. \A i \in 1 .. Len(x) : x[i] = y[i]
  <2> SUFFICES ASSUME NEW i \in 1 .. Len(x) PROVE x[i] = y[i]
    OBVIOUS
  <2>1. CASE i > 3
    <3>1. i - 2 \in 1 .. Len(n) - 3 /\ i - 3 \in 1 .. Len(n) - 4 /\ 2 + (i - 2) = i /\ 3 + (i - 3) = i
          /\ (i - 2) + 3 = (i - 3) + 4
      BY <1>1, <1>9, <2>1
    <3>2. x[2 + (i - 2)] = n[(i - 2) + 3] /\ y[3 + (i - 3)] = n[(i - 3) + 4]
      BY <1>7, <1>8, <3>1
    <3>3. QED
      BY <3>1, <3>2
  <2>2. CASE ~(i > 3)
    <3>1. i = 1 \/ i = 2 \/ i = 3
      BY <1>1, <1>9, <2>2
    <3>2. QED
      BY <1>10, <3>1
  <2>3. QED
    BY <2>1, <2>2
<1>12. x = y
  BY <1>9, <1>11, SeqEqual DEF AnyPath
<1>13. QED
  BY <1>2, <1>3, <1>5, <1>6, <1>12

-----------------------------------------------------------------------------
(* One path, one file                                                      *)

\* What BashSeesSameFile says of a file of the tools and a place in the sandbox.
SeesSame(mounts, d, s) ==
    /\ Behind(mounts, s) \in {Nothing, d}
    /\ Behind(mounts, s) = d /\ ~IsPrefix(WorkspaceDir, d) /\ Below(ReadOnlyRoots(validator), d)
           => Topmost(mounts, s).mode = "ro"

LEMMA SeesNothing ==
    ASSUME NEW mounts, NEW d, NEW s, d # Nothing, Behind(mounts, s) = Nothing
    PROVE  SeesSame(mounts, d, s)
BY DEF SeesSame

LEMMA UsersUnseen ==
    ASSUME NEW mounts, Placed(mounts), NEW s \in AnyPath, s[1] = "users"
    PROVE  Behind(mounts, s) = Nothing
<1> SUFFICES ASSUME Behind(mounts, s) # Nothing PROVE FALSE
  OBVIOUS
<1>1. s[1] \in {"workspace", "venv", "user-skills", "persistent", "skills", "mounts"}
  BY BehindIs
<1>2. QED
  BY <1>1

LEMMA SeesItself ==
    ASSUME NEW mounts, Placed(mounts), UsersMounts(validator), NEW d \in AnyPath,
           Below(ReadOnlyRoots(validator) \union WritableRoots(validator), d), d[1] \notin {"users", "user-skills"}
    PROVE  SeesSame(mounts, d, d)
<1>1. /\ d[1] \in {"skills", "mounts"}
      /\ Below(ReadOnlyRoots(validator), d) /\ d[1] = "mounts" => d[2] \in {"ro", "user-ro"}
  BY BelowRoots
<1>2. d # Nothing
  BY <1>1 DEF Nothing
<1>3. CASE Behind(mounts, d) = Nothing
  BY <1>2, <1>3, SeesNothing
<1>4. CASE Behind(mounts, d) # Nothing
  <2>1. \/ d[1] = "skills" /\ Behind(mounts, d) = d /\ Topmost(mounts, d).mode = "ro"
        \/ /\ d[1] = "mounts" /\ Behind(mounts, d) = d
           /\ d[2] \in {"ro", "user-ro"} => Topmost(mounts, d).mode = "ro"
    <3>1. d[1] # "workspace" /\ d[1] \notin {"venv", "user-skills", "persistent"}
      BY <1>1
    <3>2. QED
      BY <1>4, <3>1, BehindIs
  <2>2. QED
    BY <1>1, <2>1 DEF SeesSame
<1>5. QED
  BY <1>3, <1>4

LEMMA SeesWorkspace ==
    ASSUME NEW mounts, Placed(mounts), NEW n \in AnyPath, n # <<>>, n[1] = "workspace"
    PROVE  SeesSame(mounts, Hosted(n), n)
<1>1. IsPrefix(WorkspaceDir, Hosted(n))
  BY HostedIs
<1>2. Behind(mounts, n) # Nothing => Behind(mounts, n) = Hosted(n)
  <2> SUFFICES ASSUME Behind(mounts, n) # Nothing PROVE Behind(mounts, n) = Hosted(n)
    OBVIOUS
  <2>1. Behind(mounts, n) = WorkspaceDir \o Drop(n, 1)
    BY BehindIs
  <2>2. QED
    BY <2>1 DEF Hosted
<1>3. QED
  BY <1>1, <1>2 DEF SeesSame

\* Where the tools begin.
Started(p) == StartOf(validator, p).root \o StartOf(validator, p).rest

LEMMA StartsAt ==
    ASSUME NEW p \in Paths, Direct(p), NEW n, n = Spelt(p)
    PROVE  /\ ~External(n) => Started(p) = Hosted(n)
           /\ External(n) /\ n[3] \in {"ro", "rw"} => Started(p) = Base(n[3]) \o Drop(n, 3)
           /\ External(n) /\ n[3] = "persistent" => Started(p) = Persistent \o Drop(n, 3)
           /\ External(n) /\ n[3] \in Kinds => Started(p) = (Base(n[3]) \o <<n[4]>>) \o Drop(n, 4)
<1>1. n \in AnyPath /\ n # <<>> /\ n[1] = "workspace" /\ Tail(n) = Drop(n, 1)
  <2>1. n \in AnyPath /\ Len(n) \in Nat \ {0} /\ n[1] = "workspace"
    BY SpeltIs DEF Direct
  <2>2. n # <<>>
    BY <2>1
  <2>3. QED
    BY <2>1, <2>2, TailIs
<1>2. External(n) => /\ Len(n) > 3 /\ (n[3] \in {"ro", "rw"} => validator.base[n[3]])
                     /\ (n[3] \in Kinds => n[4] \in validator.user[n[3]])
  BY DEF Direct
<1>3. CASE ~External(n)
  <2>1. StartOf(validator, p).root = WorkspaceDir /\ StartOf(validator, p).rest = Drop(n, 1)
    BY <1>1, <1>3 DEF StartOf, Root
  <2>2. QED
    BY <1>3, <2>1 DEF Started, Hosted
<1>4. CASE External(n) /\ n[3] \in {"ro", "rw"}
  <2>1. StartOf(validator, p).root = Base(n[3]) /\ StartOf(validator, p).rest = Drop(n, 3)
    BY <1>2, <1>4 DEF StartOf, Root, Kinds
  <2>2. n[3] # "persistent" /\ n[3] \notin Kinds
    BY <1>4 DEF Kinds
  <2>3. QED
    BY <1>4, <2>1, <2>2 DEF Started
<1>5. CASE External(n) /\ n[3] = "persistent"
  <2>1. StartOf(validator, p).root = Persistent /\ StartOf(validator, p).rest = Drop(n, 3)
    BY <1>2, <1>5 DEF StartOf, Root, Kinds
  <2>2. n[3] \notin {"ro", "rw"} /\ n[3] \notin Kinds
    BY <1>5 DEF Kinds
  <2>3. QED
    BY <1>5, <2>1, <2>2 DEF Started
<1>6. CASE External(n) /\ n[3] \in Kinds
  <2>1. StartOf(validator, p).root = Base(n[3]) \o <<n[4]>> /\ StartOf(validator, p).rest = Drop(n, 4)
    BY <1>2, <1>6 DEF StartOf, UserStart, Root, Kinds
  <2>2. n[3] \notin {"ro", "rw"} /\ n[3] # "persistent"
    BY <1>6 DEF Kinds
  <2>3. QED
    BY <1>6, <2>1, <2>2 DEF Started
<1>7. QED
  BY <1>3, <1>4, <1>5, <1>6

\* No link is on a path outside the users' directories.
LEMMA OutsideFree ==
    ASSUME LinksAreOurs, NEW x \in Seq(PathNames), x[1] # "users"
    PROVE  Followed(x, symlinks) = x
<1>1. ASSUME NEW i \in 1 .. Len(x), SubSeq(x, 1, i) \in DOMAIN symlinks PROVE FALSE
  <2>1. PICK u : u = SubSeq(x, 1, i)
    OBVIOUS
  <2>2. u[1] = x[1] /\ u \in AnyPath
    <3>1. x \in AnyPath /\ i \in Nat /\ i >= 1
      BY PlainNames
    <3>2. u \in AnyPath /\ \A j \in 1 .. i : u[j] = x[j]
      BY <2>1, <3>1, StartOfPath
    <3>3. QED
      BY <3>1, <3>2
  <2>3. u[1] = "users"
    BY <1>1, <2>1, LinkBegins DEF LinksAreOurs
  <2>4. QED
    BY <2>2, <2>3
<1>2. LinkFree(symlinks, x)
  BY <1>1 DEF LinkFree
<1>3. QED
  BY <1>2, FreeIsItself

\* A path of the tools that they accept.
Asked(p, n, d) ==
    /\ p \in Paths /\ Direct(p) /\ Linked(p) /\ n = Spelt(p)
    /\ d = Validate(validator, p, FALSE) /\ d # Refused

LEMMA AskedIs ==
    ASSUME ShellInv, NEW p, NEW n, NEW d, Asked(p, n, d), session = "running"
    PROVE  /\ n \in Seq(PathNames) /\ n \in AnyPath /\ n # <<>> /\ n[1] = "workspace"
           /\ UsersMounts(validator)
           /\ d = Followed(Started(p), symlinks) /\ d \in Seq(PathNames) /\ d \in AnyPath
           /\ Below(ReadOnlyRoots(validator) \union WritableRoots(validator), d)
           /\ External(n) => Len(n) > 3
           /\ External(n) /\ n[3] # "persistent" => Hosted(SubSeq(n, 1, 4)) \in DOMAIN symlinks
<1>1. p \in Paths /\ Direct(p) /\ Linked(p) /\ n = Spelt(p) /\ d = Validate(validator, p, FALSE) /\ d # Refused
  BY DEF Asked
<1>2. n \in Seq(PathNames) /\ n \in AnyPath /\ n # <<>> /\ n[1] = "workspace"
  <2>1. n \in Seq(PathNames) /\ n[1] = "workspace"
    BY <1>1, DirectNames DEF Direct
  <2>2. n \in AnyPath /\ Len(n) \in Nat \ {0}
    BY <1>1, SpeltIs
  <2>3. n # <<>>
    BY <2>2
  <2>4. QED
    BY <2>1, <2>2, <2>3
<1>3. UsersMounts(validator)
  <2>1. validator.set /\ resolver.user = validator.user /\ resolver.set
    BY DEF ShellInv, PathInv, RunIsConfigured
  <2>2. QED
    BY <2>1, ResolverTyped DEF UsersMounts, ShellInv, PathInv
<1>4. d = NormalizePath(validator, p) /\ Below(ReadOnlyRoots(validator) \union WritableRoots(validator), d)
  BY <1>1 DEF Validate
<1>5. d = Followed(Started(p), symlinks)
  BY <1>1, <1>4 DEF NormalizePath, Resolve, Started
<1>6. d \in Seq(PathNames) /\ d \in AnyPath
  <2>1. PICK x \in AnyPath : x = Started(p)
    BY <1>1, <1>3, StartTyped DEF Started
  <2>2. LeadsOn(symlinks)
    BY OursLeadOn DEF ShellInv, PathInv
  <2>3. LinkFree(symlinks, d)
    BY <1>5, <2>1, <2>2, FollowedIsFree
  <2>4. QED
    BY <2>3, PlainNames DEF LinkFree
<1>7. External(n) => Len(n) > 3
  BY <1>1 DEF Direct
<1>8. ASSUME External(n), n[3] # "persistent" PROVE Hosted(SubSeq(n, 1, 4)) \in DOMAIN symlinks
  <2>1. WorkspaceDir \o SubSeq(n, 2, 4) \in DOMAIN symlinks
    BY <1>1, <1>8 DEF Linked
  <2>2. 4 \in 1 .. Len(n)
    BY <1>2, <1>7, <1>8
  <2>3. QED
    BY <1>2, <2>1, <2>2, HostedStart
<1>9. QED
  BY <1>2, <1>3, <1>4, <1>5, <1>6, <1>7, <1>8

\* A path whose way leads through the link of a skill.
ThroughSkill(n) == Len(n) > 3 /\ n[2] = ".claude" /\ Hosted(SubSeq(n, 1, 4)) \in DOMAIN symlinks

LEMMA BelowUserSkills ==
    ASSUME NEW d \in AnyPath, d # <<>>, d[1] = "user-skills"
    PROVE  IsPrefix(UserSkills, d)
<1>1. PICK s \in AnyPath : s = UserSkills
  BY FixedPaths
<1>2. Len(s) = 1 /\ s[1] = "user-skills"
  BY <1>1 DEF UserSkills
<1>3. Len(d) \in Nat \ {0}
  <2>1. Len(d) \in Nat /\ Len(d) # 0
    BY DEF AnyPath
  <2>2. QED
    BY <2>1
<1>4. Len(s) <= Len(d) /\ \A i \in 1 .. Len(s) : s[i] = d[i]
  BY <1>2, <1>3
<1>5. QED
  BY <1>1, <1>4, PrefixIs

\* A path that leads through no link.
LEMMA SameWithoutLink ==
    ASSUME ShellInv, NEW mounts, Placed(mounts), NEW p, NEW n, NEW d, Asked(p, n, d), session = "running",
           ~External(n), ~(Own \in DOMAIN symlinks /\ Len(n) > 1 /\ n[2] = "l"), ~ThroughSkill(n)
    PROVE  SeesSame(mounts, d, Followed(n, LinksSeen(mounts)))
<1>1. /\ n \in Seq(PathNames) /\ n \in AnyPath /\ n # <<>> /\ n[1] = "workspace"
      /\ d = Followed(Started(p), symlinks)
  BY AskedIs
<1>2. LinksLead /\ LinksAreOurs
  BY DEF ShellInv, PathInv
<1>3. Started(p) = Hosted(n)
  BY StartsAt DEF Asked
<1>4. ~(Len(n) > 2 /\ n[2] = "external")
  BY <1>1 DEF External
<1>5. Followed(Hosted(n), symlinks) = Hosted(n)
  <2>1. Hosted(n) \in Seq(PathNames)
    BY <1>1, HostedNames
  <2>2. ASSUME NEW j \in 1 .. Len(Hosted(n)), SubSeq(Hosted(n), 1, j) \in DOMAIN symlinks PROVE FALSE
    <3>1. \/ j = 6 /\ SubSeq(Hosted(n), 1, j) = Own /\ Len(n) > 1 /\ n[2] = "l"
          \/ j = 8 /\ Len(n) > 3 /\ n[2] = ".claude" /\ SubSeq(Hosted(n), 1, 8) \in DOMAIN symlinks
      BY <1>1, <1>2, <1>4, <2>2, LinkOnHostedWay
    <3>2. Len(n) > 3 => SubSeq(Hosted(n), 1, 8) = Hosted(SubSeq(n, 1, 4))
      <4> SUFFICES ASSUME Len(n) > 3 PROVE SubSeq(Hosted(n), 1, 8) = Hosted(SubSeq(n, 1, 4))
        OBVIOUS
      <4>1. 4 \in 1 .. Len(n) /\ 4 + 4 = 8
        BY <1>1
      <4>2. SubSeq(Hosted(n), 1, 4 + 4) = Hosted(SubSeq(n, 1, 4))
        BY <1>1, <4>1, HostedParts
      <4>3. QED
        BY <4>1, <4>2
    <3>3. QED
      BY <2>2, <3>1, <3>2 DEF ThroughSkill
  <2>3. LinkFree(symlinks, Hosted(n))
    BY <2>1, <2>2 DEF LinkFree
  <2>4. QED
    BY <2>3, FreeIsItself
<1>6. Followed(n, LinksSeen(mounts)) = n
  <2>1. ASSUME NEW i \in 1 .. Len(n), Hosted(SubSeq(n, 1, i)) \in DOMAIN symlinks PROVE FALSE
    <3>1. PICK l \in DOMAIN symlinks : l = Hosted(SubSeq(n, 1, i))
      BY <2>1
    <3>2. \/ i = 2 /\ n[2] = "l" /\ l = Own
          \/ i = 3 /\ n[2] = "external"
          \/ i = 4 /\ n[2] = "external"
          \/ i = 4 /\ n[2] = ".claude"
      BY <1>1, <1>2, <3>1, LinkOnWay
    <3>3. Len(n) \in Nat /\ Len(n) >= i
      BY <1>1
    <3>4. CASE i = 4 /\ n[2] = ".claude"
      BY <3>1, <3>3, <3>4 DEF ThroughSkill
    <3>5. QED
      BY <1>4, <3>1, <3>2, <3>3, <3>4
  <2>2. QED
    BY <1>1, <1>2, <2>1, NoLinkOnWay
<1>7. d = Hosted(n)
  BY <1>1, <1>3, <1>5
<1>8. QED
  BY <1>1, <1>6, <1>7, SeesWorkspace

\* A path through the agent's own link.
LEMMA SameThroughOwn ==
    ASSUME ShellInv, NEW mounts, Placed(mounts), NEW p, NEW n, NEW d, Asked(p, n, d), ~IsPrefix(UserSkills, d),
           session = "running", ~External(n), Own \in DOMAIN symlinks, Len(n) > 1, n[2] = "l"
    PROVE  SeesSame(mounts, d, Followed(n, LinksSeen(mounts)))
<1>1. /\ n \in Seq(PathNames) /\ n \in AnyPath /\ n # <<>> /\ n[1] = "workspace" /\ UsersMounts(validator)
      /\ d = Followed(Started(p), symlinks) /\ d \in AnyPath
      /\ Below(ReadOnlyRoots(validator) \union WritableRoots(validator), d)
  BY AskedIs
<1>2. LinksLead /\ LinksAreOurs
  BY DEF ShellInv, PathInv
<1>3. Started(p) = Hosted(n)
  BY StartsAt DEF Asked
<1>4. d # <<>> /\ d[1] \in {"users", "skills", "user-skills", "mounts"}
  BY <1>1, BelowRoots
<1>5. d # Nothing
  BY <1>4 DEF Nothing
<1>6. PICK t \in LinkTargets : t = symlinks[Own]
  <2>1. Len(Own) = 6
    BY FixedPaths
  <2>2. PICK o \in DOMAIN symlinks : o = Own
    OBVIOUS
  <2>3. \/ o = Own /\ symlinks[o] \in LinkTargets
        \/ Len(o) = 7
        \/ Len(o) = 8
    BY <1>2 DEF LinksLead, LeadsToSkill
  <2>4. Len(o) # 7 /\ Len(o) # 8
    <3>1. Len(o) = 6
      BY <2>1, <2>2
    <3>2. QED
      BY <3>1
  <2>5. QED
    BY <2>2, <2>3, <2>4
<1>7. t \in Seq(PathNames) /\ t # <<>>
  BY <1>6, SandboxAssumption DEF SandboxAssumption, PathAssumption
<1>8. 2 \in 1 .. Len(n) /\ 2 \in 0 .. Len(n) /\ Len(n) \in Nat
  BY <1>1
<1>9. Hosted(SubSeq(n, 1, 2)) = Own
  BY <1>1, OwnIs
<1>10. \A i \in 1 .. 2 - 1 : Hosted(SubSeq(n, 1, i)) \notin DOMAIN symlinks
  <2> SUFFICES ASSUME NEW i \in 1 .. 2 - 1, Hosted(SubSeq(n, 1, i)) \in DOMAIN symlinks PROVE FALSE
    OBVIOUS
  <2>1. i = 1 /\ i \in 1 .. Len(n)
    BY <1>8
  <2>2. PICK l \in DOMAIN symlinks : l = Hosted(SubSeq(n, 1, i))
    OBVIOUS
  <2>3. i = 2 \/ i = 3 \/ i = 4
    BY <1>1, <1>2, <2>1, <2>2, LinkOnWay
  <2>4. QED
    BY <2>1, <2>3
<1>11. t[1] # "users" => d = t \o Drop(n, 2)
  <2> SUFFICES ASSUME t[1] # "users" PROVE d = t \o Drop(n, 2)
    OBVIOUS
  <2>1. PICK h \in Seq(PathNames) : h = Hosted(n)
    BY <1>1, HostedNames
  <2>2. 6 \in 1 .. Len(h) /\ SubSeq(h, 1, 6) = Own /\ Drop(h, 6) = Drop(n, 2)
    <3>1. 2 + 4 \in 1 .. Len(h) /\ SubSeq(h, 1, 2 + 4) = Hosted(SubSeq(n, 1, 2)) /\ Drop(h, 2 + 4) = Drop(n, 2)
      BY <1>1, <1>8, <2>1, HostedParts
    <3>2. QED
      BY <1>9, <3>1
  <2>3. ASSUME NEW i \in 1 .. 6 - 1, SubSeq(h, 1, i) \in DOMAIN symlinks PROVE FALSE
    <3>1. i \in 1 .. Len(h) /\ i # 6
      BY <2>2
    <3>2. i = 6 \/ n[2] = "external" \/ i = 8
      BY <1>1, <1>2, <2>1, <2>3, <3>1, LinkOnHostedWay
    <3>3. i # 8
      OBVIOUS
    <3>4. QED
      BY <3>1, <3>2, <3>3
  <2>4. PICK a : a = "users"
    OBVIOUS
  <2>5. \A l \in DOMAIN symlinks : l[1] = a
    BY <1>2, <2>4, LinkBegins DEF LinksAreOurs
  <2>6. LinkAt(symlinks, h, 6, t, a)
    BY <1>6, <1>7, <2>2, <2>3, <2>4, <2>5 DEF LinkAt
  <2>7. Followed(h, symlinks) = t \o Drop(h, 6)
    BY <1>7, <2>2, <2>6, LedOn
  <2>8. QED
    BY <1>1, <1>3, <2>1, <2>2, <2>7
<1>12. t \in AnyPath /\ Len(t) \in Nat \ {0}
  BY <1>7, PlainNames
<1>13. t \o Drop(n, 2) \in AnyPath /\ (t \o Drop(n, 2))[1] = t[1]
  <2>1. t \o Drop(n, 2) \in AnyPath /\ \A i \in 1 .. Len(t) : (t \o Drop(n, 2))[i] = t[i]
    BY <1>1, <1>8, <1>12, Moved
  <2>2. 1 \in 1 .. Len(t)
    BY <1>12
  <2>3. QED
    BY <2>1, <2>2
<1>14. t[1] # "workspace"
  <2> SUFFICES ASSUME t[1] = "workspace" PROVE FALSE
    OBVIOUS
  <2>1. d[1] = "workspace"
    BY <1>11, <1>13
  <2>2. QED
    BY <1>4, <2>1
<1>15. \/ Followed(n, LinksSeen(mounts)) = n /\ Behind(mounts, n) = Nothing
       \/ Followed(n, LinksSeen(mounts)) = t \o Drop(n, 2)
  <2>1. Hosted(SubSeq(n, 1, 2)) \in DOMAIN symlinks /\ symlinks[Hosted(SubSeq(n, 1, 2))] = t
    BY <1>6, <1>9
  <2>2. QED
    BY <1>1, <1>2, <1>7, <1>8, <1>10, <1>14, <2>1, ThroughLink
<1>16. CASE Followed(n, LinksSeen(mounts)) = n /\ Behind(mounts, n) = Nothing
  BY <1>5, <1>16, SeesNothing
<1>17. CASE Followed(n, LinksSeen(mounts)) = t \o Drop(n, 2) /\ t[1] = "users"
  <2>1. Behind(mounts, t \o Drop(n, 2)) = Nothing
    BY <1>13, <1>17, UsersUnseen
  <2>2. QED
    BY <1>5, <1>17, <2>1, SeesNothing
<1>18. CASE Followed(n, LinksSeen(mounts)) = t \o Drop(n, 2) /\ t[1] # "users"
  <2>1. d = t \o Drop(n, 2) /\ d[1] = t[1]
    BY <1>11, <1>13, <1>18
  <2>2. d[1] \notin {"users", "user-skills"}
    BY <1>1, <1>4, <1>18, <2>1, BelowUserSkills
  <2>3. SeesSame(mounts, d, d)
    BY <1>1, <2>2, SeesItself
  <2>4. QED
    BY <1>18, <2>1, <2>3
<1>19. QED
  BY <1>15, <1>16, <1>17, <1>18

\* A path through the link of a skill.
LEMMA SameThroughSkill ==
    ASSUME ShellInv, NEW mounts, Placed(mounts), NEW p, NEW n, NEW d, Asked(p, n, d), ~IsPrefix(UserSkills, d),
           session = "running", ~External(n), ThroughSkill(n)
    PROVE  SeesSame(mounts, d, Followed(n, LinksSeen(mounts)))
<1>1. /\ n \in Seq(PathNames) /\ n \in AnyPath /\ n # <<>> /\ n[1] = "workspace" /\ UsersMounts(validator)
      /\ d = Followed(Started(p), symlinks) /\ d \in AnyPath
      /\ Below(ReadOnlyRoots(validator) \union WritableRoots(validator), d)
  BY AskedIs
<1>2. LinksLead /\ LinksAreOurs
  BY DEF ShellInv, PathInv
<1>3. Started(p) = Hosted(n)
  BY StartsAt DEF Asked
<1>4. d # <<>> /\ d[1] \in {"users", "skills", "user-skills", "mounts"}
  BY <1>1, BelowRoots
<1>5. d # Nothing
  BY <1>4 DEF Nothing
<1>6. Len(n) \in Nat /\ 4 \in 1 .. Len(n) /\ 4 \in 0 .. Len(n) /\ n[2] = ".claude"
  BY <1>1 DEF ThroughSkill
<1>7. PICK l \in DOMAIN symlinks : l = Hosted(SubSeq(n, 1, 4))
  BY DEF ThroughSkill
<1>8. PICK t : t = symlinks[l]
  OBVIOUS
<1>9. t \in Seq(PathNames) /\ t # <<>> /\ t[1] \in {"skills", "user-skills"}
  <2>1. PICK k \in 1 .. Len(n) : k = 4
    BY <1>6
  <2>2. l = Hosted(SubSeq(n, 1, k))
    BY <1>7, <2>1
  <2>3. \/ n[2] = "l" \/ n[2] = "external"
        \/ n[4] \in PathNames /\ \E owner : symlinks[l] = SkillDir(owner, n[4])
    BY <1>1, <1>2, <2>2, LinkOnWay
  <2>4. PICK owner : n[4] \in PathNames /\ symlinks[l] = SkillDir(owner, n[4])
    BY <1>6, <2>3
  <2>5. QED
    BY <1>8, <2>4, SkillDirIs
<1>10. t[1] # "users" /\ t[1] # "workspace"
  BY <1>9
<1>11. ASSUME NEW i \in 1 .. 4 - 1, Hosted(SubSeq(n, 1, i)) \in DOMAIN symlinks PROVE FALSE
  <2>1. i \in 1 .. Len(n) /\ i # 4
    BY <1>6
  <2>2. PICK m \in DOMAIN symlinks : m = Hosted(SubSeq(n, 1, i))
    BY <1>11
  <2>3. n[2] = "l" \/ n[2] = "external" \/ i = 4
    BY <1>1, <1>2, <2>1, <2>2, LinkOnWay
  <2>4. QED
    BY <1>6, <2>1, <2>3
<1>12. d = t \o Drop(n, 4)
  <2>1. PICK h \in Seq(PathNames) : h = Hosted(n)
    BY <1>1, HostedNames
  <2>2. 8 \in 1 .. Len(h) /\ SubSeq(h, 1, 8) = l /\ Drop(h, 8) = Drop(n, 4)
    <3>1. 4 + 4 \in 1 .. Len(h) /\ SubSeq(h, 1, 4 + 4) = Hosted(SubSeq(n, 1, 4)) /\ Drop(h, 4 + 4) = Drop(n, 4)
      BY <1>1, <1>6, <2>1, HostedParts
    <3>2. QED
      BY <1>7, <3>1
  <2>3. ASSUME NEW j \in 1 .. 8 - 1, SubSeq(h, 1, j) \in DOMAIN symlinks PROVE FALSE
    <3>1. j \in 1 .. Len(h) /\ j # 8
      BY <2>2
    <3>2. n[2] = "l" \/ n[2] = "external" \/ j = 8
      BY <1>1, <1>2, <2>1, <2>3, <3>1, LinkOnHostedWay
    <3>3. QED
      BY <1>6, <3>1, <3>2
  <2>4. PICK a : a = "users"
    OBVIOUS
  <2>5. \A x \in DOMAIN symlinks : x[1] = a
    BY <1>2, <2>4, LinkBegins DEF LinksAreOurs
  <2>6. LinkAt(symlinks, h, 8, t, a)
    BY <1>7, <1>8, <1>9, <1>10, <2>2, <2>3, <2>4, <2>5 DEF LinkAt
  <2>7. Followed(h, symlinks) = t \o Drop(h, 8)
    BY <1>9, <2>2, <2>6, LedOn
  <2>8. QED
    BY <1>1, <1>3, <2>1, <2>2, <2>7
<1>13. d[1] = t[1]
  <2>1. t \in AnyPath /\ Len(t) \in Nat \ {0}
    BY <1>9, PlainNames
  <2>2. \A i \in 1 .. Len(t) : (t \o Drop(n, 4))[i] = t[i]
    BY <1>1, <1>6, <2>1, Moved
  <2>3. 1 \in 1 .. Len(t)
    BY <2>1
  <2>4. QED
    BY <1>12, <2>2, <2>3
<1>14. \/ Followed(n, LinksSeen(mounts)) = n /\ Behind(mounts, n) = Nothing
       \/ Followed(n, LinksSeen(mounts)) = t \o Drop(n, 4)
  <2>1. Hosted(SubSeq(n, 1, 4)) \in DOMAIN symlinks /\ symlinks[Hosted(SubSeq(n, 1, 4))] = t
    BY <1>7, <1>8
  <2>2. \A i \in 1 .. 4 - 1 : Hosted(SubSeq(n, 1, i)) \notin DOMAIN symlinks
    BY <1>11
  <2>3. QED
    BY <1>1, <1>2, <1>6, <1>9, <1>10, <2>1, <2>2, ThroughLink
<1>15. d[1] \notin {"users", "user-skills"}
  BY <1>1, <1>4, <1>10, <1>13, BelowUserSkills
<1>16. SeesSame(mounts, d, d)
  BY <1>1, <1>15, SeesItself
<1>17. QED
  BY <1>5, <1>12, <1>14, <1>16, SeesNothing

\* Before the name of the area, or of the mount, no link is on the way.
LEMMA NoEarlierLink ==
    ASSUME ShellInv, NEW n \in AnyPath, n[2] = "external", NEW k \in 3 .. 4, k <= Len(n), k = 4 => n[3] # "persistent"
    PROVE  \A i \in 1 .. k - 1 : Hosted(SubSeq(n, 1, i)) \notin DOMAIN symlinks
<1> SUFFICES ASSUME NEW i \in 1 .. k - 1, Hosted(SubSeq(n, 1, i)) \in DOMAIN symlinks PROVE FALSE
  OBVIOUS
<1>1. LinksLead /\ LinksAreOurs
  BY DEF ShellInv, PathInv
<1>2. Len(n) \in Nat /\ i \in 1 .. Len(n) /\ i < k
  <2>1. Len(n) \in Nat
    BY DEF AnyPath
  <2>2. QED
    BY <2>1
<1>3. PICK l \in DOMAIN symlinks : l = Hosted(SubSeq(n, 1, i))
  OBVIOUS
<1>4. \/ i = 2 /\ n[2] = "l"
      \/ i = 3 /\ n[3] = "persistent"
      \/ i = 4
  BY <1>1, <1>2, <1>3, LinkOnWay
<1>5. i # 2
  BY <1>4
<1>6. QED
  BY <1>2, <1>4, <1>5

\* A path into a mount that the tools reach at its own place.
LEMMA SameInMount ==
    ASSUME ShellInv, NEW mounts, Placed(mounts), NEW p, NEW n, NEW d, Asked(p, n, d), session = "running",
           External(n), n[3] # "persistent"
    PROVE  SeesSame(mounts, d, Followed(n, LinksSeen(mounts)))
<1>1. /\ n \in Seq(PathNames) /\ n \in AnyPath /\ n # <<>> /\ n[1] = "workspace" /\ UsersMounts(validator)
      /\ d = Followed(Started(p), symlinks) /\ d \in AnyPath
      /\ Below(ReadOnlyRoots(validator) \union WritableRoots(validator), d)
      /\ Len(n) > 3 /\ Hosted(SubSeq(n, 1, 4)) \in DOMAIN symlinks
  BY AskedIs
<1>2. LinksLead /\ LinksAreOurs
  BY DEF ShellInv, PathInv
<1>3. 4 \in 1 .. Len(n) /\ 4 \in 0 .. Len(n) /\ Len(n) \in Nat /\ n[2] = "external"
  BY <1>1 DEF External
<1>4. PICK l \in DOMAIN symlinks : l = Hosted(SubSeq(n, 1, 4))
  BY <1>1
<1>5. n[3] \in {"ro", "rw"} \union Kinds /\ n[4] \in Mounts /\ symlinks[l] = Base(n[3]) \o <<n[4]>>
  BY <1>1, <1>2, <1>3, <1>4, LinkOnWay
<1>6. PICK k \in AnyName : k = n[3]
  BY <1>1, <1>3 DEF AnyPath
<1>7. PICK m \in AnyName : m = n[4]
  BY <1>1, <1>3 DEF AnyPath
<1>8. PICK t : t = Base(k) \o <<m>>
  OBVIOUS
<1>9. t \in AnyPath /\ Len(t) = 3 /\ t[1] = "mounts"
  BY <1>8, BaseMount
<1>10. t \in Seq(PathNames) /\ t # <<>>
  <2>1. t # <<>>
    BY <1>9
  <2>2. t \in Seq(PathNames)
    <3>1. symlinks[l] \in Seq(PathNames)
      BY <1>2 DEF LinksAreOurs, LinkTarget
    <3>2. QED
      BY <1>5, <1>6, <1>7, <1>8, <3>1
  <2>3. QED
    BY <2>1, <2>2
<1>11. Started(p) = t \o Drop(n, 4)
  <2>1. p \in Paths /\ Direct(p) /\ n = Spelt(p)
    BY DEF Asked
  <2>2. CASE n[3] \in {"ro", "rw"}
    <3>1. Started(p) = Base(k) \o Drop(n, 3)
      BY <1>6, <2>1, <2>2, StartsAt
    <3>2. Base(k) \o Drop(n, 3) = (Base(k) \o <<n[4]>>) \o Drop(n, 4)
      BY <1>1, OverMount
    <3>3. QED
      BY <1>7, <1>8, <3>1, <3>2
  <2>3. CASE n[3] \in Kinds
    <3>1. Started(p) = (Base(n[3]) \o <<n[4]>>) \o Drop(n, 4)
      BY <2>1, <2>3, StartsAt
    <3>2. QED
      BY <1>6, <1>7, <1>8, <3>1
  <2>4. QED
    BY <1>5, <2>2, <2>3
<1>12. PICK x : x = t \o Drop(n, 4)
  OBVIOUS
<1>13. x \in Seq(PathNames) /\ x[1] = "mounts"
  <2>1. x[1] = t[1]
    <3>1. \A i \in 1 .. Len(t) : (t \o Drop(n, 4))[i] = t[i]
      BY <1>1, <1>3, <1>9, Moved
    <3>2. 1 \in 1 .. Len(t)
      BY <1>9
    <3>3. QED
      BY <1>12, <3>1, <3>2
  <2>2. x \in Seq(PathNames)
    <3>1. \A i \in 4 + 1 .. Len(n) : n[i] \in PathNames
      BY <1>1, <1>3
    <3>2. SubSeq(n, 4 + 1, Len(n)) \in Seq(PathNames)
      BY <1>3, <3>1, SubSeqProperties
    <3>3. PICK q \in Seq(PathNames) : q = Drop(n, 4)
      BY <3>2 DEF Drop
    <3>4. t \o q \in Seq(PathNames)
      BY <1>10
    <3>5. QED
      BY <1>12, <3>3, <3>4
  <2>3. QED
    BY <1>9, <2>1, <2>2
<1>14. d = x
  <2>1. x[1] # "users"
    BY <1>13
  <2>2. Followed(x, symlinks) = x
    BY <1>2, <1>13, <2>1, OutsideFree
  <2>3. QED
    BY <1>1, <1>11, <1>12, <2>2
<1>15. \/ Followed(n, LinksSeen(mounts)) = n /\ Behind(mounts, n) = Nothing
       \/ Followed(n, LinksSeen(mounts)) = t \o Drop(n, 4)
  <2>1. \A i \in 1 .. 4 - 1 : Hosted(SubSeq(n, 1, i)) \notin DOMAIN symlinks
    BY <1>1, <1>3, NoEarlierLink
  <2>2. symlinks[Hosted(SubSeq(n, 1, 4))] = t
    BY <1>4, <1>5, <1>6, <1>7, <1>8
  <2>3. t[1] # "workspace"
    BY <1>9
  <2>4. QED
    BY <1>1, <1>2, <1>3, <1>10, <2>1, <2>2, <2>3, ThroughLink
<1>16. d[1] \notin {"users", "user-skills"} /\ d # Nothing
  BY <1>13, <1>14 DEF Nothing
<1>17. SeesSame(mounts, d, d)
  BY <1>1, <1>16, SeesItself
<1>18. QED
  BY <1>12, <1>14, <1>15, <1>16, <1>17, SeesNothing

\* The persistent directory, which the sandbox has elsewhere.
LEMMA SameInPersistent ==
    ASSUME ShellInv, NEW mounts, Placed(mounts), NEW p, NEW n, NEW d, Asked(p, n, d), session = "running",
           External(n), n[3] = "persistent"
    PROVE  SeesSame(mounts, d, Followed(n, LinksSeen(mounts)))
<1>1. /\ n \in Seq(PathNames) /\ n \in AnyPath /\ n # <<>> /\ n[1] = "workspace" /\ UsersMounts(validator)
      /\ d \in AnyPath /\ Below(ReadOnlyRoots(validator) \union WritableRoots(validator), d)
      /\ Len(n) > 3
  BY AskedIs
<1>2. LinksLead /\ LinksAreOurs
  BY DEF ShellInv, PathInv
<1>3. 3 \in 1 .. Len(n) /\ 3 \in 0 .. Len(n) /\ Len(n) \in Nat /\ n[2] = "external" /\ Len(n) > 2
  BY <1>1 DEF External
<1>4. d # <<>> /\ d[1] \in {"users", "skills", "user-skills", "mounts"}
  BY <1>1, BelowRoots
<1>5. d # Nothing
  BY <1>4 DEF Nothing
<1>6. PICK l \in DOMAIN symlinks : l = Hosted(SubSeq(n, 1, 3))
  <2>1. PersistentLink \in DOMAIN symlinks
    BY <1>2 DEF LinksLead
  <2>2. QED
    BY <1>1, <1>3, <2>1, PersistentOnWay
<1>7. symlinks[l] = Persistent
  <2>1. PICK i \in 1 .. Len(n) : i = 3
    BY <1>3
  <2>2. \/ i = 2
        \/ symlinks[l] = Persistent
        \/ i = 4
    BY <1>1, <1>2, <1>6, <2>1, LinkOnWay
  <2>3. QED
    BY <2>1, <2>2
<1>8. PICK t : t = Persistent
  OBVIOUS
<1>9. t \in Seq(PathNames) /\ t \in AnyPath /\ Len(t) = 4 /\ t[1] = "users" /\ t # <<>>
  <2>1. Len(t) = 4 /\ t[1] = "users"
    BY <1>8 DEF Persistent
  <2>2. t \in Seq(PathNames)
    <3>1. symlinks[l] \in Seq(PathNames)
      BY <1>2 DEF LinksAreOurs, LinkTarget
    <3>2. QED
      BY <1>7, <1>8, <3>1
  <2>3. t # <<>>
    BY <2>1
  <2>4. QED
    BY <2>1, <2>2, <2>3, PlainNames
<1>10. \/ Followed(n, LinksSeen(mounts)) = n /\ Behind(mounts, n) = Nothing
       \/ Followed(n, LinksSeen(mounts)) = t \o Drop(n, 3)
  <2>1. \A i \in 1 .. 3 - 1 : Hosted(SubSeq(n, 1, i)) \notin DOMAIN symlinks
    BY <1>1, <1>3, NoEarlierLink
  <2>2. symlinks[Hosted(SubSeq(n, 1, 3))] = t /\ Hosted(SubSeq(n, 1, 3)) \in DOMAIN symlinks
    BY <1>6, <1>7, <1>8
  <2>3. t[1] # "workspace"
    BY <1>9
  <2>4. QED
    BY <1>1, <1>2, <1>3, <1>9, <2>1, <2>2, <2>3, ThroughLink
<1>11. Behind(mounts, t \o Drop(n, 3)) = Nothing
  <2>1. t \o Drop(n, 3) \in AnyPath /\ \A i \in 1 .. Len(t) : (t \o Drop(n, 3))[i] = t[i]
    BY <1>1, <1>3, <1>9, Moved
  <2>2. (t \o Drop(n, 3))[1] = "users"
    BY <1>9, <2>1
  <2>3. QED
    BY <2>1, <2>2, UsersUnseen
<1>12. QED
  BY <1>5, <1>10, <1>11, SeesNothing

\* The command and the tools mean the same file by the same path, if the command sees
\* one, and it cannot write in a mount that is read-only for them: for every
\* configuration of mounts, every path, every choice of skills that a run links and every
\* link of the agent.  The property leaves out what the tools find below /user-skills.
THEOREM CommandsSeeTheSameFile == SandboxSpec => []BashSeesSameFile
<1>1. ASSUME ShellInv PROVE BashSeesSameFile
  <2> SUFFICES ASSUME command # NoCommand, NEW p \in Paths, Direct(p), Linked(p),
                      Validate(validator, p, FALSE) # Refused, ~IsPrefix(UserSkills, Validate(validator, p, FALSE))
               PROVE  SeesSame(command.mounts, Validate(validator, p, FALSE), Seen(p, LinksSeen(command.mounts)))
    BY DEF BashSeesSameFile, SeesSameFile, SeesSame
  <2>1. session = "running" /\ Placed(command.mounts)
    BY <1>1 DEF ShellInv, ShellIsPlaced
  <2>2. PICK mounts : mounts = command.mounts
    OBVIOUS
  <2>3. PICK d : d = Validate(validator, p, FALSE)
    OBVIOUS
  <2>4. PICK n : n = Spelt(p)
    OBVIOUS
  <2>5. Asked(p, n, d) /\ Placed(mounts) /\ ~IsPrefix(UserSkills, d)
    BY <2>1, <2>2, <2>3, <2>4 DEF Asked
  <2>6. SeesSame(mounts, d, Followed(n, LinksSeen(mounts)))
    <3>1. CASE External(n) /\ n[3] = "persistent"
      BY <1>1, <2>1, <2>5, <3>1, SameInPersistent
    <3>2. CASE External(n) /\ n[3] # "persistent"
      BY <1>1, <2>1, <2>5, <3>2, SameInMount
    <3>3. CASE ~External(n) /\ ThroughSkill(n)
      BY <1>1, <2>1, <2>5, <3>3, SameThroughSkill
    <3>4. CASE ~External(n) /\ Own \in DOMAIN symlinks /\ Len(n) > 1 /\ n[2] = "l"
      BY <1>1, <2>1, <2>5, <3>4, SameThroughOwn
    <3>5. CASE ~External(n) /\ ~ThroughSkill(n) /\ ~(Own \in DOMAIN symlinks /\ Len(n) > 1 /\ n[2] = "l")
      BY <1>1, <2>1, <2>5, <3>5, SameWithoutLink
    <3>6. QED
      BY <3>1, <3>2, <3>3, <3>4, <3>5
  <2>7. QED
    BY <2>2, <2>3, <2>4, <2>6 DEF Seen
<1>2. QED
  BY <1>1, ShellInvHolds, PTL

=============================================================================

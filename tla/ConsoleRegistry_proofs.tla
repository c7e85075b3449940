------------------------ MODULE ConsoleRegistry_proofs ------------------------
(***************************************************************************)
(* Proofs about ConsoleRegistry, for every set of devices and codes, and   *)
(* every number of tokens and faults.                                      *)
(*                                                                         *)
(* A property of what the console remembers has to hold of both copies of  *)
(* its file as well, because a restart may load either.  The invariant     *)
(* says so: a spent code is in neither copy, no copy holds a channel token *)
(* that was withdrawn or holds one twice, and a device that was told of    *)
(* its enrolment is in each copy that can still be loaded.                 *)
(***************************************************************************)
EXTENDS ConsoleRegistry, FiniteSetTheorems, TLAPS

\* The copies of codes.json respect the cap.
Fit ==
    /\ Cardinality(codesFile.primary) <= MaxOutstanding
    /\ Cardinality(codesFile.backup) <= MaxOutstanding

Spending(c) == \E d \in Device : <<d, c>> \in inHand

\* A spent code is with one registration, and in no copy.
Once(c) ==
    /\ admitted[c] <= 1
    /\ admitted[c] = 1 => ~Spending(c)
    /\ \A d, e \in Device : <<d, c>> \in inHand /\ <<e, c>> \in inHand => d = e
    /\ admitted[c] = 1 \/ Spending(c) =>
          /\ c \in issued
          /\ c \notin codes
          /\ c \notin codesFile.primary
          /\ c \notin codesFile.backup
SpentOnce == told \subseteq issued /\ \A c \in Code : Once(c)

\* A copy of the devices: tokens made so far, each once, none withdrawn.
Fresh(copy, top, gone) == \A d \in Device :
    /\ copy[d] <= top
    /\ copy[d] \notin gone
    /\ \A e \in Device : copy[d] = copy[e] /\ copy[d] # NoToken => d = e

ChannelTokens ==
    /\ Fresh(devices, made, withdrawn)
    /\ Fresh(devicesFile.primary, made, withdrawn)
    /\ Fresh(devicesFile.backup, made, withdrawn)
    /\ withdrawn \subseteq 1 .. made

Enrolled == \A d \in Device : holds[d] # NoToken /\ d \notin disturbed =>
    /\ devices[d] = holds[d]
    /\ devicesFile.there => devicesFile.primary[d] = holds[d]
    /\ devicesFile.backup[d] = holds[d]

ApiTokens ==
    /\ tokensFile \subseteq tokens
    /\ tokens \subseteq 1 .. minted
    /\ revoked \subseteq 1 .. minted
    /\ tokens \cap revoked = {}

IInv == /\ TypeOK /\ Fit /\ SpentOnce /\ ChannelTokens /\ Enrolled /\ ApiTokens
        /\ TokensNameDevices

USE BoundAssumption DEF NoToken, Registry, ApiToken, Written, Unwritten, Half

-----------------------------------------------------------------------------
(* Cardinalities.                                                          *)

LEMMA CodeSets ==
    \A S \in SUBSET Code :
        /\ Cardinality(S) \in Nat
        /\ \A T \in SUBSET S : Cardinality(T) <= Cardinality(S)
        /\ \A c \in Code : Cardinality(S \cup {c}) <= Cardinality(S) + 1
<1> SUFFICES ASSUME NEW S \in SUBSET Code
             PROVE  /\ Cardinality(S) \in Nat
                    /\ \A T \in SUBSET S : Cardinality(T) <= Cardinality(S)
                    /\ \A c \in Code : Cardinality(S \cup {c}) <= Cardinality(S) + 1
    OBVIOUS
<1>1. IsFiniteSet(S)
  BY CodeAssumption, FS_Subset
<1>2. Cardinality(S) \in Nat
  BY <1>1, FS_CardinalityType
<1>3. \A T \in SUBSET S : Cardinality(T) <= Cardinality(S)
  BY <1>1, FS_Subset
<1>4. \A c \in Code : Cardinality(S \cup {c}) <= Cardinality(S) + 1
  BY <1>1, <1>2, FS_AddElement
<1> QED BY <1>2, <1>3, <1>4

LEMMA TokenSets ==
    \A S \in SUBSET ApiToken :
        /\ Cardinality(S) \in Nat
        /\ \A T \in SUBSET S : Cardinality(T) <= Cardinality(S)
        /\ \A t \in ApiToken : Cardinality(S \cup {t}) <= Cardinality(S) + 1
        /\ \A t \in S, n \in ApiToken : Cardinality((S \ {t}) \cup {n}) <= Cardinality(S)
<1> SUFFICES ASSUME NEW S \in SUBSET ApiToken
             PROVE  /\ Cardinality(S) \in Nat
                    /\ \A T \in SUBSET S : Cardinality(T) <= Cardinality(S)
                    /\ \A t \in ApiToken : Cardinality(S \cup {t}) <= Cardinality(S) + 1
                    /\ \A t \in S, n \in ApiToken :
                           Cardinality((S \ {t}) \cup {n}) <= Cardinality(S)
    OBVIOUS
<1>0. IsFiniteSet(ApiToken)
  BY FS_Interval
<1>1. IsFiniteSet(S)
  BY <1>0, FS_Subset
<1>2. Cardinality(S) \in Nat
  BY <1>1, FS_CardinalityType
<1>3. \A T \in SUBSET S : Cardinality(T) <= Cardinality(S)
  BY <1>1, FS_Subset
<1>4. \A t \in ApiToken : Cardinality(S \cup {t}) <= Cardinality(S) + 1
  <2>1. \A t \in ApiToken : Cardinality(S \cup {t}) = IF t \in S THEN Cardinality(S)
                                                      ELSE Cardinality(S) + 1
    BY <1>1, FS_AddElement
  <2> QED BY <1>2, <2>1
<1>5. ASSUME NEW t \in S, NEW n \in ApiToken
      PROVE  Cardinality((S \ {t}) \cup {n}) <= Cardinality(S)
  <2>1. IsFiniteSet(S \ {t}) /\ Cardinality(S \ {t}) = Cardinality(S) - 1
    BY <1>1, FS_RemoveElement
  <2> QED BY <1>2, <2>1, FS_AddElement
<1> QED BY <1>2, <1>3, <1>4, <1>5

-----------------------------------------------------------------------------
(* Files.                                                                  *)

LEMMA CodesMirror ==
    ASSUME TypeOK, NEW content \in SUBSET Code, NEW result,
           codesFile' = Mirror(codesFile, content, result)
    PROVE  /\ codesFile' \in Mirrored(SUBSET Code)
           /\ codesFile'.primary \in {codesFile.primary, content}
           /\ codesFile'.backup \in {codesFile.backup, content}
           /\ result = Written => codesFile'.primary = content /\ codesFile'.backup = content
<1> QED
  BY DEF TypeOK, Mirror, Mirrored

LEMMA DevicesMirror ==
    ASSUME TypeOK, NEW content \in Registry, NEW result,
           devicesFile' = Mirror(devicesFile, content, result)
    PROVE  /\ devicesFile' \in Mirrored(Registry)
           /\ devicesFile'.primary \in {devicesFile.primary, content}
           /\ devicesFile'.backup \in {devicesFile.backup, content}
           /\ result = Written => devicesFile'.primary = content /\ devicesFile'.backup = content
           /\ result # Written => /\ devicesFile'.there <=> devicesFile.there
                                  /\ devicesFile'.primary = devicesFile.primary
<1> HIDE DEF Registry
<1> QED
  BY DEF TypeOK, Mirror, Mirrored

LEMMA FreshLater ==
    ASSUME NEW copy \in Registry, NEW top \in Nat, NEW gone, Fresh(copy, top, gone)
    PROVE  Fresh(copy, top + 1, gone)
<1> QED
  BY DEF Fresh

LEMMA FreshAdds ==
    ASSUME NEW copy \in Registry, NEW top \in Nat, NEW gone \in SUBSET (1 .. top), NEW d \in Device,
           Fresh(copy, top, gone)
    PROVE  /\ Fresh([copy EXCEPT ![d] = top + 1], top + 1, gone)
           /\ Fresh([copy EXCEPT ![d] = top + 1], top + 1, gone \cup ({copy[d]} \ {NoToken}))
<1> QED
  BY DEF Fresh

LEMMA FreshDrops ==
    ASSUME NEW copy \in Registry, NEW top \in Nat, NEW gone \in SUBSET (1 .. top), NEW d \in Device,
           Fresh(copy, top, gone)
    PROVE  /\ Fresh([copy EXCEPT ![d] = NoToken], top, gone)
           /\ copy[d] # NoToken =>
                  Fresh([copy EXCEPT ![d] = NoToken], top, gone \cup {copy[d]})
<1> QED
  BY DEF Fresh

LEMMA Fails ==
    ASSUME faults \in 0 .. MaxFaults, NEW result, NEW results, Ends(result, results)
    PROVE  faults' \in 0 .. MaxFaults
<1> QED
  BY DEF Ends

LEMMA Saves ==
    ASSUME TypeOK, NEW next, NEW result, SaveTokens(next, result)
    PROVE  /\ faults' \in 0 .. MaxFaults
           /\ result = Written => tokens' = next /\ tokensFile' = next
           /\ result # Written => UNCHANGED <<tokens, tokensFile>>
<1>1. faults' \in 0 .. MaxFaults
  BY Fails DEF TypeOK, SaveTokens
<1> QED
  BY <1>1 DEF SaveTokens

-----------------------------------------------------------------------------
LEMMA InitInv == Init => IInv
<1> SUFFICES ASSUME Init PROVE IInv
    OBVIOUS
<1>0. Cardinality({}) = 0
  BY FS_EmptySet
<1>1. TypeOK
  BY <1>0 DEF Init, TypeOK, Mirrored, NoFile, NoDevices
<1>2. Fit /\ SpentOnce /\ ChannelTokens /\ Enrolled /\ ApiTokens /\ TokensNameDevices
  BY <1>0 DEF Init, NoFile, NoDevices, Fit, SpentOnce, Once, Spending, ChannelTokens, Fresh, Enrolled,
              ApiTokens, TokensNameDevices, Registered
<1> QED BY <1>1, <1>2 DEF IInv

LEMMA IssueInv == ASSUME IInv, NEW c \in Code, Issue(c) PROVE IInv'
<1>1a. PICK saved \in SUBSET Code, result \in {Written, Unwritten, Half} :
         /\ c \notin issued
         /\ saved \subseteq codes \cup {c}
         /\ Cardinality(saved) <= MaxOutstanding
         /\ codes' \subseteq saved \/ codes' \subseteq codes
         /\ codes' \in SUBSET Code /\ Cardinality(codes') <= MaxOutstanding
         /\ codesFile' = codesFile \/ codesFile' = Mirror(codesFile, saved, result)
         /\ told' \in SUBSET Code /\ issued \subseteq issued' /\ issued' \subseteq Code
         /\ told' = told \/ (told' = told \cup {c} /\ c \in issued')
         /\ faults' \in 0 .. MaxFaults
  <2> DEFINE kept == codes \ expired
  <2>1. /\ kept \in SUBSET Code /\ Cardinality(kept) <= MaxOutstanding /\ Cardinality(kept) \in Nat
        /\ Cardinality(kept \cup {c}) <= Cardinality(kept) + 1
        /\ Cardinality(kept \cup {c}) \in Nat
    <3>1. /\ codes \in SUBSET Code /\ kept \in SUBSET codes /\ kept \in SUBSET Code
          /\ kept \cup {c} \in SUBSET Code /\ Cardinality(codes) <= MaxOutstanding
      BY DEF IInv, TypeOK
    <3> HIDE DEF kept
    <3>2. /\ Cardinality(kept) <= Cardinality(codes) /\ Cardinality(codes) \in Nat
          /\ Cardinality(kept) \in Nat
      BY <3>1, CodeSets
    <3> QED BY <3>1, <3>2, CodeSets
  <2>2. CASE Cardinality(kept) >= MaxOutstanding
    <3>1. codes' = kept /\ UNCHANGED <<codesFile, told, issued, faults>>
      BY <2>1, <2>2 DEF Issue
    <3>2. c \notin issued
      BY DEF Issue
    <3> HIDE DEF kept
    <3>3. codes' \in SUBSET Code /\ Cardinality(codes') <= MaxOutstanding
      BY <2>1, <3>1
    <3>4. codes' \subseteq kept
      BY <3>1
    <3>5. kept \subseteq codes \cup {c}
      BY DEF kept
    <3> QED BY <2>1, <3>1, <3>2, <3>3, <3>4, <3>5 DEF IInv, TypeOK
  <2>3. CASE Cardinality(kept) < MaxOutstanding
    <3>1. PICK result \in {Written, Unwritten, Half} :
            /\ Ends(result, {Written, Unwritten, Half})
            /\ codesFile' = Mirror(codesFile, kept \cup {c}, result)
            /\ codes' = IF result = Written THEN kept \cup {c} ELSE kept
            /\ told' = IF result = Written THEN told \cup {c} ELSE told
            /\ issued' = issued \cup {c}
      BY <2>1, <2>3 DEF Issue
    <3>2. Cardinality(kept \cup {c}) <= MaxOutstanding
      BY <2>1, <2>3
    <3>3. faults' \in 0 .. MaxFaults
      BY <3>1, Fails DEF IInv, TypeOK
    <3>4. kept \cup {c} \in SUBSET Code
      BY <2>1
    <3>5. c \notin issued
      BY DEF Issue
    <3>6. codes' \in SUBSET Code /\ Cardinality(codes') <= MaxOutstanding
          /\ (codes' \subseteq kept \cup {c} \/ codes' \subseteq codes)
      BY <2>1, <3>1, <3>2
    <3>7. /\ told' \in SUBSET Code /\ issued \subseteq issued' /\ issued' \subseteq Code
          /\ told' = told \/ (told' = told \cup {c} /\ c \in issued')
      BY <3>1 DEF IInv, TypeOK
    <3> QED BY <3>1, <3>2, <3>3, <3>4, <3>5, <3>6, <3>7
  <2> QED BY <2>1, <2>2, <2>3
<1>1b. /\ codesFile' \in Mirrored(SUBSET Code)
       /\ codesFile'.primary \in {codesFile.primary, saved}
       /\ codesFile'.backup \in {codesFile.backup, saved}
  <2>1. CASE codesFile' = codesFile
    BY <2>1 DEF IInv, TypeOK
  <2>2. CASE codesFile' = Mirror(codesFile, saved, result)
    BY <2>2, CodesMirror DEF IInv
  <2> QED BY <1>1a, <2>1, <2>2
<1>1c. UNCHANGED <<expired, deviceVars, tokenVars, handlerVars, admitted, excused>>
  BY DEF Issue
<1> USE <1>1a, <1>1b, <1>1c DEF IInv, deviceVars, tokenVars, handlerVars
<1>1. TypeOK'
  BY CodeSets DEF TypeOK, Mirrored
<1>2. Fit'
  BY CodeSets DEF TypeOK, Fit, Mirrored
<1>3. SpentOnce'
  BY DEF TypeOK, SpentOnce, Once, Spending, Mirrored
<1>4. ChannelTokens'
  BY DEF TypeOK, ChannelTokens, Fresh, Mirrored
<1>5. Enrolled'
  BY DEF TypeOK, Enrolled, Mirrored
<1>6. ApiTokens'
  BY DEF TypeOK, ApiTokens
<1>7. TokensNameDevices'
  BY DEF TypeOK, TokensNameDevices, Registered, ApiTokens
<1> QED BY <1>1, <1>2, <1>3, <1>4, <1>5, <1>6, <1>7

LEMMA ExpireInv == ASSUME IInv, NEW c \in Code, Expire(c) PROVE IInv'
<1> USE DEF IInv, Expire, codeVars, deviceVars, tokenVars, handlerVars
<1>1. TypeOK'
  BY DEF TypeOK, Mirrored
<1>2. Fit'
  BY DEF TypeOK, Fit, Mirrored
<1>3. SpentOnce'
  BY DEF TypeOK, SpentOnce, Once, Spending, Mirrored
<1>4. ChannelTokens'
  BY DEF TypeOK, ChannelTokens, Fresh, Mirrored
<1>5. Enrolled'
  BY DEF TypeOK, Enrolled, Mirrored
<1>6. ApiTokens'
  BY DEF TypeOK, ApiTokens
<1>7. TokensNameDevices'
  BY DEF TypeOK, TokensNameDevices, Registered, ApiTokens
<1> QED BY <1>1, <1>2, <1>3, <1>4, <1>5, <1>6, <1>7

LEMMA PresentInv == ASSUME IInv, NEW d \in Device, NEW c \in Code, Present(d, c) PROVE IInv'
<1>1a. PICK result \in {Written, Unwritten, Half} :
         /\ Ends(result, {Written, Unwritten, Half})
         /\ codesFile' = Mirror(codesFile, codes \ {c}, result)
         /\ IF result = Written
            THEN codes' = codes \ {c} /\ inHand' = inHand \cup {<<d, c>>}
            ELSE UNCHANGED <<codes, inHand>>
  BY DEF Present
<1>1b. /\ c \in codes /\ c \in told
       /\ UNCHANGED <<told, expired, issued, deviceVars, tokenVars, creating, removing, admitted,
                      excused>>
  BY DEF Present
<1>1c. /\ codes \ {c} \in SUBSET Code
       /\ Cardinality(codes \ {c}) <= MaxOutstanding
  <2>1. codes \in SUBSET Code /\ codes \ {c} \in SUBSET codes /\ Cardinality(codes) <= MaxOutstanding
    BY DEF IInv, TypeOK
  <2>2. Cardinality(codes \ {c}) <= Cardinality(codes) /\ Cardinality(codes \ {c}) \in Nat
        /\ Cardinality(codes) \in Nat
    BY <2>1, CodeSets
  <2> QED BY <2>1, <2>2
<1>1d. /\ codesFile' \in Mirrored(SUBSET Code)
       /\ codesFile'.primary \in {codesFile.primary, codes \ {c}}
       /\ codesFile'.backup \in {codesFile.backup, codes \ {c}}
       /\ result = Written => codesFile'.primary = codes \ {c} /\ codesFile'.backup = codes \ {c}
  BY <1>1a, <1>1c, CodesMirror DEF IInv
<1>1e. faults' \in 0 .. MaxFaults
  BY <1>1a, Fails DEF IInv, TypeOK
<1>1f. /\ inHand' \subseteq Device \X Code
       /\ codes' \subseteq Code /\ Cardinality(codes') <= MaxOutstanding
       /\ codes' \in {codes, codes \ {c}}
       /\ inHand' = inHand \/ (inHand' = inHand \cup {<<d, c>>} /\ result = Written)
  <2>1. CASE result = Written
    <3>1. codes' = codes \ {c} /\ inHand' = inHand \cup {<<d, c>>}
      BY <1>1a, <2>1
    <3>2. inHand' \subseteq Device \X Code
      BY <3>1 DEF IInv, TypeOK
    <3> QED BY <1>1c, <2>1, <3>1, <3>2
  <2>2. CASE result # Written
    BY <1>1a, <2>2 DEF IInv, TypeOK
  <2> QED BY <2>1, <2>2
<1>1g. /\ result = Written => codes' = codes \ {c}
       /\ result # Written => inHand' = inHand
  BY <1>1a
<1> USE <1>1b, <1>1c, <1>1d, <1>1e, <1>1f, <1>1g DEF IInv, deviceVars, tokenVars
<1>1. TypeOK'
  BY CodeSets DEF TypeOK, Mirrored
<1>2. Fit'
  BY CodeSets DEF TypeOK, Fit, Mirrored
<1>3. SpentOnce'
  <2>1. told' \subseteq issued' /\ c \in issued
    BY DEF SpentOnce
  <2>2. ASSUME NEW x \in Code, x # c PROVE Once(x)'
    <3>1. Once(x) /\ (Spending(x)' <=> Spending(x)) /\ UNCHANGED <<admitted, issued>>
      BY <2>2 DEF SpentOnce, Spending
    <3>2. \A e \in Device : <<e, x>> \in inHand' <=> <<e, x>> \in inHand
      BY <2>2
    <3>3. x \notin codes => x \notin codes' /\ x \notin codes \ {c}
      BY <2>2
    <3> QED BY <3>1, <3>2, <3>3 DEF Once
  <2>3. Once(c)'
    <3>1. Once(c) /\ admitted[c] = 0 /\ ~Spending(c) /\ UNCHANGED <<admitted, issued>>
      BY DEF SpentOnce, Once, TypeOK
    <3>2. CASE result = Written
      BY <2>1, <3>1, <3>2 DEF Once, Spending
    <3>3. CASE result # Written
      BY <3>1, <3>3 DEF Once, Spending
    <3> QED BY <3>2, <3>3
  <2> QED BY <2>1, <2>2, <2>3 DEF SpentOnce
<1>4. ChannelTokens'
  BY DEF TypeOK, ChannelTokens, Fresh, Mirrored
<1>5. Enrolled'
  BY DEF TypeOK, Enrolled, Mirrored
<1>6. ApiTokens'
  BY DEF TypeOK, ApiTokens
<1>7. TokensNameDevices'
  BY DEF TypeOK, TokensNameDevices, Registered, ApiTokens
<1> QED BY <1>1, <1>2, <1>3, <1>4, <1>5, <1>6, <1>7

LEMMA RegisterInv == ASSUME IInv, NEW d \in Device, NEW c \in Code, Register(d, c) PROVE IInv'
<1> DEFINE next == [devices EXCEPT ![d] = made + 1]
<1>1a. PICK result \in {Written, Unwritten, Half} :
         /\ Ends(result, {Written, Unwritten, Half})
         /\ devicesFile' = Mirror(devicesFile, next, result)
         /\ \/ result = Written /\ Admits(d, c, made')
            \/ /\ result # Written
               /\ disturbed' = disturbed \cup {d}
               /\ UNCHANGED <<devices, holds, withdrawn, admitted>>
  BY DEF Register
<1>1b. /\ <<d, c>> \in inHand /\ inHand' = inHand \ {<<d, c>>}
       /\ made < MaxChannelTokens /\ made' = made + 1
       /\ UNCHANGED <<codeVars, tokenVars, creating, removing, excused>>
  BY DEF Register
<1>1c. next \in Registry
  BY <1>1b DEF IInv, TypeOK
<1>1d. /\ devicesFile' \in Mirrored(Registry)
       /\ devicesFile'.primary \in {devicesFile.primary, next}
       /\ devicesFile'.backup \in {devicesFile.backup, next}
       /\ result = Written => devicesFile'.primary = next /\ devicesFile'.backup = next
       /\ result # Written => /\ devicesFile'.there <=> devicesFile.there
                              /\ devicesFile'.primary = devicesFile.primary
  BY <1>1a, <1>1c, DevicesMirror DEF IInv
<1>1e. faults' \in 0 .. MaxFaults
  BY <1>1a, Fails DEF IInv, TypeOK
<1>1f. \/ /\ result = Written
          /\ devices' = next
          /\ withdrawn' = withdrawn \cup ({devices[d]} \ {NoToken})
          /\ admitted' = [admitted EXCEPT ![c] = @ + 1]
          /\ \/ holds' = [holds EXCEPT ![d] = made'] /\ disturbed' = disturbed \ {d}
             \/ holds' = holds /\ disturbed' = disturbed \cup {d}
       \/ /\ result # Written
          /\ disturbed' = disturbed \cup {d}
          /\ UNCHANGED <<devices, holds, withdrawn, admitted>>
  BY <1>1a, <1>1b DEF Admits, Answered
<1> HIDE DEF next
<1>1g. next = [devices EXCEPT ![d] = made + 1]
  BY DEF next
<1>1h. /\ devices' \in Registry /\ holds' \in Registry
       /\ admitted' \in [Code -> Nat]
       /\ withdrawn' \subseteq 1 .. made'
       /\ disturbed' \subseteq Device /\ made' \in 0 .. MaxChannelTokens
  <2>1. CASE result = Written
    <3>1. /\ devices' = next
          /\ withdrawn' = withdrawn \cup ({devices[d]} \ {NoToken})
          /\ admitted' = [admitted EXCEPT ![c] = @ + 1]
          /\ holds' = [holds EXCEPT ![d] = made'] \/ holds' = holds
          /\ disturbed' = disturbed \ {d} \/ disturbed' = disturbed \cup {d}
      BY <1>1f, <2>1
    <3>2. devices[d] \in 0 .. made /\ withdrawn \subseteq 1 .. made /\ made \in Nat
      BY DEF IInv, TypeOK, ChannelTokens, Fresh
    <3>3. withdrawn' \subseteq 1 .. made'
      <4>1. {devices[d]} \ {NoToken} \subseteq 1 .. made
        BY <3>2
      <4>2. 1 .. made \subseteq 1 .. made'
        BY <1>1b, <3>2
      <4> QED BY <3>1, <3>2, <4>1, <4>2
    <3>4. holds' \in Registry /\ admitted' \in [Code -> Nat] /\ disturbed' \subseteq Device
      BY SMTT(30), <1>1b, <3>1 DEF IInv, TypeOK
    <3> QED BY <1>1b, <1>1c, <3>1, <3>3, <3>4 DEF IInv, TypeOK
  <2>2. CASE result # Written
    <3>1. made' \in 0 .. MaxChannelTokens /\ 1 .. made \subseteq 1 .. made'
      BY <1>1b DEF IInv, TypeOK
    <3>2. withdrawn' \subseteq 1 .. made
      BY <1>1f, <2>2 DEF IInv, ChannelTokens
    <3> QED BY <1>1f, <2>2, <3>1, <3>2 DEF IInv, TypeOK
  <2> QED BY <2>1, <2>2
<1> USE <1>1b, <1>1c, <1>1d, <1>1e, <1>1g, <1>1h DEF IInv, codeVars, tokenVars
<1>1. TypeOK'
  <2>1. withdrawn' \subseteq 1 .. MaxChannelTokens /\ inHand' \subseteq Device \X Code
    BY DEF TypeOK
  <2> HIDE DEF Registry
  <2> QED BY <2>1 DEF TypeOK
<1>2. Fit'
  BY DEF TypeOK, Fit, Mirrored
<1>3. SpentOnce'
  <2>1. told' \subseteq issued' /\ Spending(c)
    BY DEF SpentOnce, Spending
  <2>2. ASSUME NEW x \in Code, x # c PROVE Once(x)'
    <3>1. Once(x) /\ admitted'[x] = admitted[x]
      BY <1>1f, <2>2 DEF SpentOnce, TypeOK
    <3>2. \A e \in Device : <<e, x>> \in inHand' <=> <<e, x>> \in inHand
      BY <2>2
    <3> QED BY <3>1, <3>2 DEF Once, Spending
  <2>3. Once(c)'
    <3>1. Once(c) /\ admitted[c] = 0
      BY <2>1 DEF SpentOnce, Once, TypeOK
    <3>2. admitted'[c] \in {0, 1}
      BY <1>1f, <3>1 DEF TypeOK
    <3>3. \A e \in Device : <<e, c>> \notin inHand'
      BY <3>1 DEF Once
    <3>4. c \in issued /\ c \notin codes /\ c \notin codesFile.primary /\ c \notin codesFile.backup
      BY <2>1, <3>1 DEF Once
    <3>5. ~Spending(c)' /\ UNCHANGED <<issued, codes, codesFile>>
      BY <3>3 DEF Spending
    <3> HIDE DEF codeVars, tokenVars
    <3> QED BY <3>2, <3>3, <3>4, <3>5 DEF Once
  <2> QED BY <2>1, <2>2, <2>3 DEF SpentOnce
<1>4. ChannelTokens'
  <2>1. /\ devices \in Registry /\ devicesFile.primary \in Registry
        /\ devicesFile.backup \in Registry
        /\ made \in Nat /\ withdrawn \in SUBSET (1 .. made)
        /\ Fresh(devices, made, withdrawn)
        /\ Fresh(devicesFile.primary, made, withdrawn)
        /\ Fresh(devicesFile.backup, made, withdrawn)
    <3>1. devicesFile.primary \in Registry /\ devicesFile.backup \in Registry
      BY DEF TypeOK, Mirrored
    <3>2. devices \in Registry /\ made \in Nat
      BY DEF TypeOK
    <3>3. withdrawn \in SUBSET (1 .. made)
      BY DEF ChannelTokens
    <3>4. /\ Fresh(devices, made, withdrawn)
          /\ Fresh(devicesFile.primary, made, withdrawn)
          /\ Fresh(devicesFile.backup, made, withdrawn)
      BY DEF ChannelTokens
    <3> QED BY <3>1, <3>2, <3>3, <3>4
  <2> HIDE DEF Registry
  <2>2. /\ Fresh(next, made', withdrawn)
        /\ Fresh(next, made', withdrawn \cup ({devices[d]} \ {NoToken}))
    BY <2>1, FreshAdds
  <2>3. CASE result = Written
    BY <1>1f, <2>2, <2>3 DEF ChannelTokens
  <2>4. CASE result # Written
    <3>1. /\ Fresh(devices, made', withdrawn)
          /\ Fresh(devicesFile.primary, made', withdrawn)
          /\ Fresh(devicesFile.backup, made', withdrawn)
      BY <2>1, FreshLater
    <3> QED BY <1>1f, <2>2, <2>4, <3>1 DEF ChannelTokens
  <2> QED BY <2>3, <2>4
<1>5. Enrolled'
  <2>1. next[d] = made' /\ \A e \in Device : e # d => next[e] = devices[e]
    BY DEF TypeOK
  <2>2. CASE result = Written
    <3>1. ASSUME NEW e \in Device, holds'[e] # NoToken, e \notin disturbed'
          PROVE  devices'[e] = holds'[e] /\ devices' = next
      <4>1. CASE e = d
        BY <1>1f, <2>1, <2>2, <3>1, <4>1 DEF TypeOK
      <4>2. CASE e # d
        <5>1. devices' = next /\ holds'[e] = holds[e] /\ e \notin disturbed
          BY <1>1f, <2>2, <3>1, <4>2 DEF TypeOK
        <5> QED BY <2>1, <3>1, <4>2, <5>1 DEF Enrolled
      <4> QED BY <4>1, <4>2
    <3> QED BY ZenonT(30), SMTT(30), <2>2, <3>1 DEF Enrolled
  <2>3. CASE result # Written
    BY ZenonT(30), SMTT(30), <1>1f, <2>1, <2>3 DEF TypeOK, Enrolled
  <2> QED BY <2>2, <2>3
<1>6. ApiTokens'
  BY DEF TypeOK, ApiTokens
<1>7. TokensNameDevices'
  <2>1. \A e \in Device : devices[e] # NoToken => devices'[e] # NoToken
    <3>1. next[d] # NoToken /\ \A e \in Device : e # d => next[e] = devices[e]
      BY DEF TypeOK
    <3>2. CASE devices' = next
      BY <3>1, <3>2
    <3>3. CASE devices' = devices
      BY <3>3
    <3> QED BY <1>1f, <3>2, <3>3
  <2> QED BY <2>1 DEF TokensNameDevices, Registered
<1> QED BY <1>1, <1>2, <1>3, <1>4, <1>5, <1>6, <1>7

LEMMA LabelInv == ASSUME IInv, Label PROVE IInv'
<1>1a. PICK result \in {Written, Unwritten, Half} :
         /\ Ends(result, {Written, Unwritten, Half})
         /\ devicesFile' = Mirror(devicesFile, devices, result)
  BY DEF Label
<1>1b. UNCHANGED <<codeVars, devices, holds, made, withdrawn, disturbed, tokenVars, handlerVars,
                   admitted, excused>>
  BY DEF Label
<1>1d. /\ devicesFile' \in Mirrored(Registry)
       /\ devicesFile'.primary \in {devicesFile.primary, devices}
       /\ devicesFile'.backup \in {devicesFile.backup, devices}
       /\ result = Written => devicesFile'.primary = devices /\ devicesFile'.backup = devices
       /\ result # Written => /\ devicesFile'.there <=> devicesFile.there
                              /\ devicesFile'.primary = devicesFile.primary
  BY <1>1a, DevicesMirror DEF IInv, TypeOK
<1>1e. faults' \in 0 .. MaxFaults
  BY <1>1a, Fails DEF IInv, TypeOK
<1> USE <1>1b, <1>1d, <1>1e DEF IInv, codeVars, tokenVars, handlerVars
<1>1. TypeOK'
  BY DEF TypeOK, Mirrored
<1>2. Fit'
  BY DEF TypeOK, Fit, Mirrored
<1>3. SpentOnce'
  BY DEF TypeOK, SpentOnce, Once, Spending, Mirrored
<1>4. ChannelTokens'
  BY SMTT(30) DEF TypeOK, ChannelTokens, Fresh, Mirrored
<1>5. Enrolled'
  BY DEF TypeOK, Enrolled, Mirrored
<1>6. ApiTokens'
  BY DEF TypeOK, ApiTokens
<1>7. TokensNameDevices'
  BY DEF TypeOK, TokensNameDevices, Registered, ApiTokens
<1> QED BY <1>1, <1>2, <1>3, <1>4, <1>5, <1>6, <1>7

LEMMA RemoveInv == ASSUME IInv, NEW d \in Device, Remove(d) PROVE IInv'
<1> DEFINE next == [devices EXCEPT ![d] = NoToken]
<1>1a. PICK result \in {Written, Unwritten, Half} :
         /\ Ends(result, {Written, Unwritten, Half})
         /\ devicesFile' = Mirror(devicesFile, next, result)
         /\ IF result = Written
            THEN /\ devices' = next
                 /\ withdrawn' = withdrawn \cup {devices[d]}
                 /\ removing' = removing \cup {d}
            ELSE UNCHANGED <<devices, withdrawn, removing>>
  BY DEF Remove
<1>1b. /\ devices[d] # NoToken
       /\ disturbed' = disturbed \cup {d}
       /\ UNCHANGED <<codeVars, holds, made, tokenVars, inHand, creating, admitted, excused>>
  BY DEF Remove, Registered
<1>1c. next \in Registry
  BY DEF IInv, TypeOK
<1>1d. /\ devicesFile' \in Mirrored(Registry)
       /\ devicesFile'.primary \in {devicesFile.primary, next}
       /\ devicesFile'.backup \in {devicesFile.backup, next}
       /\ result = Written => devicesFile'.primary = next /\ devicesFile'.backup = next
       /\ result # Written => /\ devicesFile'.there <=> devicesFile.there
                              /\ devicesFile'.primary = devicesFile.primary
  BY <1>1a, <1>1c, DevicesMirror DEF IInv
<1>1e. faults' \in 0 .. MaxFaults
  BY <1>1a, Fails DEF IInv, TypeOK
<1> HIDE DEF next
<1>1g. next = [devices EXCEPT ![d] = NoToken]
  BY DEF next
<1>1h. /\ devices' \in Registry
       /\ withdrawn' \subseteq 1 .. made
       /\ removing' \subseteq Device /\ disturbed' \subseteq Device
  <2>1. devices[d] \in 1 .. made /\ withdrawn \subseteq 1 .. made
    BY <1>1b DEF IInv, TypeOK, ChannelTokens, Fresh
  <2>2. CASE result = Written
    BY <1>1a, <1>1b, <1>1c, <2>1, <2>2 DEF IInv, TypeOK
  <2>3. CASE result # Written
    BY <1>1a, <1>1b, <2>1, <2>3 DEF IInv, TypeOK
  <2> QED BY <2>2, <2>3
<1> USE <1>1a, <1>1b, <1>1c, <1>1d, <1>1e, <1>1g, <1>1h DEF IInv, codeVars, tokenVars
<1>1. TypeOK'
  <2>1. withdrawn' \subseteq 1 .. MaxChannelTokens
    BY DEF TypeOK
  <2> HIDE DEF Registry
  <2> QED BY <2>1 DEF TypeOK
<1>2. Fit'
  BY DEF TypeOK, Fit, Mirrored
<1>3. SpentOnce'
  BY DEF TypeOK, SpentOnce, Once, Spending, Mirrored
<1>4. ChannelTokens'
  <2>1. /\ devices \in Registry /\ made \in Nat /\ withdrawn \in SUBSET (1 .. made)
        /\ Fresh(devices, made, withdrawn)
        /\ Fresh(devicesFile.primary, made, withdrawn)
        /\ Fresh(devicesFile.backup, made, withdrawn)
    BY DEF TypeOK, ChannelTokens
  <2> HIDE DEF Registry
  <2>2. Fresh(next, made, withdrawn) /\ Fresh(next, made, withdrawn \cup {devices[d]})
    BY <2>1, FreshDrops
  <2>3. CASE result = Written
    BY <2>2, <2>3 DEF ChannelTokens
  <2>4. CASE result # Written
    BY <2>1, <2>2, <2>4 DEF ChannelTokens
  <2> QED BY <2>3, <2>4
<1>5. Enrolled'
  <2>1. \A e \in Device : e # d => next[e] = devices[e]
    BY DEF TypeOK
  <2> SUFFICES ASSUME NEW e \in Device, holds'[e] # NoToken, e \notin disturbed'
               PROVE  /\ devices'[e] = holds'[e]
                      /\ devicesFile'.there => devicesFile'.primary[e] = holds'[e]
                      /\ devicesFile'.backup[e] = holds'[e]
    BY DEF Enrolled
  <2>2. e # d /\ holds'[e] = holds[e]
    OBVIOUS
  <2>3. /\ devices[e] = holds[e] /\ next[e] = holds[e]
        /\ devicesFile.there => devicesFile.primary[e] = holds[e]
        /\ devicesFile.backup[e] = holds[e]
    BY <2>1, <2>2 DEF Enrolled
  <2>4. CASE result = Written
    BY <2>2, <2>3, <2>4
  <2>5. CASE result # Written
    BY <2>2, <2>3, <2>5
  <2> QED BY <2>4, <2>5
<1>6. ApiTokens'
  BY DEF TypeOK, ApiTokens
<1>7. TokensNameDevices'
  <2>1. \A e \in Device : e # d => next[e] = devices[e]
    BY DEF TypeOK
  <2>2. Registered \cup removing \subseteq Registered' \cup removing'
    <3>1. CASE result = Written
      BY <2>1, <3>1 DEF Registered
    <3>2. CASE result # Written
      BY <3>2 DEF Registered
    <3> QED BY <3>1, <3>2
  <2> QED BY <2>2 DEF TokensNameDevices
<1> QED BY <1>1, <1>2, <1>3, <1>4, <1>5, <1>6, <1>7

LEMMA RevokeForInv == ASSUME IInv, NEW d \in Device, RevokeFor(d) PROVE IInv'
<1>1a. \/ /\ \A t \in tokens : d \notin scope[t]
          /\ UNCHANGED <<tokens, tokensFile, revoked, excused, faults>>
       \/ \E result \in {Written, Unwritten} :
             /\ SaveTokens({t \in tokens : d \notin scope[t]}, result)
             /\ revoked' = IF result = Written THEN revoked \cup {t \in tokens : d \in scope[t]}
                                               ELSE revoked
             /\ excused' = IF result = Written THEN excused ELSE excused \cup {d}
  <2>1. {t \in tokens : d \notin scope[t]} = tokens \ {t \in tokens : d \in scope[t]}
    OBVIOUS
  <2> QED BY <2>1 DEF RevokeFor
<1>1b. /\ faults' \in 0 .. MaxFaults
       /\ \/ /\ UNCHANGED <<tokens, tokensFile, revoked>>
             /\ \/ excused' = excused \cup {d}
                \/ excused' = excused /\ \A t \in tokens : d \notin scope[t]
          \/ /\ tokens' = {t \in tokens : d \notin scope[t]} /\ tokensFile' = tokens'
             /\ revoked' = revoked \cup {t \in tokens : d \in scope[t]}
             /\ UNCHANGED excused
  <2>1. CASE /\ \A t \in tokens : d \notin scope[t]
             /\ UNCHANGED <<tokens, tokensFile, revoked, excused, faults>>
    BY <2>1 DEF IInv, TypeOK
  <2>2. ASSUME NEW result \in {Written, Unwritten},
               SaveTokens({t \in tokens : d \notin scope[t]}, result),
               revoked' = IF result = Written THEN revoked \cup {t \in tokens : d \in scope[t]}
                                              ELSE revoked,
               excused' = IF result = Written THEN excused ELSE excused \cup {d}
        PROVE  /\ faults' \in 0 .. MaxFaults
               /\ \/ /\ UNCHANGED <<tokens, tokensFile, revoked>>
                     /\ \/ excused' = excused \cup {d}
                        \/ excused' = excused /\ \A t \in tokens : d \notin scope[t]
                  \/ /\ tokens' = {t \in tokens : d \notin scope[t]} /\ tokensFile' = tokens'
                     /\ revoked' = revoked \cup {t \in tokens : d \in scope[t]}
                     /\ UNCHANGED excused
    <3>1. /\ faults' \in 0 .. MaxFaults
          /\ result = Written => /\ tokens' = {t \in tokens : d \notin scope[t]}
                                 /\ tokensFile' = {t \in tokens : d \notin scope[t]}
          /\ result # Written => UNCHANGED <<tokens, tokensFile>>
      BY <2>2, Saves DEF IInv
    <3> QED BY <2>2, <3>1
  <2> QED BY <1>1a, <2>1, <2>2
<1>1d. /\ tokens' \subseteq ApiToken /\ Cardinality(tokens') <= MaxTokens
       /\ tokensFile' \subseteq ApiToken /\ revoked' \subseteq ApiToken /\ excused' \subseteq Device
  <2>1. /\ tokens \in SUBSET ApiToken /\ tokens' \in SUBSET tokens
        /\ Cardinality(tokens) <= MaxTokens
    BY <1>1b DEF IInv, TypeOK
  <2> HIDE DEF ApiToken
  <2>2. Cardinality(tokens') <= Cardinality(tokens) /\ Cardinality(tokens') \in Nat
        /\ Cardinality(tokens) \in Nat
    BY <2>1, TokenSets
  <2> QED BY <1>1b, <2>1, <2>2 DEF IInv, TypeOK
<1>1c. /\ removing' = removing \ {d}
       /\ UNCHANGED <<codeVars, deviceVars, scope, minted, inHand, creating, admitted>>
  BY DEF RevokeFor
<1> USE <1>1b, <1>1c, <1>1d DEF IInv, codeVars, deviceVars
<1>1. TypeOK'
  BY DEF TypeOK
<1>2. Fit'
  BY DEF TypeOK, Fit, Mirrored
<1>3. SpentOnce'
  BY DEF TypeOK, SpentOnce, Once, Spending, Mirrored
<1>4. ChannelTokens'
  BY DEF TypeOK, ChannelTokens, Fresh, Mirrored
<1>5. Enrolled'
  BY DEF TypeOK, Enrolled, Mirrored
<1>6. ApiTokens'
  BY DEF TypeOK, ApiTokens
<1>7. TokensNameDevices'
  <2>1. Registered' = Registered /\ UNCHANGED scope
    BY DEF Registered
  <2>2. \A t \in tokens' : t \in tokens /\ (d \notin scope[t] \/ d \in excused')
    OBVIOUS
  <2>3. excused \subseteq excused'
    OBVIOUS
  <2> HIDE DEF codeVars, deviceVars
  <2> QED BY <2>1, <2>2, <2>3 DEF TokensNameDevices
<1> QED BY <1>1, <1>2, <1>3, <1>4, <1>5, <1>6, <1>7

LEMMA CreateBeginInv == ASSUME IInv, NEW S \in SUBSET Device, CreateBegin(S) PROVE IInv'
<1> USE DEF IInv, CreateBegin, Registered, codeVars, deviceVars, tokenVars, handlerVars
<1>1. TypeOK'
  BY DEF TypeOK, Mirrored
<1>2. Fit'
  BY DEF TypeOK, Fit, Mirrored
<1>3. SpentOnce'
  BY DEF TypeOK, SpentOnce, Once, Spending, Mirrored
<1>4. ChannelTokens'
  BY DEF TypeOK, ChannelTokens, Fresh, Mirrored
<1>5. Enrolled'
  BY DEF TypeOK, Enrolled, Mirrored
<1>6. ApiTokens'
  BY DEF TypeOK, ApiTokens
<1>7. TokensNameDevices'
  BY DEF TypeOK, TokensNameDevices, Registered, ApiTokens
<1> QED BY <1>1, <1>2, <1>3, <1>4, <1>5, <1>6, <1>7

LEMMA CreateEndInv == ASSUME IInv, NEW S \in SUBSET Device, CreateEnd(S) PROVE IInv'
<1>1a. \/ UNCHANGED <<tokens, tokensFile, scope, minted, excused, faults>>
       \/ /\ Cardinality(tokens) < MaxTokens
          /\ minted < MaxApiTokens
          /\ minted' = minted + 1
          /\ scope' = [scope EXCEPT ![minted'] = S]
          /\ excused' = excused \cup (S \ Registered)
          /\ \E result \in {Written, Unwritten} : SaveTokens(tokens \cup {minted'}, result)
  BY DEF CreateEnd
<1>1b. \/ UNCHANGED <<tokens, tokensFile, scope, minted, excused, faults>>
       \/ /\ Cardinality(tokens) < MaxTokens
          /\ minted < MaxApiTokens
          /\ minted' = minted + 1
          /\ scope' = [scope EXCEPT ![minted'] = S]
          /\ excused' = excused \cup (S \ Registered)
          /\ faults' \in 0 .. MaxFaults
          /\ \/ tokens' = tokens \cup {minted'} /\ tokensFile' = tokens'
             \/ UNCHANGED <<tokens, tokensFile>>
  BY <1>1a, Saves DEF IInv
<1>1c. /\ creating' = creating \ {S} /\ S \in creating
       /\ UNCHANGED <<codeVars, deviceVars, revoked, inHand, removing, admitted>>
  BY DEF CreateEnd
<1>1d. /\ tokens' \subseteq ApiToken /\ Cardinality(tokens') <= MaxTokens
       /\ tokensFile' \subseteq ApiToken /\ excused' \subseteq Device
       /\ minted' \in 0 .. MaxApiTokens /\ scope' \in [ApiToken -> SUBSET Device]
  <2>1. CASE UNCHANGED <<tokens, tokensFile, scope, minted, excused, faults>>
    BY <2>1 DEF IInv, TypeOK
  <2>2. CASE ~UNCHANGED <<tokens, tokensFile, scope, minted, excused, faults>>
    <3>1. /\ tokens \in SUBSET ApiToken /\ Cardinality(tokens) < MaxTokens
          /\ minted' \in ApiToken /\ minted' \in 0 .. MaxApiTokens
          /\ scope' \in [ApiToken -> SUBSET Device] /\ excused' \subseteq Device
      <4>1. /\ Cardinality(tokens) < MaxTokens /\ minted < MaxApiTokens /\ minted' = minted + 1
            /\ scope' = [scope EXCEPT ![minted'] = S]
            /\ excused' = excused \cup (S \ Registered)
        BY <1>1b, <2>2
      <4>2. tokens \in SUBSET ApiToken /\ minted \in 0 .. MaxApiTokens
            /\ scope \in [ApiToken -> SUBSET Device] /\ excused \subseteq Device
        BY DEF IInv, TypeOK
      <4>3. minted' \in ApiToken /\ minted' \in 0 .. MaxApiTokens
        BY <4>1, <4>2
      <4> HIDE DEF ApiToken
      <4> QED BY <4>1, <4>2, <4>3
    <3> HIDE DEF ApiToken
    <3>2. /\ Cardinality(tokens \cup {minted'}) <= Cardinality(tokens) + 1
          /\ Cardinality(tokens) \in Nat /\ tokens \cup {minted'} \in SUBSET ApiToken
      BY <3>1, TokenSets
    <3>3. Cardinality(tokens \cup {minted'}) \in Nat
      BY <3>2, TokenSets
    <3>4. Cardinality(tokens \cup {minted'}) <= MaxTokens
      BY <3>1, <3>2, <3>3
    <3> QED BY <1>1b, <2>2, <3>1, <3>2, <3>4 DEF IInv, TypeOK
  <2> QED BY <2>1, <2>2
<1> USE <1>1b, <1>1c, <1>1d DEF IInv, codeVars, deviceVars, Registered
<1>1. TypeOK'
  BY DEF TypeOK
<1>2. Fit'
  BY DEF TypeOK, Fit, Mirrored
<1>3. SpentOnce'
  BY DEF TypeOK, SpentOnce, Once, Spending, Mirrored
<1>4. ChannelTokens'
  BY DEF TypeOK, ChannelTokens, Fresh, Mirrored
<1>5. Enrolled'
  BY DEF TypeOK, Enrolled, Mirrored
<1>6. ApiTokens'
  <2>1. CASE tokens' = tokens \cup {minted'} /\ tokensFile' = tokens' /\ minted' = minted + 1
    BY <2>1 DEF TypeOK, ApiTokens
  <2>2. CASE UNCHANGED <<tokens, tokensFile>> /\ minted' \in {minted, minted + 1}
    BY <2>2 DEF TypeOK, ApiTokens
  <2> QED BY <2>1, <2>2
<1>7. TokensNameDevices'
  <2>1. CASE UNCHANGED <<tokens, tokensFile, scope, minted, excused, faults>>
    BY <2>1 DEF TokensNameDevices
  <2>2. CASE ~UNCHANGED <<tokens, tokensFile, scope, minted, excused, faults>>
    <3>1. /\ minted' = minted + 1 /\ minted' \in ApiToken
          /\ \A t \in tokens : t # minted' /\ t \in ApiToken
          /\ scope' = [scope EXCEPT ![minted'] = S]
          /\ excused' = excused \cup (S \ {d \in Device : devices[d] # NoToken})
          /\ tokens' \subseteq tokens \cup {minted'}
      BY <2>2 DEF TypeOK, ApiTokens
    <3> HIDE DEF ApiToken
    <3>2. scope'[minted'] = S /\ \A t \in tokens : scope'[t] = scope[t]
      BY <3>1 DEF TypeOK
    <3> QED BY <3>1, <3>2 DEF TypeOK, TokensNameDevices
  <2> QED BY <2>1, <2>2
<1> QED BY <1>1, <1>2, <1>3, <1>4, <1>5, <1>6, <1>7

LEMMA RotateInv == ASSUME IInv, NEW t \in ApiToken, Rotate(t) PROVE IInv'
<1>1a. PICK result \in {Written, Unwritten} :
         /\ SaveTokens((tokens \ {t}) \cup {minted'}, result)
         /\ revoked' = IF result = Written THEN revoked \cup {t} ELSE revoked
  BY DEF Rotate
<1>1b. /\ faults' \in 0 .. MaxFaults
       /\ \/ tokens' = (tokens \ {t}) \cup {minted'} /\ tokensFile' = tokens' /\ revoked' = revoked \cup {t}
          \/ UNCHANGED <<tokens, tokensFile, revoked>>
  BY <1>1a, Saves DEF IInv
<1>1c. /\ t \in tokens /\ minted < MaxApiTokens /\ minted' = minted + 1
       /\ scope' = [scope EXCEPT ![minted'] = scope[t]]
       /\ UNCHANGED <<codeVars, deviceVars, handlerVars, admitted, excused>>
  BY DEF Rotate
<1>1d. /\ tokens' \subseteq ApiToken /\ Cardinality(tokens') <= MaxTokens
       /\ tokensFile' \subseteq ApiToken /\ revoked' \subseteq ApiToken
       /\ minted' \in 0 .. MaxApiTokens /\ scope' \in [ApiToken -> SUBSET Device]
  <2>1. /\ tokens \in SUBSET ApiToken /\ Cardinality(tokens) <= MaxTokens
        /\ minted' \in ApiToken /\ minted' \in 0 .. MaxApiTokens
        /\ scope' \in [ApiToken -> SUBSET Device]
    BY <1>1c DEF IInv, TypeOK
  <2> HIDE DEF ApiToken
  <2>2. /\ Cardinality((tokens \ {t}) \cup {minted'}) <= Cardinality(tokens)
        /\ Cardinality(tokens) \in Nat /\ (tokens \ {t}) \cup {minted'} \in SUBSET ApiToken
    BY <1>1c, <2>1, TokenSets
  <2>3. Cardinality((tokens \ {t}) \cup {minted'}) \in Nat
    BY <2>2, TokenSets
  <2>4. Cardinality((tokens \ {t}) \cup {minted'}) <= MaxTokens
    BY <2>1, <2>2, <2>3
  <2> QED BY <1>1b, <1>1c, <2>1, <2>2, <2>4 DEF IInv, TypeOK
<1> USE <1>1b, <1>1c, <1>1d DEF IInv, codeVars, deviceVars, handlerVars
<1>1. TypeOK'
  BY DEF TypeOK
<1>2. Fit'
  BY DEF TypeOK, Fit, Mirrored
<1>3. SpentOnce'
  BY DEF TypeOK, SpentOnce, Once, Spending, Mirrored
<1>4. ChannelTokens'
  BY DEF TypeOK, ChannelTokens, Fresh, Mirrored
<1>5. Enrolled'
  BY DEF TypeOK, Enrolled, Mirrored
<1>6. ApiTokens'
  <2>1. CASE /\ tokens' = (tokens \ {t}) \cup {minted'} /\ tokensFile' = tokens'
             /\ revoked' = revoked \cup {t}
    BY <2>1 DEF TypeOK, ApiTokens
  <2>2. CASE UNCHANGED <<tokens, tokensFile, revoked>>
    BY <2>2 DEF TypeOK, ApiTokens
  <2> QED BY <2>1, <2>2
<1>7. TokensNameDevices'
  <2>1. /\ minted' \in ApiToken
        /\ \A u \in tokens : u # minted' /\ u \in ApiToken
        /\ tokens' \subseteq tokens \cup {minted'}
    BY DEF TypeOK, ApiTokens
  <2> HIDE DEF ApiToken
  <2>2. scope'[minted'] = scope[t] /\ \A u \in tokens : scope'[u] = scope[u]
    BY <2>1 DEF TypeOK
  <2> QED BY <2>1, <2>2 DEF TokensNameDevices, Registered
<1> QED BY <1>1, <1>2, <1>3, <1>4, <1>5, <1>6, <1>7

LEMMA RevokeInv == ASSUME IInv, NEW t \in ApiToken, Revoke(t) PROVE IInv'
<1>1a. PICK result \in {Written, Unwritten} :
         /\ SaveTokens(tokens \ {t}, result)
         /\ revoked' = IF result = Written THEN revoked \cup {t} ELSE revoked
  BY DEF Revoke
<1>1b. /\ faults' \in 0 .. MaxFaults
       /\ \/ tokens' = tokens \ {t} /\ tokensFile' = tokens' /\ revoked' = revoked \cup {t}
          \/ UNCHANGED <<tokens, tokensFile, revoked>>
  BY <1>1a, Saves DEF IInv
<1>1c. /\ t \in tokens
       /\ UNCHANGED <<codeVars, deviceVars, scope, minted, handlerVars, admitted, excused>>
  BY DEF Revoke
<1>1d. /\ tokens' \subseteq ApiToken /\ Cardinality(tokens') <= MaxTokens
       /\ tokensFile' \subseteq ApiToken /\ revoked' \subseteq ApiToken
  <2>1. /\ tokens \in SUBSET ApiToken /\ tokens' \in SUBSET tokens
        /\ Cardinality(tokens) <= MaxTokens
    BY <1>1b DEF IInv, TypeOK
  <2> HIDE DEF ApiToken
  <2>2. Cardinality(tokens') <= Cardinality(tokens) /\ Cardinality(tokens') \in Nat
        /\ Cardinality(tokens) \in Nat
    BY <2>1, TokenSets
  <2> QED BY <1>1b, <1>1c, <2>1, <2>2 DEF IInv, TypeOK
<1> USE <1>1b, <1>1c, <1>1d DEF IInv, codeVars, deviceVars, handlerVars
<1>1. TypeOK'
  BY DEF TypeOK
<1>2. Fit'
  BY DEF TypeOK, Fit, Mirrored
<1>3. SpentOnce'
  BY DEF TypeOK, SpentOnce, Once, Spending, Mirrored
<1>4. ChannelTokens'
  BY DEF TypeOK, ChannelTokens, Fresh, Mirrored
<1>5. Enrolled'
  BY DEF TypeOK, Enrolled, Mirrored
<1>6. ApiTokens'
  BY DEF TypeOK, ApiTokens
<1>7. TokensNameDevices'
  BY DEF TypeOK, TokensNameDevices, Registered, ApiTokens
<1> QED BY <1>1, <1>2, <1>3, <1>4, <1>5, <1>6, <1>7

LEMMA UseInv == ASSUME IInv, Use PROVE IInv'
<1>1a. PICK result \in {Written, Unwritten} : SaveTokens(tokens, result)
  BY DEF Use
<1>1b. /\ faults' \in 0 .. MaxFaults
       /\ tokens' = tokens /\ tokensFile' \in {tokens, tokensFile}
  BY <1>1a, Saves DEF IInv
<1>1c. UNCHANGED <<codeVars, deviceVars, scope, minted, revoked, handlerVars, admitted, excused>>
  BY DEF Use
<1> USE <1>1b, <1>1c DEF IInv, codeVars, deviceVars, handlerVars
<1>1. TypeOK'
  BY DEF TypeOK
<1>2. Fit'
  BY DEF TypeOK, Fit, Mirrored
<1>3. SpentOnce'
  BY DEF TypeOK, SpentOnce, Once, Spending, Mirrored
<1>4. ChannelTokens'
  BY DEF TypeOK, ChannelTokens, Fresh, Mirrored
<1>5. Enrolled'
  BY DEF TypeOK, Enrolled, Mirrored
<1>6. ApiTokens'
  BY DEF TypeOK, ApiTokens
<1>7. TokensNameDevices'
  BY DEF TypeOK, TokensNameDevices, Registered, ApiTokens
<1> QED BY <1>1, <1>2, <1>3, <1>4, <1>5, <1>6, <1>7

LEMMA LoseFileInv == ASSUME IInv, LoseFile PROVE IInv'
<1>1a. /\ faults' \in 0 .. MaxFaults
       /\ \/ /\ codesFile' = [codesFile EXCEPT !.there = FALSE, !.primary = {}]
             /\ UNCHANGED <<devicesFile, tokensFile>>
          \/ /\ devicesFile' = [devicesFile EXCEPT !.there = FALSE, !.primary = NoDevices]
             /\ UNCHANGED <<codesFile, tokensFile>>
          \/ tokensFile' = {} /\ UNCHANGED <<codesFile, devicesFile>>
       /\ UNCHANGED <<codes, told, expired, issued, devices, holds, made, withdrawn, disturbed,
                      tokens, scope, minted, revoked, handlerVars, admitted, excused>>
  BY DEF LoseFile, IInv, TypeOK
<1>1b. /\ codesFile' \in Mirrored(SUBSET Code)
       /\ codesFile'.backup = codesFile.backup
       /\ codesFile'.primary \in {codesFile.primary, {}}
  BY <1>1a DEF IInv, TypeOK, Mirrored
<1>1c. NoDevices \in Registry /\ \A d \in Device : NoDevices[d] = NoToken
  BY DEF NoDevices
<1>1d. /\ devicesFile' \in Mirrored(Registry)
       /\ devicesFile'.backup = devicesFile.backup
       /\ \/ devicesFile'.primary = devicesFile.primary /\ (devicesFile'.there <=> devicesFile.there)
          \/ devicesFile'.primary = NoDevices /\ ~devicesFile'.there
  <2>1. CASE UNCHANGED devicesFile
    BY <2>1 DEF IInv, TypeOK
  <2>2. CASE devicesFile' = [devicesFile EXCEPT !.there = FALSE, !.primary = NoDevices]
    BY <2>2, <1>1c DEF IInv, TypeOK, Mirrored
  <2> QED BY <1>1a, <2>1, <2>2
<1>1e. tokensFile' \in {tokensFile, {}}
  BY <1>1a
<1>1f. UNCHANGED <<codes, told, expired, issued, devices, holds, made, withdrawn, disturbed,
                   tokens, scope, minted, revoked, inHand, creating, removing, admitted, excused>>
  BY <1>1a DEF handlerVars
<1>1g. faults' \in 0 .. MaxFaults
  BY <1>1a
<1>1h. Cardinality({}) = 0
  BY FS_EmptySet
<1> USE <1>1b, <1>1c, <1>1d, <1>1e, <1>1f, <1>1g, <1>1h DEF IInv
<1>1. TypeOK'
  BY FS_EmptySet DEF TypeOK, Mirrored
<1>2. Fit'
  <2>1. CASE codesFile'.primary = codesFile.primary
    BY <2>1 DEF Fit
  <2>2. CASE codesFile'.primary = {}
    BY <2>2 DEF Fit
  <2> QED BY <2>1, <2>2
<1>3. SpentOnce'
  BY DEF TypeOK, SpentOnce, Once, Spending, Mirrored
<1>4. ChannelTokens'
  BY SMTT(30) DEF TypeOK, ChannelTokens, Fresh, Mirrored
<1>5. Enrolled'
  BY DEF TypeOK, Enrolled, Mirrored
<1>6. ApiTokens'
  BY DEF TypeOK, ApiTokens
<1>7. TokensNameDevices'
  BY DEF TypeOK, TokensNameDevices, Registered, ApiTokens
<1> QED BY <1>1, <1>2, <1>3, <1>4, <1>5, <1>6, <1>7

LEMMA RestartInv == ASSUME IInv, Restart PROVE IInv'
<1>1a. /\ codes' \in {codesFile.primary, codesFile.backup}
       /\ devices' = IF devicesFile.there THEN devicesFile.primary ELSE devicesFile.backup
       /\ tokens' = tokensFile
       /\ inHand' = {} /\ creating' = {} /\ removing' = {}
       /\ excused' = excused \cup removing \cup {d \in Registered : devices'[d] = NoToken}
       /\ UNCHANGED <<codesFile, told, expired, issued, devicesFile, holds, made, withdrawn,
                      disturbed, tokensFile, scope, minted, revoked, admitted, faults>>
  BY DEF Restart, Loaded
<1>1b. devices' \in Registry
  BY <1>1a DEF IInv, TypeOK, Mirrored
<1>1c. codes' \subseteq Code /\ Cardinality(codes') <= MaxOutstanding
  BY <1>1a DEF IInv, TypeOK, Mirrored, Fit
<1>1d. tokensFile \in SUBSET tokens /\ Cardinality(tokensFile) <= MaxTokens
  <2>1. /\ tokensFile \in SUBSET tokens /\ tokens \in SUBSET ApiToken
        /\ Cardinality(tokens) <= MaxTokens
    BY DEF IInv, TypeOK, ApiTokens
  <2> HIDE DEF ApiToken
  <2>2. Cardinality(tokensFile) <= Cardinality(tokens) /\ Cardinality(tokensFile) \in Nat
        /\ Cardinality(tokens) \in Nat
    BY <2>1, TokenSets
  <2> QED BY <2>1, <2>2
<1> USE <1>1a, <1>1b, <1>1c, <1>1d DEF IInv, Registered
<1>1. TypeOK'
  BY TokenSets DEF TypeOK, Mirrored, ApiTokens, Fit
<1>2. Fit'
  BY DEF TypeOK, Fit, Mirrored
<1>3. SpentOnce'
  BY DEF TypeOK, SpentOnce, Once, Spending, Mirrored
<1>4. ChannelTokens'
  BY DEF TypeOK, ChannelTokens, Fresh, Mirrored
<1>5. Enrolled'
  BY DEF TypeOK, Enrolled, Mirrored
<1>6. ApiTokens'
  BY DEF TypeOK, ApiTokens
<1>7. TokensNameDevices'
  BY DEF TypeOK, TokensNameDevices, Registered, ApiTokens
<1> QED BY <1>1, <1>2, <1>3, <1>4, <1>5, <1>6, <1>7

-----------------------------------------------------------------------------
LEMMA StepInv == IInv /\ [Next]_vars => IInv'
<1> SUFFICES ASSUME IInv, [Next]_vars PROVE IInv'
    OBVIOUS
<1>1. CASE UNCHANGED vars
  <2> USE <1>1 DEF vars, codeVars, deviceVars, tokenVars, handlerVars
  <2>1. TypeOK' /\ Fit' /\ SpentOnce' /\ ApiTokens'
    BY DEF IInv, TypeOK, Fit, SpentOnce, Once, Spending, ApiTokens
  <2>2. ChannelTokens' /\ Enrolled' /\ TokensNameDevices'
    BY DEF IInv, ChannelTokens, Fresh, Enrolled, TokensNameDevices, Registered
  <2> QED BY <2>1, <2>2 DEF IInv
<1>2. ASSUME NEW c \in Code, Issue(c) \/ Expire(c) PROVE IInv'
  BY <1>2, IssueInv, ExpireInv
<1>3. ASSUME NEW d \in Device, NEW c \in Code, Present(d, c) \/ Register(d, c) PROVE IInv'
  BY <1>3, PresentInv, RegisterInv
<1>4. ASSUME NEW d \in Device, Remove(d) \/ RevokeFor(d) PROVE IInv'
  BY <1>4, RemoveInv, RevokeForInv
<1>5. ASSUME NEW S \in SUBSET Device, CreateBegin(S) \/ CreateEnd(S) PROVE IInv'
  BY <1>5, CreateBeginInv, CreateEndInv
<1>6. ASSUME NEW t \in ApiToken, Rotate(t) \/ Revoke(t) PROVE IInv'
  BY <1>6, RotateInv, RevokeInv
<1>7. CASE Label \/ Use \/ LoseFile \/ Restart
  BY <1>7, LabelInv, UseInv, LoseFileInv, RestartInv
<1> QED BY <1>1, <1>2, <1>3, <1>4, <1>5, <1>6, <1>7 DEF Next

\* Whatever writes fail, whatever files are lost and whenever the console ends,
\* memory and both copies of each file keep the invariant above.
THEOREM Invariant == Spec => []IInv
<1> QED BY InitInv, StepInv, PTL DEF Spec

\* The registries and their files keep their types, and the codes and the API
\* tokens their caps.
THEOREM TypeCorrect == Spec => []TypeOK
<1>1. IInv => TypeOK
  BY DEF IInv
<1> QED BY <1>1, Invariant, PTL

\* A code brings about one registration at most, from memory or any copy.
THEOREM CodesAdmitOnce == Spec => []CodeAdmitsOnce
<1>1. IInv => CodeAdmitsOnce
  BY DEF IInv, SpentOnce, Once, CodeAdmitsOnce
<1> QED BY <1>1, Invariant, PTL

\* No file that is lost or recovered brings a withdrawn token back.
THEOREM Withdrawals == Spec => []WithdrawnStaysOut
<1>1. IInv => WithdrawnStaysOut
  BY DEF IInv, ChannelTokens, Fresh, ApiTokens, WithdrawnStaysOut
<1> QED BY <1>1, Invariant, PTL

\* A device that was told of its enrolment is admitted with the token it holds.
THEOREM Admissions == Spec => []EnrolledStaysAdmitted
<1>1. IInv => EnrolledStaysAdmitted
  BY DEF IInv, Enrolled, EnrolledStaysAdmitted
<1> QED BY <1>1, Invariant, PTL

\* An API token reaches registered devices, or those the code leaves it for.
THEOREM Scopes == Spec => []TokensNameDevices
<1>1. IInv => TokensNameDevices
  BY DEF IInv
<1> QED BY <1>1, Invariant, PTL
=============================================================================

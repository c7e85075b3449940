--------------------------- MODULE ConsoleRegistry ---------------------------
(***************************************************************************)
(* What the console remembers of whom it trusts: the one-time enrolment    *)
(* codes (codes.json), the devices with the token of each one's channel    *)
(* (devices.json), and the API tokens of the operator's clients            *)
(* (tokens.json); with the handlers that work on two of them in turn.      *)
(*                                                                         *)
(* Each registry is a map in memory behind a lock, and a file that is      *)
(* written before memory adopts the change.  Codes and devices have a      *)
(* second copy beside the file, written first; tokens have none, on        *)
(* purpose.  A write is one step, because the lock is held across it; it   *)
(* may fail before anything is replaced or between the two copies.         *)
(*                                                                         *)
(* Channel tokens and API tokens are numbered in the order they are made.  *)
(* Of a signature, a hash or a name nothing remains; an expired API token  *)
(* is not modelled, an expired code is.                                    *)
(*                                                                         *)
(* PresentUnsaved, MirrorPrevious, RegisterUnsaved and RevokeForSingle are *)
(* faulty variants: each breaks a property below, which shows that the     *)
(* property is earned.                                                     *)
(***************************************************************************)
EXTENDS Naturals, FiniteSets

CONSTANTS
    Device,             \* device ids
    Code,               \* enrolment codes
    MaxOutstanding,     \* MAX_OUTSTANDING_CODES
    MaxTokens,          \* MAX_TOKENS
    MaxChannelTokens,   \* how many registrations the model follows
    MaxApiTokens,       \* how many API tokens are ever made
    MaxFaults           \* writes that fail, files that are lost

ASSUME BoundAssumption == /\ MaxOutstanding \in Nat
                          /\ MaxTokens \in Nat
                          /\ MaxChannelTokens \in Nat
                          /\ MaxApiTokens \in Nat
                          /\ MaxFaults \in Nat
ASSUME CodeAssumption == IsFiniteSet(Code)

ApiToken == 1 .. MaxApiTokens
NoToken == 0
Registry == [Device -> 0 .. MaxChannelTokens]

VARIABLES
    codes, codesFile,       \* codes that are outstanding
    devices, devicesFile,   \* the channel token of each device
    tokens, tokensFile,     \* the API tokens that exist
    scope,                  \* the devices an API token may reach
    told,                   \* codes the operator was given
    expired,                \* codes past their expiry
    inHand,                 \* registrations that have spent their code
    creating,               \* scopes checked against the registry
    removing,               \* devices removed, their tokens not yet
    holds,                  \* the channel token in each device's file
    made,                   \* channel tokens made so far
    minted,                 \* API tokens made so far
    issued,                 \* history: codes generated
    admitted,               \* history: registrations each code brought about
    withdrawn,              \* history: channel tokens replaced or removed
    revoked,                \* history: API tokens revoked or rotated
    disturbed,              \* history: devices registered or removed since
    excused,                \* history: see TokensNameDevices
    faults

codeVars == <<codes, codesFile, told, expired, issued>>
deviceVars == <<devices, devicesFile, holds, made, withdrawn, disturbed>>
tokenVars == <<tokens, tokensFile, scope, minted, revoked>>
handlerVars == <<inHand, creating, removing>>
vars == <<codeVars, deviceVars, tokenVars, handlerVars, admitted, excused, faults>>

Registered == {d \in Device : devices[d] # NoToken}

\* A file with its second copy; while neither was written, both read as empty.
Mirrored(S) == [there : BOOLEAN, primary : S, backup : S]

TypeOK ==
    /\ codes \subseteq Code
    /\ Cardinality(codes) <= MaxOutstanding
    /\ codesFile \in Mirrored(SUBSET Code)
    /\ devices \in Registry
    /\ devicesFile \in Mirrored(Registry)
    /\ tokens \subseteq ApiToken /\ Cardinality(tokens) <= MaxTokens
    /\ tokensFile \subseteq ApiToken
    /\ scope \in [ApiToken -> SUBSET Device]
    /\ told \subseteq Code /\ expired \subseteq Code /\ issued \subseteq Code
    /\ inHand \subseteq Device \X Code
    /\ creating \subseteq SUBSET Device
    /\ removing \subseteq Device
    /\ holds \in Registry
    /\ made \in 0 .. MaxChannelTokens
    /\ minted \in 0 .. MaxApiTokens
    /\ admitted \in [Code -> Nat]
    /\ withdrawn \subseteq 1 .. MaxChannelTokens
    /\ revoked \subseteq ApiToken
    /\ disturbed \subseteq Device /\ excused \subseteq Device
    /\ faults \in 0 .. MaxFaults

NoFile(empty) == [there |-> FALSE, primary |-> empty, backup |-> empty]
NoDevices == [d \in Device |-> NoToken]

Init ==
    /\ codes = {} /\ codesFile = NoFile({})
    /\ devices = NoDevices /\ devicesFile = NoFile(NoDevices)
    /\ tokens = {} /\ tokensFile = {}
    /\ scope = [t \in ApiToken |-> {}]
    /\ told = {} /\ expired = {} /\ issued = {}
    /\ inHand = {} /\ creating = {} /\ removing = {}
    /\ holds = NoDevices
    /\ made = 0 /\ minted = 0
    /\ admitted = [c \in Code |-> 0]
    /\ withdrawn = {} /\ revoked = {} /\ disturbed = {} /\ excused = {}
    /\ faults = 0

-----------------------------------------------------------------------------
(* Files.                                                                  *)

\* How a write ends.  Half is a backup that holds the new content beside a file
\* that holds the old one; the process may also have ended there.
Written == "written"
Unwritten == "unwritten"
Half == "half"

Ends(result, results) ==
    /\ result \in results
    /\ result # Written => faults < MaxFaults
    /\ faults' = IF result = Written THEN faults ELSE faults + 1

MirrorPrevious(file, content, result) ==
    [there |-> file.there \/ result = Written,
     primary |-> IF result = Written THEN content ELSE file.primary,
     backup |-> IF result = Unwritten THEN file.backup ELSE file.primary]

\* write_json_atomic_mirrored: both copies hold the new content, the backup
\* first.
Mirror(file, content, result) ==
    [there |-> file.there \/ result = Written,
     primary |-> IF result = Written THEN content ELSE file.primary,
     backup |-> IF result = Unwritten THEN file.backup ELSE content]

\* read_json_with_backup.
Loaded(file) == IF file.there THEN file.primary ELSE file.backup

-----------------------------------------------------------------------------
(* Codes and registration.                                                 *)

\* issue: codes past their expiry leave memory, whatever the write does then.
Issue(c) ==
    LET kept == codes \ expired IN
    /\ c \notin issued
    /\ \/ /\ Cardinality(kept) >= MaxOutstanding
          /\ codes' = kept
          /\ UNCHANGED <<codesFile, told, issued, faults>>
       \/ /\ Cardinality(kept) < MaxOutstanding
          /\ issued' = issued \cup {c}
          /\ \E result \in {Written, Unwritten, Half} :
              /\ Ends(result, {Written, Unwritten, Half})
              /\ codesFile' = Mirror(codesFile, kept \cup {c}, result)
              /\ codes' = IF result = Written THEN kept \cup {c} ELSE kept
              /\ told' = IF result = Written THEN told \cup {c} ELSE told
    /\ UNCHANGED <<expired, deviceVars, tokenVars, handlerVars, admitted, excused>>

Expire(c) ==
    /\ c \in issued \ expired
    /\ expired' = expired \cup {c}
    /\ UNCHANGED <<codes, codesFile, told, issued, deviceVars, tokenVars,
                   handlerVars, admitted, excused, faults>>

PresentUnsaved(d, c) ==
    /\ c \in told
    /\ c \in codes \ expired
    /\ codes' = codes \ {c}
    /\ inHand' = inHand \cup {<<d, c>>}
    /\ UNCHANGED <<codesFile, told, expired, issued, deviceVars, tokenVars, creating,
                   removing, admitted, excused, faults>>

\* register_device up to the spent code; a device is refused any other code.
Present(d, c) ==
    /\ c \in told
    /\ c \in codes \ expired
    /\ \E result \in {Written, Unwritten, Half} :
        /\ Ends(result, {Written, Unwritten, Half})
        /\ codesFile' = Mirror(codesFile, codes \ {c}, result)
        /\ IF result = Written
           THEN /\ codes' = codes \ {c}
                /\ inHand' = inHand \cup {<<d, c>>}
           ELSE UNCHANGED <<codes, inHand>>
    /\ UNCHANGED <<told, expired, issued, deviceVars, tokenVars, creating, removing,
                   admitted, excused>>

\* The device keeps the token of an answer that reached it.
Answered(d, k) ==
    \/ /\ holds' = [holds EXCEPT ![d] = k]
       /\ disturbed' = disturbed \ {d}
    \/ /\ disturbed' = disturbed \cup {d}
       /\ UNCHANGED holds

Admits(d, c, k) ==
    /\ devices' = [devices EXCEPT ![d] = k]
    /\ withdrawn' = withdrawn \cup ({devices[d]} \ {NoToken})
    /\ admitted' = [admitted EXCEPT ![c] = @ + 1]
    /\ Answered(d, k)

RegisterUnsaved(d, c) ==
    /\ <<d, c>> \in inHand
    /\ made < MaxChannelTokens
    /\ made' = made + 1
    /\ inHand' = inHand \ {<<d, c>>}
    /\ \E result \in {Written, Unwritten, Half} :
        /\ Ends(result, {Written, Unwritten, Half})
        /\ devicesFile' = Mirror(devicesFile, [devices EXCEPT ![d] = made'], result)
        /\ Admits(d, c, made')
    /\ UNCHANGED <<codeVars, tokenVars, creating, removing, excused>>

\* register_device from there: the device gets a new channel token.
Register(d, c) ==
    /\ <<d, c>> \in inHand
    /\ made < MaxChannelTokens
    /\ made' = made + 1
    /\ inHand' = inHand \ {<<d, c>>}
    /\ \E result \in {Written, Unwritten, Half} :
        /\ Ends(result, {Written, Unwritten, Half})
        /\ devicesFile' = Mirror(devicesFile, [devices EXCEPT ![d] = made'], result)
        /\ \/ result = Written /\ Admits(d, c, made')
           \/ /\ result # Written
              /\ disturbed' = disturbed \cup {d}
              /\ UNCHANGED <<devices, holds, withdrawn, admitted>>
    /\ UNCHANGED <<codeVars, tokenVars, creating, removing, excused>>

\* rename and record_version write the registry again, with other labels.
Label ==
    /\ Registered # {}
    /\ \E result \in {Written, Unwritten, Half} :
        /\ Ends(result, {Written, Unwritten, Half})
        /\ devicesFile' = Mirror(devicesFile, devices, result)
    /\ UNCHANGED <<codeVars, devices, holds, made, withdrawn, disturbed, tokenVars,
                   handlerVars, admitted, excused>>

-----------------------------------------------------------------------------
(* The removal of a device.                                                *)

\* remove: two removals of one device do not overlap in the model.
Remove(d) ==
    /\ d \in Registered \ removing
    /\ \E result \in {Written, Unwritten, Half} :
        /\ Ends(result, {Written, Unwritten, Half})
        /\ devicesFile' = Mirror(devicesFile, [devices EXCEPT ![d] = NoToken], result)
        /\ IF result = Written
           THEN /\ devices' = [devices EXCEPT ![d] = NoToken]
                /\ withdrawn' = withdrawn \cup {devices[d]}
                /\ removing' = removing \cup {d}
           ELSE UNCHANGED <<devices, withdrawn, removing>>
    /\ disturbed' = disturbed \cup {d}
    /\ UNCHANGED <<codeVars, holds, made, tokenVars, inHand, creating, admitted, excused>>

\* save_and_adopt of the tokens, which have no second copy.
SaveTokens(next, result) ==
    /\ Ends(result, {Written, Unwritten})
    /\ IF result = Written
       THEN tokens' = next /\ tokensFile' = next
       ELSE UNCHANGED <<tokens, tokensFile>>

RevokeForSingle(d) ==
    /\ d \in removing
    /\ removing' = removing \ {d}
    /\ LET doomed == {t \in tokens : scope[t] = {d}} IN
       /\ SaveTokens(tokens \ doomed, Written)
       /\ revoked' = revoked \cup doomed
    /\ UNCHANGED <<codeVars, deviceVars, scope, minted, inHand, creating, admitted,
                   excused>>

\* revoke_for_device: every token that lists the device goes.  A write that
\* fails is logged, and the removal is answered all the same.
RevokeFor(d) ==
    /\ d \in removing
    /\ removing' = removing \ {d}
    /\ LET doomed == {t \in tokens : d \in scope[t]} IN
       \/ /\ doomed = {}
          /\ UNCHANGED <<tokens, tokensFile, revoked, excused, faults>>
       \/ /\ doomed # {}
          /\ \E result \in {Written, Unwritten} :
              /\ SaveTokens(tokens \ doomed, result)
              /\ revoked' = IF result = Written THEN revoked \cup doomed ELSE revoked
              /\ excused' = IF result = Written THEN excused ELSE excused \cup {d}
    /\ UNCHANGED <<codeVars, deviceVars, scope, minted, inHand, creating, admitted>>

-----------------------------------------------------------------------------
(* API tokens.                                                             *)

\* create_token lists the registered devices before it locks the tokens.
CreateBegin(S) ==
    /\ S # {} /\ S \subseteq Registered
    /\ creating' = creating \cup {S}
    /\ UNCHANGED <<codeVars, deviceVars, tokenVars, inHand, removing, admitted,
                   excused, faults>>

CreateEnd(S) ==
    /\ S \in creating
    /\ creating' = creating \ {S}
    /\ \/ /\ Cardinality(tokens) >= MaxTokens
          /\ UNCHANGED <<tokens, tokensFile, scope, minted, excused, faults>>
       \/ /\ Cardinality(tokens) < MaxTokens
          /\ minted < MaxApiTokens
          /\ minted' = minted + 1
          /\ scope' = [scope EXCEPT ![minted'] = S]
          /\ excused' = excused \cup (S \ Registered)
          /\ \E result \in {Written, Unwritten} :
              SaveTokens(tokens \cup {minted'}, result)
    /\ UNCHANGED <<codeVars, deviceVars, revoked, inHand, removing, admitted>>

\* rotate: one write in which the old token leaves and its successor comes.
Rotate(t) ==
    /\ t \in tokens
    /\ minted < MaxApiTokens
    /\ minted' = minted + 1
    /\ scope' = [scope EXCEPT ![minted'] = scope[t]]
    /\ \E result \in {Written, Unwritten} :
        /\ SaveTokens((tokens \ {t}) \cup {minted'}, result)
        /\ revoked' = IF result = Written THEN revoked \cup {t} ELSE revoked
    /\ UNCHANGED <<codeVars, deviceVars, handlerVars, admitted, excused>>

Revoke(t) ==
    /\ t \in tokens
    /\ \E result \in {Written, Unwritten} :
        /\ SaveTokens(tokens \ {t}, result)
        /\ revoked' = IF result = Written THEN revoked \cup {t} ELSE revoked
    /\ UNCHANGED <<codeVars, deviceVars, scope, minted, handlerVars, admitted, excused>>

\* mark_used writes the whole list again, at most once a minute.
Use ==
    /\ tokens # {}
    /\ \E result \in {Written, Unwritten} : SaveTokens(tokens, result)
    /\ UNCHANGED <<codeVars, deviceVars, scope, minted, revoked, handlerVars,
                   admitted, excused>>

-----------------------------------------------------------------------------
(* Faults of the machine.                                                  *)

\* A file is deleted, or damaged beyond reading.
LoseFile ==
    /\ faults < MaxFaults
    /\ faults' = faults + 1
    /\ \/ /\ codesFile' = [codesFile EXCEPT !.there = FALSE, !.primary = {}]
          /\ UNCHANGED <<devicesFile, tokensFile>>
       \/ /\ devicesFile' = [devicesFile EXCEPT !.there = FALSE, !.primary = NoDevices]
          /\ UNCHANGED <<codesFile, tokensFile>>
       \/ /\ tokensFile' = {}
          /\ UNCHANGED <<codesFile, devicesFile>>
    /\ UNCHANGED <<codes, told, expired, issued, devices, holds, made, withdrawn,
                   disturbed, tokens, scope, minted, revoked, handlerVars, admitted,
                   excused>>

\* The console ends at any moment, with the handlers it was in, and starts.
Restart ==
    /\ codes' = Loaded(codesFile)
    /\ devices' = Loaded(devicesFile)
    /\ tokens' = tokensFile
    /\ inHand' = {} /\ creating' = {} /\ removing' = {}
    /\ excused' = excused \cup removing
                          \cup {d \in Registered : devices'[d] = NoToken}
    /\ UNCHANGED <<codesFile, told, expired, issued, devicesFile, holds, made,
                   withdrawn, disturbed, tokensFile, scope, minted, revoked,
                   admitted, faults>>

Next == \/ \E c \in Code : Issue(c) \/ Expire(c)
        \/ \E d \in Device, c \in Code : Present(d, c) \/ Register(d, c)
        \/ Label
        \/ \E d \in Device : Remove(d) \/ RevokeFor(d)
        \/ \E S \in SUBSET Device : CreateBegin(S) \/ CreateEnd(S)
        \/ \E t \in ApiToken : Rotate(t) \/ Revoke(t)
        \/ Use
        \/ LoseFile
        \/ Restart

Spec == Init /\ [][Next]_vars

-----------------------------------------------------------------------------
\* A code brings about one registration at most: not two devices that present
\* it at once, nor one after a crash or from a recovered file.
CodeAdmitsOnce == \A c \in Code : admitted[c] <= 1

\* What was withdrawn with the operator's knowledge never works again: not the
\* channel token of a device that was removed or registered anew, nor an API
\* token that was revoked or rotated, whatever file was lost and recovered.
WithdrawnStaysOut ==
    /\ \A d \in Device : devices[d] \notin withdrawn
    /\ tokens \cap revoked = {}

\* A device that was told its enrolment succeeded is admitted with the token it
\* stored until somebody registers or removes it again: a crash, a failed write
\* or a lost file does not lock it out.
EnrolledStaysAdmitted ==
    \A d \in Device : (holds[d] # NoToken /\ d \notin disturbed)
                          => devices[d] = holds[d]

\* A removed device leaves no API token behind that would reach it again once it
\* registers anew.  Excused are the devices for which the code leaves one: the
\* write of the revocation failed, the process ended before it, the token was
\* created from a list read before the removal, or the device was lost with a
\* file.
TokensNameDevices ==
    \A t \in tokens : scope[t] \subseteq Registered \cup removing \cup excused
=============================================================================

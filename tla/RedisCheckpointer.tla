------------------------- MODULE RedisCheckpointer --------------------------
(* RedisCheckpointer for one workflow: its steps hash, its pass hash, and the  *)
(* scripts that are one step each (without_durability_redis/checkpointer.py).  *)
(* What the store in memory has not is modelled here: hashes that expire, each *)
(* by itself; tokens seeded from the server's clock, so that they rise over an *)
(* expiry; positions counted by HLEN; and effects that a failing script does   *)
(* not take back.                                                              *)
EXTENDS Naturals, FiniteSets, FiniteSetsExt

CONSTANTS
    Passers,     \* tasks that may hold a Pass
    NoPasser,
    Fields,      \* step names; the inbox's are numbers
    Budget, Window, \* of a claim
    Ttl,
    MaxClock,
    MaxMinted,   \* tokens minted; an expiry takes longer than minting them all
    MaxFields

ASSUME RedisAssumption ==
    /\ Budget \in Nat /\ Window \in Nat /\ Ttl \in Nat
    /\ MaxMinted \in Nat /\ MaxMinted <= Ttl
    /\ Fields \cap Nat = {}

VARIABLES
    rcClock,     \* the server's
    passHash,    \* token, until, alive, for, and its expiry; whose the token is
    stepsHash,   \* the fields, and its expiry
    rcHeld,      \* Passers -> the token of its Pass, 0: none
    lastFenced,  \* Passers -> when it last passed a fence that was there
    lastWritten, \* when a write last landed, or found its step recorded
    minted,
    applied      \* Fields -> effects applied beyond those that are recorded

rcVars == <<rcClock, passHash, stepsHash, rcHeld, lastFenced, lastWritten, minted, applied>>

(* A hash that is not there reads as zeros.                                    *)
NoHash == [token |-> 0, until |-> 0, alive |-> 0, span |-> 0, gone |-> 0, owner |-> NoPasser]
NoSteps == [fields |-> {}, gone |-> 0]

RcInit ==
    /\ rcClock = 1
    /\ passHash = NoHash /\ stepsHash = NoSteps
    /\ rcHeld = [p \in Passers |-> 0]
    /\ lastFenced = [p \in Passers |-> 0]
    /\ lastWritten = 0 /\ minted = 0
    /\ applied = [k \in Fields |-> 0]

RcTick ==
    /\ rcClock < MaxClock
    /\ rcClock' = rcClock + 1
    /\ passHash' = IF passHash.gone <= rcClock + 1 THEN NoHash ELSE passHash
    /\ stepsHash' = IF stepsHash.gone <= rcClock + 1 THEN NoSteps ELSE stepsHash
    /\ UNCHANGED <<rcHeld, lastFenced, lastWritten, minted, applied>>

-----------------------------------------------------------------------------
(* LIVENESS and the EXPIRE that every script ends with.                        *)
HeardNow(hash, window) == Min({rcClock + window, hash.until})
Armed(hash) == [hash EXCEPT !.gone = rcClock + Ttl]

RcFits(p) == rcHeld[p] > 0 /\ rcHeld[p] >= passHash.token

Heard(p) ==
    lastFenced' = [lastFenced EXCEPT ![p] = IF passHash.token > 0 THEN rcClock ELSE @]

(* A token that only counts.                                                   *)
MintedCounting(previous) == previous + 1

Minted(previous) == Max({rcClock, previous + 1})

ClaimScript(p) ==
    /\ rcHeld[p] = 0 /\ passHash.alive <= rcClock /\ minted < MaxMinted
    /\ LET token == Minted(passHash.token)
           until == rcClock + Budget
       IN  /\ passHash' = Armed([passHash EXCEPT !.token = token, !.until = until, !.span = Window,
                                    !.alive = Min({rcClock + Window, until}), !.owner = p])
           /\ rcHeld' = [rcHeld EXCEPT ![p] = token]
    /\ minted' = minted + 1
    /\ lastFenced' = [lastFenced EXCEPT ![p] = rcClock]
    /\ UNCHANGED <<rcClock, stepsHash, lastWritten, applied>>

ExtendScript(p) ==
    /\ RcFits(p)
    /\ LET until == Max({passHash.until, rcClock + Budget})
       IN  passHash' = Armed([passHash EXCEPT !.until = until, !.span = Window,
                                 !.alive = Min({rcClock + Window, until})])
    /\ Heard(p)
    /\ UNCHANGED <<rcClock, stepsHash, rcHeld, lastWritten, minted, applied>>

RenewScript(p) ==
    /\ RcFits(p) /\ passHash.until > rcClock
    /\ passHash' = Armed([passHash EXCEPT !.span = Window, !.alive = HeardNow(passHash, Window)])
    /\ Heard(p)
    /\ UNCHANGED <<rcClock, stepsHash, rcHeld, lastWritten, minted, applied>>

ReleaseScript(p) ==
    /\ rcHeld[p] > 0 /\ rcHeld[p] = passHash.token
    /\ passHash' = [passHash EXCEPT !.until = 0, !.alive = 0]
    /\ UNCHANGED <<rcClock, stepsHash, rcHeld, lastFenced, lastWritten, minted, applied>>

(* The task that held the Pass is over.                                        *)
ForgetsPass(p) ==
    /\ rcHeld[p] > 0
    /\ rcHeld' = [rcHeld EXCEPT ![p] = 0]
    /\ UNCHANGED <<rcClock, passHash, stepsHash, lastFenced, lastWritten, minted, applied>>

-----------------------------------------------------------------------------
(* Fields, each with its position and the token it was written under; none is  *)
(* known where the fence had expired.                                          *)
Names == {f.name : f \in stepsHash.fields}
Filed(name, by) ==
    [fields |-> IF name \in Names THEN stepsHash.fields
                ELSE stepsHash.fields \cup
                        {[name |-> name, position |-> Cardinality(stepsHash.fields), by |-> by]},
     gone |-> rcClock + Ttl]
HasRoom(name) == name \in Names \/ Cardinality(stepsHash.fields) < MaxFields

By(p) == IF passHash.token > 0 THEN rcHeld[p] ELSE 0
Signed == Armed([passHash EXCEPT !.alive = HeardNow(passHash, passHash.span)])

RecordScript(p, name) ==
    /\ RcFits(p) /\ HasRoom(name)
    /\ stepsHash' = Filed(name, By(p))
    /\ passHash' = Signed
    /\ Heard(p)
    /\ lastWritten' = rcClock
    /\ UNCHANGED <<rcClock, rcHeld, minted, applied>>

(* TRANSACT: a step already recorded performs nothing, and arms both hashes.   *)
TransactScript(p, name) ==
    /\ RcFits(p) /\ HasRoom(name)
    /\ stepsHash' = Filed(name, By(p))
    /\ passHash' = IF name \in Names THEN Armed(passHash) ELSE Signed
    /\ Heard(p)
    /\ lastWritten' = rcClock
    /\ UNCHANGED <<rcClock, rcHeld, minted, applied>>

(* The effect's source raises: what it had changed before stays changed.       *)
TransactRaises(p, name) ==
    /\ RcFits(p) /\ name \notin Names /\ applied[name] = 0
    /\ applied' = [applied EXCEPT ![name] = @ + 1]
    /\ UNCHANGED <<rcClock, passHash, stepsHash, rcHeld, lastFenced, lastWritten, minted>>

SupplyScript(name) ==
    /\ HasRoom(name)
    /\ stepsHash' = Filed(name, 0)
    /\ lastWritten' = rcClock
    /\ UNCHANGED <<rcClock, passHash, rcHeld, lastFenced, minted, applied>>

(* The message is filed under its position.                                    *)
AppendScript ==
    LET name == Cardinality(stepsHash.fields)
    IN  /\ name < MaxFields
        /\ stepsHash' = [fields |-> stepsHash.fields \cup
                                       {[name |-> name, position |-> name, by |-> 0]},
                         gone |-> rcClock + Ttl]
        /\ lastWritten' = rcClock
        /\ UNCHANGED <<rcClock, passHash, rcHeld, lastFenced, minted, applied>>

DiscardScript ==
    /\ minted < MaxMinted
    /\ stepsHash' = NoSteps
    /\ applied' = [k \in Fields |-> 0]
    /\ IF passHash.token > 0
       THEN /\ passHash' = Armed([passHash EXCEPT !.token = Minted(@), !.until = 0, !.alive = 0,
                                                  !.owner = NoPasser])
            /\ minted' = minted + 1
       ELSE UNCHANGED <<passHash, minted>>
    /\ UNCHANGED <<rcClock, rcHeld, lastFenced, lastWritten>>

RcNext ==
    \/ RcTick \/ AppendScript \/ DiscardScript
    \/ \E name \in Fields : SupplyScript(name)
    \/ \E p \in Passers :
        \/ ClaimScript(p) \/ ExtendScript(p) \/ RenewScript(p) \/ ReleaseScript(p) \/ ForgetsPass(p)
        \/ \E name \in Fields :
            RecordScript(p, name) \/ TransactScript(p, name) \/ TransactRaises(p, name)

RcSpec == RcInit /\ [][RcNext]_rcVars

-----------------------------------------------------------------------------
(* The fence outranks every Pass but its owner's, those of before an expiry    *)
(* included; it is there for as long as a Pass was heard from within the ttl;  *)
(* so what is written under it is in the order of the tokens.                  *)
FenceSurvivesExpiry ==
    /\ \A p \in Passers :
        /\ passHash.token > 0 =>
             rcHeld[p] <= passHash.token /\ (rcHeld[p] = passHash.token => passHash.owner = p)
        /\ rcHeld[p] > 0 /\ passHash.token = 0 => rcClock >= lastFenced[p] + Ttl
    /\ \A f, g \in stepsHash.fields :
        f.position < g.position /\ f.by > 0 /\ g.by > 0 => f.by <= g.by

(* Records are there for a ttl after the last write or replay of one, in the   *)
(* order of their positions, which no two share, and with no message landing   *)
(* on another; a claim ends by its budget whatever signs of life it gives.     *)
RecordsLastTheirTtl ==
    /\ stepsHash.fields # {} => stepsHash.gone >= lastWritten + Ttl
    /\ \A f, g \in stepsHash.fields : f.name = g.name <=> f.position = g.position
    /\ \A f \in stepsHash.fields : f.name \notin Fields => f.name = f.position
    /\ passHash.alive <= passHash.until

CheckpointsOutliveSilence == FenceSurvivesExpiry /\ RecordsLastTheirTtl
=============================================================================

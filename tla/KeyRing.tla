------------------------------ MODULE KeyRing -------------------------------
(***************************************************************************)
(* The API keys of one KeyManager (src/mittelwerk/auth/keys.py): issued,   *)
(* registered from outside, revoked, rotated, expired.  A record is kept   *)
(* under the raw key whose digest leads to it; key identifiers and digests *)
(* are taken to be unique, and the clock never to go back.                 *)
(***************************************************************************)
EXTENDS Integers

CONSTANTS RawKeys,   \* raw keys, generated or brought from outside
          Orgs,      \* organizations
          Grants,    \* the sets of permissions that are asked for
          Ttls,      \* the lifetimes that are asked for
          NoEnd,     \* the expiry of a key without lifetime, or no lifetime given
          DefaultTtl, \* the manager's lifetime for a key that is given none
          MaxTime    \* bound: how far the clock runs

\* _validate_ttl lets no other lifetimes pass than positive ones.
ASSUME LifetimesAssumption ==
  /\ Ttls \subseteq Nat \ {0} /\ NoEnd \notin Nat
  /\ DefaultTtl \in (Nat \ {0}) \cup {NoEnd}

VARIABLES records,   \* the record under each raw key that was ever stored
          now        \* the manager's clock

keyVars == <<records, now>>

Known(k) == k \in DOMAIN records

Ends == Ttls \cup {NoEnd}
Lifetime(ttl) == IF ttl = NoEnd THEN DefaultTtl ELSE ttl
Expiry(ttl) == IF Lifetime(ttl) = NoEnd THEN NoEnd ELSE now + Lifetime(ttl)

\* For mutation: a key that was handed in before is stored anew.
MayStoreAny(k) == k \in RawKeys

\* _store: "API key is already registered"
MayStore(k) == ~Known(k)

\* The records once k is stored, over the records rs
Stored(rs, k, org, perms, ttl) ==
  [j \in DOMAIN rs \cup {k} |->
     IF j = k THEN [org |-> org, perms |-> perms, end |-> Expiry(ttl), revoked |-> FALSE]
     ELSE rs[j]]

NoRecords == [k \in {} |-> "none"]

\* _install_bootstrap_key(): a key from the environment, registered before the first
\* request with the manager's lifetime
Bootstrapped ==
  {Stored(NoRecords, k, org, perms, NoEnd) : k \in RawKeys, org \in Orgs, perms \in Grants}

KeyInit ==
  /\ now = 0
  /\ records \in {NoRecords} \cup Bootstrapped

\* APIKey.is_active
Active(k) ==
  /\ ~records[k].revoked
  /\ IF records[k].end = NoEnd THEN TRUE ELSE now < records[k].end

\* validate_key finds a record and the record is active.
Valid(k) == Known(k) /\ Active(k)

\* generate_key draws a raw key nobody has; register_key takes one from outside.
StoreKey(k, org, perms, ttl) ==
  /\ MayStore(k)
  /\ records' = Stored(records, k, org, perms, ttl)
  /\ UNCHANGED now

\* The records once revoke_key has found k
Revoked(k) == [records EXCEPT ![k].revoked = TRUE]

RevokeKey(k) ==
  /\ Known(k) /\ ~records[k].revoked
  /\ records' = Revoked(k)
  /\ UNCHANGED now

\* rotate_key revokes what it finds, in whatever state, and issues a replacement
\* with the same grants and a lifetime of its own.
RotateKey(k, new, ttl) ==
  /\ Known(k)
  /\ MayStore(new)
  /\ records' = Stored(Revoked(k), new, records[k].org, records[k].perms, ttl)
  /\ UNCHANGED now

\* A lifetime that is not positive is found out in generate_key, when the old
\* key is already revoked.
RotateBadly(k) ==
  /\ Known(k) /\ ~records[k].revoked
  /\ records' = Revoked(k)
  /\ UNCHANGED now

Tick ==
  /\ now < MaxTime
  /\ now' = now + 1
  /\ UNCHANGED records

KeyNext ==
  \/ \E k \in RawKeys, org \in Orgs, perms \in Grants, ttl \in Ends :
       StoreKey(k, org, perms, ttl)
  \/ \E k \in RawKeys : RevokeKey(k) \/ RotateBadly(k)
  \/ \E k, new \in RawKeys, ttl \in Ends : RotateKey(k, new, ttl)
  \/ Tick

KeySpec == KeyInit /\ [][KeyNext]_keyVars

\* A raw key that was refused once, because it was revoked, rotated away or had
\* expired, is refused for good: no later registration, rotation or passing of
\* time gives it back its rights, or other rights.
RefusedForGood ==
  [][\A k \in RawKeys :
       Known(k) => /\ Known(k)'
                   /\ Active(k)' => Active(k)
                   /\ records'[k].org = records[k].org
                   /\ records'[k].perms = records[k].perms]_keyVars

=============================================================================

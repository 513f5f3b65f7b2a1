---------------------------- MODULE Capabilities ----------------------------
(***************************************************************************)
(* CapabilityManager: capabilities granted by the kernel or a policy,      *)
(* delegated from agent to agent, revoked, swept when they expire, and     *)
(* lost when an agent is registered again.                                 *)
(*                                                                         *)
(* An id is a place in the order of issue.  Index and sets share the       *)
(* objects, so that a revocation shows in both.  An agent without a set    *)
(* and one with an empty set are treated alike by all operations, but for  *)
(* the audit log, which nothing reads and which is left out.               *)
(***************************************************************************)
EXTENDS Naturals, Sequences

CONSTANTS
  Holders,
  Kernel,      \* grants what was not delegated; also stands for policies
  PlainTypes,  \* capability types that callers grant one by one
  Patterns,    \* resource patterns
  Resources,
  Covers,      \* Covers[p]: the resources that match p
  Policy,      \* Policy[a]: what SecurityPolicy.apply grants to a, in order
  Expiries,    \* expiry ticks that callers give
  Never,       \* no expiry
  MaxCaps,     \* bound on capabilities issued
  MaxCapTick   \* bound on the clock

CapTypes == PlainTypes \cup {"ADMIN"}

CapabilitiesAssumption ==
  /\ Kernel \notin Holders
  /\ Covers \in [Patterns -> SUBSET Resources]
  /\ Policy \in [Holders -> Seq([type : CapTypes, pattern : Patterns,
                                delegatable : BOOLEAN])]
  /\ Expiries \subseteq Nat
  /\ Never \notin Nat
  /\ MaxCaps \in Nat
  /\ MaxCapTick \in Nat

VARIABLES
  caps,    \* the capabilities in the order of issue
  held,    \* held[a]: ids in the set of a
  capTick  \* current tick

authority == <<caps, held, capTick>>

Capability == [type : CapTypes, pattern : Patterns, to : Holders,
               by : Holders \cup {Kernel}, expires : Nat \cup {Never},
               delegatable : BOOLEAN, revoked : BOOLEAN]

-----------------------------------------------------------------------------
ExpiredAt(c, t) == caps[c].expires # Never /\ t >= caps[c].expires

Active(c, t) == ~caps[c].revoked /\ ~ExpiredAt(c, t)

Grants(c, type, resource) ==
  \/ caps[c].type = "ADMIN"
  \/ caps[c].type = type /\ resource \in Covers[caps[c].pattern]

\* check, for agents other than the kernel, which is always allowed.
Check(a, type, resource, t) ==
  \E c \in held[a] : Active(c, t) /\ Grants(c, type, resource)

\* Mutant of Narrower: the expiry of the delegator is not looked at.
AsAskedFor(asked, own) == asked

\* The earlier of two expiries, of which Never is the latest.
Narrower(asked, own) ==
  IF own = Never \/ (asked # Never /\ asked <= own) THEN asked ELSE own

\* New capabilities go to the index and to the set of one agent.
Issue(a, new) ==
  /\ Len(caps) + Len(new) <= MaxCaps
  /\ caps' = caps \o new
  /\ held' = [held EXCEPT ![a] = @ \cup (Len(caps) + 1 .. Len(caps) + Len(new))]
  /\ UNCHANGED capTick

-----------------------------------------------------------------------------
\* create_capability
Grant(a) ==
  \E type \in PlainTypes, pattern \in Patterns, d \in BOOLEAN,
     e \in Expiries \cup {Never} :
    Issue(a, << [type |-> type, pattern |-> pattern, to |-> a, by |-> Kernel,
                 expires |-> e, delegatable |-> d, revoked |-> FALSE] >>)

\* SecurityPolicy.apply
Apply(a) ==
  Issue(a, [i \in DOMAIN Policy[a] |->
              [type |-> Policy[a][i].type, pattern |-> Policy[a][i].pattern,
               to |-> a, by |-> Kernel, expires |-> Never,
               delegatable |-> Policy[a][i].delegatable, revoked |-> FALSE]])

\* Callers pass the current tick or leave it at its default.
Delegate(a, c, target) ==
  /\ c \in held[a]
  /\ \E t \in {0, capTick} : Active(c, t)
  /\ caps[c].delegatable
  /\ \E e \in Expiries \cup {Never}, d \in BOOLEAN :
       Issue(target, << [type |-> caps[c].type, pattern |-> caps[c].pattern,
                         to |-> target, by |-> a,
                         expires |-> Narrower(e, caps[c].expires),
                         delegatable |-> d, revoked |-> FALSE] >>)

\* Capabilities delegated from c are left alone.
Revoke(c) ==
  /\ caps' = [caps EXCEPT ![c] = [@ EXCEPT !.revoked = TRUE]]
  /\ UNCHANGED <<held, capTick>>

RevokeAll(a) ==
  /\ caps' = [c \in DOMAIN caps |->
                IF c \in held[a] THEN [caps[c] EXCEPT !.revoked = TRUE] ELSE caps[c]]
  /\ UNCHANGED <<held, capTick>>

\* CapabilitySet.remove
Remove(a, c) ==
  /\ held' = [held EXCEPT ![a] = @ \ {c}]
  /\ UNCHANGED <<caps, capTick>>

\* register_agent replaces the set that an agent has, unregister_agent drops it.
Register(a) ==
  /\ held' = [held EXCEPT ![a] = {}]
  /\ UNCHANGED <<caps, capTick>>

ExpireCaps ==
  /\ caps' = [c \in DOMAIN caps |->
                IF ExpiredAt(c, capTick) THEN [caps[c] EXCEPT !.revoked = TRUE]
                ELSE caps[c]]
  /\ UNCHANGED <<held, capTick>>

AccessTick == capTick < MaxCapTick /\ capTick' = capTick + 1 /\ UNCHANGED <<caps, held>>

AccessInit ==
  /\ caps = << >>
  /\ held = [a \in Holders |-> {}]
  /\ capTick = 0

AccessNext ==
  \/ \E a \in Holders : Grant(a) \/ Apply(a) \/ RevokeAll(a) \/ Register(a)
  \/ \E a, target \in Holders, c \in DOMAIN caps : Delegate(a, c, target)
  \/ \E c \in DOMAIN caps : Revoke(c)
  \/ \E a \in Holders, c \in DOMAIN caps : Remove(a, c)
  \/ ExpireCaps
  \/ AccessTick

AccessSpec == AccessInit /\ [][AccessNext]_authority

-----------------------------------------------------------------------------
TypeOK ==
  /\ caps \in Seq(Capability)
  /\ held \in [Holders -> SUBSET DOMAIN caps]
  /\ capTick \in Nat

\* g was not delegated.
Root(g) == caps[g].by = Kernel

(***************************************************************************)
(* Delegation never amplifies: whatever check allows at the current tick   *)
(* goes back to a grant by the kernel or a policy that allows it, has not  *)
(* expired, and was made to that very agent or was delegatable.  (The      *)
(* grant may have been revoked: revocation does not reach what was         *)
(* delegated before.)                                                      *)
(***************************************************************************)
NoAmplification ==
  \A a \in Holders, type \in CapTypes, resource \in Resources :
    Check(a, type, resource, capTick) =>
      \E g \in DOMAIN caps :
        /\ Root(g)
        /\ Grants(g, type, resource)
        /\ ~ExpiredAt(g, capTick)
        /\ caps[g].to = a \/ caps[g].delegatable
=============================================================================

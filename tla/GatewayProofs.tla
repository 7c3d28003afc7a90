--------------------------- MODULE GatewayProofs ---------------------------
(* Theorems about the contract and the gateways that stand before it.      *)
(*                                                                         *)
(* The contract.  First its administration alone, that is Authority:       *)
(* withdrawn grants and sessions stay withdrawn, and duties separate.      *)
(* Then the contract as a whole: plans leave the administration alone, so  *)
(* that everything shown of it holds beside them; and what they need of a  *)
(* session they need at the moment they commit.                            *)
(*                                                                         *)
(* A gateway with any number of requests, any endpoints and sessions.      *)
(* First the writer lock: what a plan does to the canonical state is not   *)
(* looked into, only who can have changed it since a snapshot.  Then the   *)
(* promise to the clients, for which a plan is carried out on the counter. *)
EXTENDS Gateway, ApplyProofs, SequenceTheorems

USE AuthorityAssumption DEF Address, roleVars, gatewayVars, identityVars, revocationVars

(* Every transaction keeps owner, grants, delegations, floors and the      *)
(* clock within their types.                                               *)
THEOREM AuthorityTypeCorrect == AuthoritySpec => []AuthorityTypeOK
<1>1. AuthorityInit => AuthorityTypeOK
  BY DEF AuthorityInit, AuthorityTypeOK, GatewayGrant, Delegation
<1>2. AuthorityTypeOK /\ [AuthorityNext]_authorityVars => AuthorityTypeOK'
  <2> SUFFICES ASSUME AuthorityTypeOK, [AuthorityNext]_authorityVars
               PROVE  AuthorityTypeOK'
    OBVIOUS
  <2>1. ASSUME NEW sender \in Account, NEW x \in DeveloperArgs, TransferOwnership(sender, x)
        PROVE  AuthorityTypeOK'
    BY <2>1 DEF TransferOwnership, EndDelegationsOf, AuthorityTypeOK, GatewayGrant, Delegation
  <2>2. ASSUME NEW sender \in Account, NEW x \in DeveloperArgs, NEW enabled \in BOOLEAN,
               SetDeveloper(sender, x, enabled)
        PROVE  AuthorityTypeOK'
    BY <2>2 DEF SetDeveloper, EndDelegationsOf, AuthorityTypeOK, GatewayGrant, Delegation
  <2>3. ASSUME NEW sender \in Account, NEW x \in GatewayArgs, NEW enabled \in BOOLEAN,
               NEW privileged \in BOOLEAN, SetGateway(sender, x, enabled, privileged)
        PROVE  AuthorityTypeOK'
    BY <2>3 DEF SetGateway, SetGatewayOf, AuthorityTypeOK, GatewayGrant, Delegation
  <2>4. ASSUME NEW sender \in Account, NEW x \in AuthorityArgs, NEW enabled \in BOOLEAN,
               SetIdentityAuthority(sender, x, enabled)
        PROVE  AuthorityTypeOK'
    BY <2>4 DEF SetIdentityAuthority, AuthorityTypeOK, GatewayGrant, Delegation
  <2>5. ASSUME NEW sender \in Account, NEW s \in Session, RevokeSession(sender, s)
        PROVE  AuthorityTypeOK'
    BY <2>5 DEF RevokeSession, AuthorityTypeOK, GatewayGrant, Delegation
  <2>6. ASSUME NEW sender \in Account, NEW x \in {s.user : s \in Session},
               NEW n \in 1..MaxNonce, RevokeUserSessions(sender, x, n)
        PROVE  AuthorityTypeOK'
    BY <2>6 DEF RevokeUserSessions, AuthorityTypeOK, SessionType
  <2>7. CASE Tick
    BY <2>7 DEF Tick, AuthorityTypeOK, GatewayGrant, Delegation
  <2>8. CASE UNCHANGED authorityVars
    BY <2>8 DEF authorityVars, AuthorityTypeOK, GatewayGrant, Delegation
  <2>9. QED
    BY <2>1, <2>2, <2>3, <2>4, <2>5, <2>6, <2>7, <2>8 DEF AuthorityNext
<1>3. QED
  BY <1>1, <1>2, PTL DEF AuthoritySpec

(* No address is enabled as gateway and as identity authority at once      *)
(* (setGateway, setIdentityAuthority).                                     *)
THEOREM SeparationOfDuties == AuthoritySpec => []DutiesAreSeparate
<1>1. AuthorityInit => DutiesAreSeparate
  BY DEF AuthorityInit, DutiesAreSeparate
<1>2. AuthorityTypeOK /\ DutiesAreSeparate /\ [AuthorityNext]_authorityVars
         => DutiesAreSeparate'
  <2> SUFFICES ASSUME AuthorityTypeOK, DutiesAreSeparate, [AuthorityNext]_authorityVars
               PROVE  DutiesAreSeparate'
    OBVIOUS
  <2>1. ASSUME NEW sender \in Account, NEW x \in GatewayArgs, NEW enabled \in BOOLEAN,
               NEW privileged \in BOOLEAN, SetGateway(sender, x, enabled, privileged)
        PROVE  DutiesAreSeparate'
    BY <2>1 DEF SetGateway, SetGatewayOf, AuthorityTypeOK, GatewayGrant, DutiesAreSeparate
  <2>2. ASSUME NEW sender \in Account, NEW x \in AuthorityArgs, NEW enabled \in BOOLEAN,
               SetIdentityAuthority(sender, x, enabled)
        PROVE  DutiesAreSeparate'
    BY <2>2 DEF SetIdentityAuthority, AuthorityTypeOK, GatewayGrant, DutiesAreSeparate
  <2>3. ASSUME UNCHANGED <<gateways, identityAuthorities>>
        PROVE  DutiesAreSeparate'
    BY <2>3 DEF DutiesAreSeparate
  <2>4. QED
    BY <2>1, <2>2, <2>3 DEF AuthorityNext, authorityVars, TransferOwnership, SetDeveloper,
       RevokeSession, RevokeUserSessions, Tick
<1>3. QED
  BY <1>1, <1>2, AuthorityTypeCorrect, PTL DEF AuthoritySpec

(* A grant whose issuer is no administrator is behind the issuer's epoch.  *)
(* This is the inductive invariant behind every statement below: losing    *)
(* the role and raising the epoch happen in one transaction                *)
(* (transferOwnership, setDeveloper), and a new grant records the epoch of *)
(* someone who is an administrator when he issues it.                      *)
THEOREM LapsedGrants == AuthoritySpec => []LapsedGrantsAreBehind
<1>1. AuthorityInit => LapsedGrantsAreBehind
  BY DEF AuthorityInit, LapsedGrantsAreBehind, NotAhead, IsAdministrator
<1>2. AuthorityTypeOK /\ LapsedGrantsAreBehind /\ [AuthorityNext]_authorityVars
         => LapsedGrantsAreBehind'
  <2> SUFFICES ASSUME AuthorityTypeOK, LapsedGrantsAreBehind, [AuthorityNext]_authorityVars
               PROVE  LapsedGrantsAreBehind'
    OBVIOUS
  <2>1. ASSUME NEW sender \in Account, NEW x \in DeveloperArgs, TransferOwnership(sender, x)
        PROVE  LapsedGrantsAreBehind'
    BY <2>1 DEF TransferOwnership, EndDelegationsOf, AuthorityTypeOK, Delegation,
       LapsedGrantsAreBehind, NotAhead, IsAdministrator
  <2>2. ASSUME NEW sender \in Account, NEW x \in DeveloperArgs, NEW enabled \in BOOLEAN,
               SetDeveloper(sender, x, enabled)
        PROVE  LapsedGrantsAreBehind'
    BY <2>2 DEF SetDeveloper, EndDelegationsOf, AuthorityTypeOK, Delegation,
       LapsedGrantsAreBehind, NotAhead, IsAdministrator
  <2>3. ASSUME NEW sender \in Account, NEW x \in GatewayArgs, NEW enabled \in BOOLEAN,
               NEW privileged \in BOOLEAN, SetGateway(sender, x, enabled, privileged)
        PROVE  LapsedGrantsAreBehind'
    BY <2>3 DEF SetGateway, SetGatewayOf, AuthorityTypeOK, Delegation,
       LapsedGrantsAreBehind, NotAhead, IsAdministrator
  <2>4. ASSUME NEW sender \in Account, NEW x \in AuthorityArgs, NEW enabled \in BOOLEAN,
               SetIdentityAuthority(sender, x, enabled)
        PROVE  LapsedGrantsAreBehind'
    BY <2>4 DEF SetIdentityAuthority, AuthorityTypeOK, Delegation,
       LapsedGrantsAreBehind, NotAhead, IsAdministrator
  <2>5. ASSUME UNCHANGED <<owner, developers, administratorEpoch, gatewayDelegation,
                           authorityDelegation>>
        PROVE  LapsedGrantsAreBehind'
    BY <2>5 DEF LapsedGrantsAreBehind, NotAhead, IsAdministrator
  <2>6. QED
    BY <2>1, <2>2, <2>3, <2>4, <2>5 DEF AuthorityNext, authorityVars,
       RevokeSession, RevokeUserSessions, Tick
<1>3. QED
  BY <1>1, <1>2, AuthorityTypeCorrect, PTL DEF AuthoritySpec

(* A delegation that has lapsed comes back into force only in the step     *)
(* that issues it anew.                                                    *)
LEMMA LapsedStaysLapsed ==
  ASSUME AuthorityTypeOK, LapsedGrantsAreBehind, [AuthorityNext]_authorityVars,
         NEW a \in Address
  PROVE  /\ ~ InForce(gatewayDelegation[a]) /\ InForce(gatewayDelegation[a])'
               => gateways'[a].epoch > gateways[a].epoch
         /\ ~ InForce(authorityDelegation[a]) /\ InForce(authorityDelegation[a])'
               => authorityDelegation'[a] # authorityDelegation[a]
<1> DEFINE Goal == /\ ~ InForce(gatewayDelegation[a]) /\ InForce(gatewayDelegation[a])'
                        => gateways'[a].epoch > gateways[a].epoch
                   /\ ~ InForce(authorityDelegation[a]) /\ InForce(authorityDelegation[a])'
                        => authorityDelegation'[a] # authorityDelegation[a]
<1>1. ASSUME NEW sender \in Account, NEW x \in DeveloperArgs, TransferOwnership(sender, x)
      PROVE  Goal
  BY <1>1 DEF TransferOwnership, EndDelegationsOf, AuthorityTypeOK, Delegation,
     LapsedGrantsAreBehind, NotAhead, IsAdministrator, InForce
<1>2. ASSUME NEW sender \in Account, NEW x \in DeveloperArgs, NEW enabled \in BOOLEAN,
             SetDeveloper(sender, x, enabled)
      PROVE  Goal
  BY <1>2 DEF SetDeveloper, EndDelegationsOf, AuthorityTypeOK, Delegation,
     LapsedGrantsAreBehind, NotAhead, IsAdministrator, InForce
<1>3. ASSUME NEW sender \in Account, NEW x \in GatewayArgs, NEW enabled \in BOOLEAN,
             NEW privileged \in BOOLEAN, SetGateway(sender, x, enabled, privileged)
      PROVE  Goal
  <2>1. CASE a = x
    BY <1>3, <2>1 DEF SetGateway, SetGatewayOf, AuthorityTypeOK, GatewayGrant, InForce,
       IsAdministrator
  <2>2. CASE a # x
    BY <1>3, <2>2 DEF SetGateway, SetGatewayOf, AuthorityTypeOK, InForce, IsAdministrator
  <2>3. QED
    BY <2>1, <2>2
<1>4. ASSUME NEW sender \in Account, NEW x \in AuthorityArgs, NEW enabled \in BOOLEAN,
             SetIdentityAuthority(sender, x, enabled)
      PROVE  Goal
  BY <1>4 DEF SetIdentityAuthority, InForce, IsAdministrator
<1>5. ASSUME UNCHANGED <<owner, developers, administratorEpoch, gatewayDelegation,
                         authorityDelegation>>
      PROVE  Goal
  BY <1>5 DEF InForce, IsAdministrator
<1>6. QED
  BY <1>1, <1>2, <1>3, <1>4, <1>5 DEF AuthorityNext, authorityVars,
     RevokeSession, RevokeUserSessions, Tick

(* Only setGateway sets a gateway's grant, and it moves the grant's epoch. *)
LEMMA GrantsChangeWithTheirEpoch ==
  ASSUME AuthorityTypeOK, [AuthorityNext]_authorityVars, NEW a \in Address
  PROVE  \/ gateways'[a] = gateways[a]
         \/ gateways'[a].epoch > gateways[a].epoch
<1>1. ASSUME NEW sender \in Account, NEW x \in GatewayArgs, NEW enabled \in BOOLEAN,
             NEW privileged \in BOOLEAN, SetGateway(sender, x, enabled, privileged)
      PROVE  gateways'[a] = gateways[a] \/ gateways'[a].epoch > gateways[a].epoch
  BY <1>1 DEF SetGateway, SetGatewayOf, AuthorityTypeOK, GatewayGrant
<1>2. CASE UNCHANGED gateways
  BY <1>2
<1>3. QED
  BY <1>1, <1>2 DEF AuthorityNext, authorityVars, TransferOwnership, SetDeveloper,
     SetIdentityAuthority, RevokeSession, RevokeUserSessions, Tick

(* The step form of GatewayNeverRevives.                                   *)
LEMMA GatewayStep ==
  ASSUME AuthorityTypeOK, LapsedGrantsAreBehind, [AuthorityNext]_authorityVars,
         NEW g \in Address, ~ IsGatewayAuthorized(g), IsGatewayAuthorized(g)'
  PROVE  gateways'[g].epoch > gateways[g].epoch
BY LapsedStaysLapsed, GrantsChangeWithTheirEpoch DEF IsGatewayAuthorized

(* A gateway regains a lost authorization only by a new setGateway.        *)
THEOREM GatewaysNeverRevive == AuthoritySpec => GatewayNeverRevives
<1>1. AuthorityTypeOK /\ LapsedGrantsAreBehind /\ [AuthorityNext]_authorityVars
        => [\A g \in Address :
               ~ IsGatewayAuthorized(g) /\ IsGatewayAuthorized(g)'
                  => gateways'[g].epoch > gateways[g].epoch]_authorityVars
  BY GatewayStep
<1>2. QED
  BY <1>1, AuthorityTypeCorrect, LapsedGrants, PTL DEF AuthoritySpec, GatewayNeverRevives

(* An identity authority regains a lost power only by a new                *)
(* setIdentityAuthority.                                                   *)
THEOREM AuthoritiesNeverRevive == AuthoritySpec => AuthorityNeverRevives
<1>1. AuthorityTypeOK /\ LapsedGrantsAreBehind /\ [AuthorityNext]_authorityVars
        => [\A a \in Address :
               ~ IsIdentityAuthorityAuthorized(a) /\ IsIdentityAuthorityAuthorized(a)'
                  => \/ a \notin identityAuthorities
                     \/ authorityDelegation'[a] # authorityDelegation[a]]_authorityVars
  BY LapsedStaysLapsed DEF IsIdentityAuthorityAuthorized
<1>2. QED
  BY <1>1, AuthorityTypeCorrect, LapsedGrants, PTL DEF AuthoritySpec, AuthorityNeverRevives

(* Floors rise, revocations accumulate, and time passes.                   *)
LEMMA RevokedStaysRevoked ==
  ASSUME AuthorityTypeOK, [AuthorityNext]_authorityVars, NEW s \in Session
  PROVE  /\ Revoked(s) => Revoked(s)'
         /\ now' >= now
<1>. s.user \in Address /\ s.nonce \in Nat
  BY DEF SessionType
<1>1. ASSUME NEW sender \in Account, NEW x \in {t.user : t \in Session},
             NEW n \in 1..MaxNonce, RevokeUserSessions(sender, x, n)
      PROVE  (Revoked(s) => Revoked(s)') /\ now' >= now
  BY <1>1 DEF RevokeUserSessions, Revoked, AuthorityTypeOK, SessionType
<1>2. ASSUME revokedSessions \subseteq revokedSessions', UNCHANGED minimumSessionNonce,
             now' >= now
      PROVE  (Revoked(s) => Revoked(s)') /\ now' >= now
  BY <1>2 DEF Revoked
<1>3. now \in Int
  BY DEF AuthorityTypeOK
<1>4. QED
  BY <1>1, <1>2, <1>3 DEF AuthorityNext, authorityVars, TransferOwnership, SetDeveloper,
     SetGateway, SetGatewayOf, SetIdentityAuthority, RevokeSession, Tick

(* Whatever once made the contract reject a session its user signed holds  *)
(* until the gateway is granted anew.                                      *)
THEOREM SessionsNeverRevive == AuthoritySpec => SessionNeverRevives
<1>1. ASSUME AuthorityTypeOK, LapsedGrantsAreBehind, [AuthorityNext]_authorityVars,
             NEW s \in Session, s.identity = "wallet",
             ~ SessionValid(s, s.user), SessionValid(s, s.user)'
      PROVE  gateways'[s.gateway].epoch > gateways[s.gateway].epoch
  <2>1. /\ s.gateway \in Address /\ s.expiresAt \in Nat /\ now \in Nat /\ now' \in Int
    <3>1. now \in Nat
      BY <1>1 DEF AuthorityTypeOK
    <3>2. now' \in Int
      BY <1>1, <3>1 DEF AuthorityNext, authorityVars, TransferOwnership, SetDeveloper,
         SetGateway, SetGatewayOf, SetIdentityAuthority, RevokeSession, RevokeUserSessions, Tick
    <3>3. QED
      BY <1>1, <3>1, <3>2 DEF SessionType
  <2>2. CASE ~ IsGatewayAuthorized(s.gateway)
    BY <1>1, <2>1, <2>2, GatewayStep DEF SessionValid
  <2>3. CASE s.gatewayEpoch # gateways[s.gateway].epoch
    BY <1>1, <2>1, <2>3, GrantsChangeWithTheirEpoch DEF SessionValid
  <2>4. ~ Revoked(s) /\ now < s.expiresAt
    BY <1>1, <2>1, RevokedStaysRevoked DEF SessionValid
  <2>5. QED
    BY <1>1, <2>2, <2>3, <2>4 DEF SessionValid, SignedFor
<1>2. AuthorityTypeOK /\ LapsedGrantsAreBehind /\ [AuthorityNext]_authorityVars
        => [\A s \in Session :
               /\ s.identity = "wallet"
               /\ ~ SessionValid(s, s.user)
               /\ SessionValid(s, s.user)'
               => gateways'[s.gateway].epoch > gateways[s.gateway].epoch]_authorityVars
  BY <1>1
<1>3. QED
  BY <1>2, AuthorityTypeCorrect, LapsedGrants, PTL DEF AuthoritySpec, SessionNeverRevives

HIDE AuthorityAssumption DEF Address, roleVars, gatewayVars, identityVars, revocationVars

----------------------------------------------------------------------------
(* The contract, seen through its administration, is Authority: a plan is  *)
(* a stuttering step (execute, executePrivileged, _apply).                 *)
THEOREM SchemaImplementsAuthority == SchemaSpec => AuthoritySpec
<1>1. SchemaInit => AuthorityInit
  BY DEF SchemaInit
<1>2. [SchemaNext]_schemaVars => [AuthorityNext]_authorityVars
  BY DEF SchemaNext, schemaVars, Execute, ExecutePrivileged, Commit
<1>3. QED
  BY <1>1, <1>2, PTL DEF SchemaSpec, AuthoritySpec

(* Beside any traffic of plans, a session that was rejected once is        *)
(* accepted again only under a new grant (_validateSession).               *)
THEOREM SessionsNeverReviveInSchema == SchemaSpec => SessionNeverRevives
  BY SchemaImplementsAuthority, SessionsNeverRevive, PTL

(* Beside any traffic of plans, nobody both executes for users and attests *)
(* them (setGateway, setIdentityAuthority).                                *)
THEOREM SeparationOfDutiesInSchema == SchemaSpec => []DutiesAreSeparate
  BY SchemaImplementsAuthority, SeparationOfDuties, PTL

----------------------------------------------------------------------------
(* What PlanCommitted events look like; which session one names is all     *)
(* that matters below.                                                     *)
CommitEvent ==
    [executor: Account, session: Session \cup {NoSession}, operations: Plans]

CommitsTypeOK == commits \in Seq(CommitEvent)

(* PlanCommitted events name a session or none (execute,                  *)
(* executePrivileged).                                                     *)
LEMMA CommitsTyped == SchemaSpec => []CommitsTypeOK
<1>1. SchemaInit => CommitsTypeOK
  BY DEF SchemaInit, CommitsTypeOK
<1>2. CommitsTypeOK /\ [SchemaNext]_schemaVars => CommitsTypeOK'
  <2> SUFFICES ASSUME commits \in Seq(CommitEvent), [SchemaNext]_schemaVars
               PROVE  commits' \in Seq(CommitEvent)
    BY DEF CommitsTypeOK, CommitEvent
  <2>1. CASE AuthorityNext /\ UNCHANGED stateVars
    BY <2>1 DEF stateVars
  <2>2. ASSUME NEW sender \in Account, NEW r \in 0..MaxRevision, NEW ops \in Plans,
               NEW s \in Session, NEW signedBy \in Account, Execute(sender, r, ops, s, signedBy)
        PROVE  commits' \in Seq(CommitEvent)
    <3>1. PlanCommitted(sender, s, ops) \in CommitEvent
      BY DEF PlanCommitted, CommitEvent
    <3>2. commits' = Append(commits, PlanCommitted(sender, s, ops))
      BY <2>2 DEF Execute, Commit
    <3>3. QED
      BY <3>1, <3>2
  <2>3. ASSUME NEW sender \in Account, NEW r \in 0..MaxRevision, NEW ops \in Plans,
               ExecutePrivileged(sender, r, ops)
        PROVE  commits' \in Seq(CommitEvent)
    <3>1. PlanCommitted(sender, NoSession, ops) \in CommitEvent
      BY DEF PlanCommitted, CommitEvent
    <3>2. commits' = Append(commits, PlanCommitted(sender, NoSession, ops))
      BY <2>3 DEF ExecutePrivileged, Commit
    <3>3. QED
      BY <3>1, <3>2
  <2>4. CASE UNCHANGED schemaVars
    BY <2>4 DEF schemaVars, stateVars
  <2>5. QED
    BY <2>1, <2>2, <2>3, <2>4 DEF SchemaNext
<1>3. QED
  BY <1>1, <1>2, PTL DEF SchemaSpec

(* A commit under another session, or under none, is no commit under s.    *)
LEMMA CommitUnderAnother ==
  ASSUME commits \in Seq(CommitEvent), NEW e \in CommitEvent, NEW s \in Session,
         commits' = Append(commits, e), e.session # s
  PROVE  CommitsUnder(s)' = CommitsUnder(s)
<1>1. /\ DOMAIN commits' = DOMAIN commits \cup {Len(commits) + 1}
      /\ commits'[Len(commits) + 1] = e
      /\ \A i \in DOMAIN commits : commits'[i] = commits[i]
  OBVIOUS
<1>2. QED
  BY <1>1 DEF CommitsUnder

(* The event of executePrivileged names no session.                        *)
LEMMA NoSessionIsNone == ASSUME NEW s \in Session PROVE s # NoSession
<1>1. s \in SessionType
  BY AuthorityAssumption
<1>2. "user" \in DOMAIN s
  BY <1>1 DEF SessionType
<1>3. "user" \notin DOMAIN NoSession
  BY DEF NoSession
<1>4. QED
  BY <1>2, <1>3

(* Whatever has ended a session, revocation, its nonce floor, expiry, or   *)
(* the loss or replacement of its gateway's grant, nothing is committed    *)
(* under it from then on (execute).                                        *)
THEOREM DeadSessions == SchemaSpec => DeadSessionsCommitNothing
<1> DEFINE Dead(s) == \/ Revoked(s)
                      \/ now >= s.expiresAt
                      \/ ~ IsGatewayAuthorized(s.gateway)
                      \/ gateways[s.gateway].epoch # s.gatewayEpoch
<1>1. CommitsTypeOK /\ AuthorityTypeOK /\ [SchemaNext]_schemaVars
        => [\A s \in Session : Dead(s) => CommitsUnder(s)' = CommitsUnder(s)]_schemaVars
  <2> SUFFICES ASSUME commits \in Seq(CommitEvent), AuthorityTypeOK, [SchemaNext]_schemaVars,
                      NEW s \in Session, Dead(s)
               PROVE  CommitsUnder(s)' = CommitsUnder(s)
    BY DEF CommitsTypeOK
  <2>1. CASE commits' = commits
    BY <2>1 DEF CommitsUnder
  <2>2. ASSUME NEW sender \in Account, NEW r \in 0..MaxRevision, NEW ops \in Plans,
               NEW other \in Session, NEW signedBy \in Account,
               Execute(sender, r, ops, other, signedBy)
        PROVE  CommitsUnder(s)' = CommitsUnder(s)
    <3>1. ~ Dead(other)
      <4>1. other \in SessionType
        BY AuthorityAssumption
      <4>2. SessionValid(other, signedBy)
        BY <2>2 DEF Execute
      <4>3. other.expiresAt \in Nat /\ now \in Nat
        BY <4>1 DEF SessionType, AuthorityTypeOK
      <4>4. QED
        BY <4>2, <4>3 DEF SessionValid
    <3>2. other # s
      BY <3>1
    <3>3. /\ PlanCommitted(sender, other, ops) \in CommitEvent
          /\ PlanCommitted(sender, other, ops).session # s
      BY <3>2 DEF PlanCommitted, CommitEvent
    <3>4. commits' = Append(commits, PlanCommitted(sender, other, ops))
      BY <2>2 DEF Execute, Commit
    <3>5. QED
      BY <3>3, <3>4, CommitUnderAnother
  <2>3. ASSUME NEW sender \in Account, NEW r \in 0..MaxRevision, NEW ops \in Plans,
               ExecutePrivileged(sender, r, ops)
        PROVE  CommitsUnder(s)' = CommitsUnder(s)
    <3>1. /\ PlanCommitted(sender, NoSession, ops) \in CommitEvent
          /\ PlanCommitted(sender, NoSession, ops).session # s
      BY NoSessionIsNone DEF PlanCommitted, CommitEvent
    <3>2. commits' = Append(commits, PlanCommitted(sender, NoSession, ops))
      BY <2>3 DEF ExecutePrivileged, Commit
    <3>3. QED
      BY <3>1, <3>2, CommitUnderAnother
  <2>4. QED
    BY <2>1, <2>2, <2>3 DEF SchemaNext, schemaVars, stateVars
<1>2. SchemaSpec => []AuthorityTypeOK
  BY SchemaImplementsAuthority, AuthorityTypeCorrect, PTL
<1>3. QED
  BY <1>1, <1>2, CommitsTyped, PTL DEF SchemaSpec, DeadSessionsCommitNothing
----------------------------------------------------------------------------
(* The catalog.  Revision n is the one commit n led to, and the events of  *)
(* a commit under a session name no catalog operation, because _apply      *)
(* stops at the first one.                                                 *)
Event == [revision: Nat, index: Nat, operation: Operation]

CatalogInv ==
    /\ StoreTypeOK(store)
    /\ log \in Seq(Event)
    /\ commits \in Seq(CommitEvent)
    /\ store.revision = Len(commits)
    /\ OnlyServiceWritesCatalog

(* Where the events of a plan end up when they are added to a log.         *)
Adds(l, ops, n, result) ==
    /\ result \in Seq(Event)
    /\ \A i \in DOMAIN result :
          \/ i \in DOMAIN l /\ result[i] = l[i]
          \/ \E j \in 1..Len(ops) : result[i].revision = n /\ result[i].operation = ops[j]

LEMMA AddedEvents ==
  ASSUME NEW l \in Seq(Event), NEW ops \in Seq(Operation), NEW n \in Nat
  PROVE  Adds(l, ops, n, l \o EventsOf(ops, n))
<1> DEFINE ev == EventsOf(ops, n)
<1>1. /\ Len(ops) \in Nat /\ DOMAIN ops = 1..Len(ops) /\ Len(l) \in Nat
      /\ \A j \in 1..Len(ops) : ops[j] \in Operation /\ j - 1 \in Nat
  OBVIOUS
<1>2. /\ ev = [j \in 1..Len(ops) |-> [revision |-> n, index |-> j - 1, operation |-> ops[j]]]
      /\ ev \in [1..Len(ops) -> Event]
  BY <1>1 DEF EventsOf, Event
<1>3. ev \in Seq(Event) /\ DOMAIN ev = 1..Len(ops)
  <2>1. ev \in Seq(Event)
    BY <1>1, <1>2, SeqDef
  <2>2. DOMAIN ev = 1..Len(ops)
    BY <1>2
  <2>3. QED
    BY <2>1, <2>2
<1>4. \A j \in 1..Len(ops) : ev[j].revision = n /\ ev[j].operation = ops[j]
  BY <1>2
<1> HIDE DEF ev
<1>5. /\ l \o ev \in Seq(Event)
      /\ \A i \in DOMAIN (l \o ev) : \/ i \in DOMAIN l /\ (l \o ev)[i] = l[i]
                                    \/ \E j \in DOMAIN ev : (l \o ev)[i] = ev[j]
  BY <1>3
<1>6. QED
  BY <1>3, <1>4, <1>5 DEF ev, Adds

(* What a plan that commits adds (_apply).                                 *)
LEMMA CommitKeepsCatalogInv ==
  ASSUME CatalogInv, NEW executor \in Account, NEW session \in Session \cup {NoSession},
         NEW r \in 0..MaxRevision, NEW ops \in Plans, NEW privileged \in BOOLEAN,
         Commit(executor, session, r, ops, privileged),
         privileged => session = NoSession
  PROVE  CatalogInv'
<1> DEFINE result == Apply(store, r, ops, privileged)
           e == PlanCommitted(executor, session, ops)
           n == store.revision + 1
<1>0. StoreTypeOK(store) /\ log \in Seq(Event)
  BY DEF CatalogInv
<1>1. OperationsOnly(ops) /\ IsPlan(ops) /\ ops \in Seq(Operation)
  BY SchemaAssumption DEF OperationsOnly, IsPlan
<1>2. /\ result.ok /\ store' = result.store
      /\ log' = log \o EventsOf(ops, result.store.revision)
      /\ commits' = Append(commits, e)
  BY DEF Commit
<1>3. StoreTypeOK(result.store) /\ result.store.revision = n /\ n \in Nat
  <2>1. n \in Nat
    BY <1>0 DEF StoreTypeOK
  <2>2. StoreTypeOK(result.store) /\ result.store.revision = n
    BY <1>0, <1>1, <1>2, ApplyAdvances
  <2>3. QED
    BY <2>1, <2>2
<1>4. \A j \in 1..Len(ops) : ops[j].kind \in CatalogKinds => privileged
  BY <1>1, <1>2, EveryOperationAccepted DEF Accepts
<1>5. e \in CommitEvent /\ e.session = session
  BY DEF PlanCommitted, CommitEvent
<1> HIDE DEF result, e
<1>6. log' = log \o EventsOf(ops, n)
  BY <1>2, <1>3
<1>7. /\ commits' \in Seq(CommitEvent)
      /\ Len(commits') = Len(commits) + 1 /\ Len(commits) \in Nat
      /\ commits'[Len(commits) + 1] = e
      /\ DOMAIN commits = 1..Len(commits) /\ DOMAIN commits' = 1..(Len(commits) + 1)
      /\ \A i \in DOMAIN commits : commits'[i] = commits[i]
  BY <1>2, <1>5 DEF CatalogInv
<1>8. /\ log' \in Seq(Event)
      /\ \A i \in DOMAIN log' :
            \/ i \in DOMAIN log /\ log'[i] = log[i]
            \/ \E j \in 1..Len(ops) : log'[i].revision = n /\ log'[i].operation = ops[j]
  <2> HIDE DEF n
  <2>1. log \in Seq(Event) /\ ops \in Seq(Operation) /\ n \in Nat
    BY <1>0, <1>1, <1>3
  <2>2. Adds(log, ops, n, log \o EventsOf(ops, n))
    BY <2>1, AddedEvents
  <2>3. Adds(log, ops, n, log')
    BY <1>6, <2>2
  <2>4. QED
    BY <2>3 DEF Adds
<1>9. n = Len(commits) + 1 /\ n \in DOMAIN commits' /\ commits'[n].session = session
  BY <1>5, <1>7 DEF CatalogInv
<1>10. ASSUME NEW i \in DOMAIN log', log'[i].operation.kind \in CatalogKinds
       PROVE  /\ log'[i].revision \in DOMAIN commits'
              /\ commits'[log'[i].revision].session = NoSession
  <2>1. CASE i \in DOMAIN log /\ log'[i] = log[i]
    <3>1. log[i].revision \in DOMAIN commits /\ commits[log[i].revision].session = NoSession
      BY <1>10, <2>1 DEF CatalogInv, OnlyServiceWritesCatalog
    <3>2. QED
      BY <1>7, <2>1, <3>1
  <2>2. ASSUME NEW j \in 1..Len(ops), log'[i].revision = n, log'[i].operation = ops[j]
        PROVE  /\ log'[i].revision \in DOMAIN commits'
               /\ commits'[log'[i].revision].session = NoSession
    BY <1>4, <1>9, <1>10, <2>2
  <2>3. QED
    BY <1>8, <2>1, <2>2
<1>11. store'.revision = Len(commits')
  BY <1>2, <1>3, <1>7, <1>9
<1>12. QED
  BY <1>2, <1>3, <1>7, <1>8, <1>10, <1>11 DEF CatalogInv, OnlyServiceWritesCatalog

(* Every catalog entry and every migration mark in the event log is of a   *)
(* commit without a session (execute, executePrivileged, _apply).          *)
THEOREM CatalogIsTheServices == SchemaSpec => []OnlyServiceWritesCatalog
<1>1. SchemaInit => CatalogInv
  BY DEF SchemaInit, CatalogInv, EmptyStore, StoreTypeOK, Mapping, OnlyServiceWritesCatalog
<1>2. CatalogInv /\ [SchemaNext]_schemaVars => CatalogInv'
  <2> SUFFICES ASSUME CatalogInv, [SchemaNext]_schemaVars
               PROVE  CatalogInv'
    OBVIOUS
  <2>1. CASE UNCHANGED stateVars
    BY <2>1 DEF stateVars, CatalogInv, OnlyServiceWritesCatalog, CommitEvent
  <2>2. ASSUME NEW sender \in Account, NEW r \in 0..MaxRevision, NEW ops \in Plans,
               NEW s \in Session, NEW signedBy \in Account, Execute(sender, r, ops, s, signedBy)
        PROVE  CatalogInv'
    BY <2>2, CommitKeepsCatalogInv DEF Execute
  <2>3. ASSUME NEW sender \in Account, NEW r \in 0..MaxRevision, NEW ops \in Plans,
               ExecutePrivileged(sender, r, ops)
        PROVE  CatalogInv'
    BY <2>3, CommitKeepsCatalogInv DEF ExecutePrivileged
  <2>4. QED
    BY <2>1, <2>2, <2>3 DEF SchemaNext, schemaVars
<1>3. CatalogInv => OnlyServiceWritesCatalog
  BY DEF CatalogInv
<1>4. QED
  BY <1>1, <1>2, <1>3, PTL DEF SchemaSpec

HIDE AuthorityAssumption DEF Address, roleVars, gatewayVars, identityVars, revocationVars

----------------------------------------------------------------------------
(* The gateway.                                                            *)
USE GatewayAssumption DEF PUT_CATALOG, DELETE_CATALOG, INSERT_ROW, SET_CELL, DELETE_CELL,
    DELETE_ROW, MARK_MIGRATION

Fields == {"stage", "kind", "endpoint", "actor", "seen", "revision", "reply"}

(* Handlers and receipts are records with their fields, and the mempool is *)
(* a sequence.                                                             *)
Shape ==
    /\ requests = [q \in Request |-> requests[q]]
    /\ \A q \in Request : DOMAIN requests[q] = Fields /\ requests[q].actor \in Actor
    /\ receipts = [q \in Request |-> receipts[q]]
    /\ \A q \in Request : DOMAIN receipts[q] = {"status", "value"}
    /\ \E S : mempool \in Seq(S)

Waiting(q) == requests[q].stage \in {"planned", "sent"}

(* From its snapshot to its receipt a handler that writes holds the lock.  *)
LockIsHeld ==
    \A q \in Request :
        /\ requests[q].stage \in {"holding", "sent"} => writer = q
        /\ requests[q].stage = "planned" /\ NeedsLock(q) => writer = q

(* A request has at most one transaction; as long as it is in the mempool  *)
(* its handler waits for it or has ended without success.                  *)
PoolIsInOrder ==
    /\ \A i \in DOMAIN mempool :
          LET p == mempool[i].request
          IN  /\ p \in Request
              /\ requests[p].stage \in {"sent", "done"}
              /\ requests[p].reply # "ok"
              /\ receipts[p].status = "none"
    /\ \A i, j \in DOMAIN mempool : mempool[i].request = mempool[j].request => i = j
    /\ \A q \in Request :
          /\ requests[q].stage # "done" => requests[q].reply = "none"
          /\ requests[q].stage \notin {"sent", "rereading", "done"} => receipts[q].status = "none"

(* A transaction that was committed for a handler that ended without       *)
(* success, which is so for good.                                          *)
Orphan(p) ==
    receipts[p].status = "committed" /\ requests[p].stage = "done" /\ requests[p].reply # "ok"

PlansAreFresh ==
    \A q \in Request :
        NeedsLock(q) /\ Waiting(q) /\ receipts[q].status = "none"
            => requests[q].revision = store.revision \/ \E p \in Request : Orphan(p)

(* The inductive invariant.  NoSelfConflict speaks of transactions in the  *)
(* mempool too, and one of those may yet revert, so that what it says is   *)
(* not kept by itself; an orphan that was committed stays.                 *)
GatewayInvariant == Shape /\ LockIsHeld /\ PoolIsInOrder /\ PlansAreFresh

LEMMA GatewayInvariantInit == GatewayInit => GatewayInvariant
<1> SUFFICES ASSUME GatewayInit PROVE GatewayInvariant
  OBVIOUS
<1>1. /\ requests = [q \in Request |-> Unused]
      /\ receipts = [q \in Request |-> [status |-> "none", value |-> None]]
      /\ mempool = <<>>
  BY DEF GatewayInit
<1>2. \A q \in Request : DOMAIN requests[q] = Fields /\ requests[q].stage = "unused"
                           /\ requests[q].reply = "none" /\ receipts[q].status = "none"
                           /\ requests[q].actor \in Actor
  BY <1>1 DEF Unused, Fields, Actor
<1>3. mempool \in Seq({}) /\ DOMAIN mempool = {}
  BY <1>1
<1>4. QED
  BY <1>1, <1>2, <1>3
     DEF GatewayInvariant, Shape, LockIsHeld, PoolIsInOrder, PlansAreFresh, Waiting

(* A step of one handler that sends nothing keeps the invariant if it is   *)
(* sensible: it drops its own lock only, plans on the present state, and   *)
(* reports success only of what was mined or never sent.                   *)
LEMMA HandlerStep ==
  ASSUME GatewayInvariant, NEW q \in Request, NEW h, DOMAIN h = Fields, h.actor \in Actor,
         requests' = [requests EXCEPT ![q] = h], Outside,
         requests[q].stage # "done",
         h.stage # "sent",
         h.stage # "done" => h.reply = "none",
         h.stage = "holding" => writer' = q,
         h.stage = "planned" => h.revision = store.revision
                                  /\ (NeedsLock(q)' => writer' = q),
         \A p \in Request \ {q} : writer = p => writer' = p,
         requests[q].stage = "sent" /\ receipts[q].status = "none"
            => h.stage = "done" /\ h.reply # "ok",
         h.stage \notin {"rereading", "done"} => requests[q].stage \notin {"sent", "rereading"}
  PROVE  GatewayInvariant'
<1>1. /\ requests'[q] = h
      /\ \A p \in Request \ {q} : requests'[p] = requests[p]
  BY DEF GatewayInvariant, Shape
<1>2. receipts' = receipts /\ mempool' = mempool /\ store' = store
  BY DEF Outside, schemaVars, stateVars
<1>3. Shape'
  BY <1>1, <1>2 DEF GatewayInvariant, Shape
<1>4. LockIsHeld'
  BY <1>1 DEF GatewayInvariant, LockIsHeld, NeedsLock
<1>5. PoolIsInOrder'
  <2>1. ASSUME NEW i \in DOMAIN mempool
        PROVE  LET p == mempool[i].request
               IN  /\ p \in Request
                   /\ requests'[p].stage \in {"sent", "done"}
                   /\ requests'[p].reply # "ok"
                   /\ receipts[p].status = "none"
    BY <1>1 DEF GatewayInvariant, PoolIsInOrder
  <2>2. ASSUME NEW p \in Request
        PROVE  /\ requests'[p].stage # "done" => requests'[p].reply = "none"
               /\ requests'[p].stage \notin {"sent", "rereading", "done"}
                     => receipts[p].status = "none"
    BY <1>1 DEF GatewayInvariant, PoolIsInOrder
  <2>3. QED
    BY <1>2, <2>1, <2>2 DEF GatewayInvariant, PoolIsInOrder
<1>6. PlansAreFresh'
  <2>1. \A p \in Request : Orphan(p) => Orphan(p)'
    BY <1>1, <1>2 DEF Orphan
  <2>2. QED
    BY <1>1, <1>2, <2>1 DEF GatewayInvariant, PlansAreFresh, Waiting, NeedsLock
<1>7. QED
  BY <1>3, <1>4, <1>5, <1>6 DEF GatewayInvariant

(* A handler that ends, in whatever stage and way, success of what it sent *)
(* and nobody mined excepted.                                              *)
LEMMA EndStep ==
  ASSUME GatewayInvariant, NEW q \in Request, NEW reply, End(q, reply), Outside,
         requests[q].stage # "done",
         requests[q].stage = "sent" /\ receipts[q].status = "none" => reply # "ok"
  PROVE  GatewayInvariant'
<1> DEFINE h == [requests[q] EXCEPT !.stage = "done", !.reply = reply]
<1>1. DOMAIN requests[q] = Fields /\ requests[q].actor \in Actor
  BY DEF GatewayInvariant, Shape
<1>2. DOMAIN h = Fields /\ h.actor \in Actor /\ h.stage = "done" /\ h.reply = reply
  BY <1>1 DEF Fields
<1>3. requests' = [requests EXCEPT ![q] = h]
  BY DEF End, GatewayInvariant, Shape
<1>4. \A p \in Request \ {q} : writer = p => writer' = p
  BY DEF End
<1> HIDE DEF h
<1>5. QED
  BY <1>2, <1>3, <1>4, HandlerStep

(* A handler that goes on, its lock as it was.                             *)
LEMMA AdvanceStep ==
  ASSUME GatewayInvariant, NEW q \in Request, NEW stage, Advance(q, stage), UNCHANGED writer,
         Outside, requests[q].stage # "done", stage \notin {"holding", "planned", "sent", "done"},
         stage # "rereading" => requests[q].stage \notin {"sent", "rereading"},
         requests[q].stage = "sent" => receipts[q].status # "none"
  PROVE  GatewayInvariant'
<1> DEFINE h == [requests[q] EXCEPT !.stage = stage]
<1>1. /\ DOMAIN requests[q] = Fields /\ requests[q].actor \in Actor
      /\ requests[q].reply = "none"
  BY DEF GatewayInvariant, Shape, PoolIsInOrder
<1>2. DOMAIN h = Fields /\ h.actor \in Actor /\ h.stage = stage /\ h.reply = "none"
  BY <1>1 DEF Fields
<1>3. requests' = [requests EXCEPT ![q] = h]
  BY DEF Advance, GatewayInvariant, Shape
<1> HIDE DEF h
<1>4. QED
  BY <1>2, <1>3, HandlerStep

LEMMA FinishStep ==
  ASSUME GatewayInvariant, NEW q \in Request, Finish(q), Outside, requests[q].stage # "done",
         requests[q].stage = "sent" => receipts[q].status # "none"
  PROVE  GatewayInvariant'
  BY EndStep, AdvanceStep DEF Finish

(* A handler with a plan that changes something writes, so that it holds   *)
(* the lock when it sends.                                                 *)
LEMMA SendersHoldTheLock ==
  ASSUME LockIsHeld, NEW q \in Request, requests[q].stage = "planned", PlanOf(q) # <<>>
  PROVE  NeedsLock(q) /\ writer = q
<1>1. requests[q].kind # "read"
  BY DEF PlanOf, PlanFor, Resulting
<1>2. QED
  BY <1>1 DEF LockIsHeld, NeedsLock

LEMMA ArriveStep ==
  ASSUME GatewayInvariant, NEW q \in Request, NEW kind, NEW endpoint,
         NEW actor \in Actor,
         Arrive(q, kind, endpoint, actor)
  PROVE  GatewayInvariant'
<1> DEFINE h == [Unused EXCEPT !.stage = "arrived", !.kind = kind,
                               !.endpoint = endpoint, !.actor = actor]
<1>1. DOMAIN h = Fields /\ h.actor \in Actor /\ h.stage = "arrived" /\ h.reply = "none"
  BY DEF Unused, Fields
<1>2. /\ requests' = [requests EXCEPT ![q] = h] /\ Outside /\ UNCHANGED writer
      /\ requests[q].stage = "unused"
  BY DEF Arrive
<1> HIDE DEF h
<1>3. QED
  BY <1>1, <1>2, HandlerStep

LEMMA LockStep ==
  ASSUME GatewayInvariant, NEW q \in Request, Lock(q)
  PROVE  GatewayInvariant'
<1> DEFINE h == [requests[q] EXCEPT !.stage = "holding"]
<1>1. /\ DOMAIN requests[q] = Fields /\ requests[q].actor \in Actor
      /\ requests[q].reply = "none" /\ requests[q].stage = "authorized"
  BY DEF GatewayInvariant, Shape, PoolIsInOrder, Lock
<1>2. DOMAIN h = Fields /\ h.actor \in Actor /\ h.stage = "holding" /\ h.reply = "none"
  BY <1>1 DEF Fields
<1>3. /\ requests' = [requests EXCEPT ![q] = h] /\ Outside
      /\ writer' = q
      /\ \A p \in Request : writer # p
  BY DEF Lock, Advance, GatewayInvariant, Shape
<1> HIDE DEF h
<1>4. QED
  BY <1>1, <1>2, <1>3, HandlerStep

LEMMA SnapshotStep ==
  ASSUME GatewayInvariant, NEW q \in Request, Snapshot(q)
  PROVE  GatewayInvariant'
<1>1. /\ requests[q].stage \in {"holding", "authorized"} /\ Outside
      /\ NeedsLock(q) => requests[q].stage = "holding"
  BY DEF Snapshot
<1>2. CASE \E reply : End(q, reply)
  BY <1>1, <1>2, EndStep
<1>3. ASSUME NEW n,
             requests' = [requests EXCEPT ![q].stage = "planned", ![q].seen = n,
                                          ![q].revision = store.revision],
             UNCHANGED writer
      PROVE  GatewayInvariant'
  <2> DEFINE h == [requests[q] EXCEPT !.stage = "planned", !.seen = n,
                                      !.revision = store.revision]
  <2>1. /\ DOMAIN requests[q] = Fields /\ requests[q].actor \in Actor
        /\ requests[q].reply = "none"
    BY <1>1 DEF GatewayInvariant, Shape, PoolIsInOrder
  <2>2. /\ DOMAIN h = Fields /\ h.actor \in Actor /\ h.stage = "planned" /\ h.reply = "none"
        /\ h.revision = store.revision
        /\ h.endpoint = requests[q].endpoint /\ h.kind = requests[q].kind
    BY <2>1 DEF Fields
  <2>3. requests' = [requests EXCEPT ![q] = h]
    BY <1>3 DEF GatewayInvariant, Shape
  <2> HIDE DEF h
  <2>4. NeedsLock(q)' => writer' = q
    BY <1>1, <1>3, <2>2, <2>3 DEF GatewayInvariant, Shape, NeedsLock, LockIsHeld
  <2>5. QED
    BY <1>1, <1>3, <2>2, <2>3, <2>4, HandlerStep
<1>4. QED
  BY <1>2, <1>3 DEF Snapshot

LEMMA SendStep ==
  ASSUME GatewayInvariant, NEW q \in Request, Send(q)
  PROVE  GatewayInvariant'
<1> DEFINE tx == TransactionOf(q)
<1>1. /\ requests[q].stage = "planned" /\ PlanOf(q) # <<>>
      /\ UNCHANGED schemaVars /\ receipts' = receipts /\ store' = store
  BY DEF Send, schemaVars, stateVars
<1>2. NeedsLock(q) /\ writer = q
  BY <1>1, SendersHoldTheLock DEF GatewayInvariant
<1>3. CASE End(q, "conflict") /\ UNCHANGED mempool
  BY <1>1, <1>3, EndStep DEF Outside
<1>4. ASSUME mempool' = Append(mempool, tx),
             \/ Advance(q, "sent") /\ UNCHANGED writer
             \/ End(q, "conflict")
      PROVE  GatewayInvariant'
  <2>1. tx.request = q
    BY DEF TransactionOf
  <2> HIDE DEF tx
  <2>2. /\ DOMAIN requests[q] = Fields /\ requests[q].actor \in Actor
        /\ requests[q].reply = "none" /\ receipts[q].status = "none"
    BY <1>1 DEF GatewayInvariant, Shape, PoolIsInOrder
  <2>3. PICK h : /\ requests' = [requests EXCEPT ![q] = h]
                 /\ DOMAIN h = Fields /\ h.actor \in Actor
                 /\ h.endpoint = requests[q].endpoint /\ h.kind = requests[q].kind
                 /\ h.revision = requests[q].revision
                 /\ \/ h.stage = "sent" /\ h.reply = "none" /\ writer' = q
                    \/ h.stage = "done" /\ h.reply = "conflict" /\ writer' = Nobody
    <3>1. CASE Advance(q, "sent") /\ UNCHANGED writer
      <4> WITNESS [requests[q] EXCEPT !.stage = "sent"]
      <4>1. QED
        BY <1>2, <2>2, <3>1 DEF Advance, GatewayInvariant, Shape, Fields
    <3>2. CASE End(q, "conflict")
      <4> WITNESS [requests[q] EXCEPT !.stage = "done", !.reply = "conflict"]
      <4>1. QED
        BY <1>2, <2>2, <3>2 DEF End, GatewayInvariant, Shape, Fields
    <3>3. QED
      BY <1>4, <3>1, <3>2
  <2>4. /\ requests'[q] = h
        /\ \A p \in Request \ {q} : requests'[p] = requests[p]
    BY <2>3 DEF GatewayInvariant, Shape
  <2>5. PICK S : mempool \in Seq(S)
    BY DEF GatewayInvariant, Shape
  <2>6. mempool' \in Seq(S \cup {tx})
    <3>1. mempool \in Seq(S \cup {tx})
      BY <2>5
    <3>2. QED
      BY <1>4, <3>1
  <2>7. /\ DOMAIN mempool' = DOMAIN mempool \cup {Len(mempool) + 1}
        /\ Len(mempool) + 1 \notin DOMAIN mempool
        /\ mempool'[Len(mempool) + 1] = tx
        /\ \A i \in DOMAIN mempool : mempool'[i] = mempool[i]
    BY <1>4, <2>5
  <2>8. Shape'
    BY <1>1, <2>3, <2>4, <2>6 DEF GatewayInvariant, Shape
  <2>9. LockIsHeld'
    BY <1>2, <2>3, <2>4 DEF GatewayInvariant, LockIsHeld, NeedsLock
  <2>10. PoolIsInOrder'
    <3>1. \A i \in DOMAIN mempool : mempool[i].request \in Request \ {q}
      BY <1>1 DEF GatewayInvariant, PoolIsInOrder
    <3>2. ASSUME NEW i \in DOMAIN mempool'
          PROVE  LET p == mempool'[i].request
                 IN  /\ p \in Request
                     /\ requests'[p].stage \in {"sent", "done"}
                     /\ requests'[p].reply # "ok"
                     /\ receipts'[p].status = "none"
      <4>1. CASE i \in DOMAIN mempool
        BY <1>1, <2>3, <2>4, <2>7, <3>1, <4>1 DEF GatewayInvariant, PoolIsInOrder
      <4>2. CASE i = Len(mempool) + 1
        BY <1>1, <2>1, <2>2, <2>3, <2>4, <2>7, <4>2
      <4>3. QED
        BY <2>7, <4>1, <4>2
    <3>3. ASSUME NEW i \in DOMAIN mempool', NEW j \in DOMAIN mempool',
                 mempool'[i].request = mempool'[j].request
          PROVE  i = j
      BY <2>1, <2>7, <3>1, <3>3 DEF GatewayInvariant, PoolIsInOrder
    <3>4. ASSUME NEW p \in Request
          PROVE  /\ requests'[p].stage # "done" => requests'[p].reply = "none"
                 /\ requests'[p].stage \notin {"sent", "rereading", "done"}
                       => receipts'[p].status = "none"
      BY <1>1, <2>2, <2>3, <2>4 DEF GatewayInvariant, PoolIsInOrder
    <3>5. QED
      BY <3>2, <3>3, <3>4 DEF PoolIsInOrder
  <2>11. PlansAreFresh'
    <3>1. \A p \in Request : Orphan(p) => Orphan(p)'
      BY <1>1, <2>3, <2>4 DEF Orphan
    <3>2. QED
      BY <1>1, <2>3, <2>4, <3>1 DEF GatewayInvariant, PlansAreFresh, Waiting, NeedsLock
  <2>12. QED
    BY <2>8, <2>9, <2>10, <2>11 DEF GatewayInvariant
<1>5. QED
  BY <1>3, <1>4 DEF Send

(* Mining a transaction changes the state under a handler that waits only  *)
(* if it is not the handler's own: then the holder of the lock did not     *)
(* send it, and whoever sent it is gone.                                   *)
LEMMA MineStep ==
  ASSUME GatewayInvariant, Mine
  PROVE  GatewayInvariant'
<1>1. /\ mempool # <<>> /\ mempool' = Tail(mempool)
      /\ requests' = requests /\ writer' = writer
  BY DEF Mine, gatewayProcessVars
<1>2. PICK S : mempool \in Seq(S)
  BY DEF GatewayInvariant, Shape
<1>3. /\ 1 \in DOMAIN mempool /\ mempool[1] = Head(mempool)
      /\ mempool' \in Seq(S)
      /\ \A i \in DOMAIN mempool' : i + 1 \in DOMAIN mempool /\ i + 1 # 1 /\ i \in Nat
                                     /\ mempool'[i] = mempool[i + 1]
  BY <1>1, <1>2
<1>4. PICK r \in Request : r = Head(mempool).request
  BY <1>3 DEF GatewayInvariant, PoolIsInOrder
<1>5. /\ requests[r].stage \in {"sent", "done"}
      /\ requests[r].reply # "ok" /\ receipts[r].status = "none"
  BY <1>3, <1>4 DEF GatewayInvariant, PoolIsInOrder
<1>6. /\ receipts' = [p \in Request |-> receipts'[p]]
      /\ \A p \in Request : DOMAIN receipts'[p] = {"status", "value"}
      /\ \A p \in Request \ {r} : receipts'[p] = receipts[p]
      /\ \/ receipts'[r].status = "committed"
         \/ receipts'[r].status = "reverted" /\ store' = store
  BY <1>4, <1>5 DEF Mine, GatewayInvariant, Shape, schemaVars, stateVars
<1>7. Shape'
  BY <1>1, <1>3, <1>6 DEF GatewayInvariant, Shape
<1>8. LockIsHeld'
  BY <1>1 DEF GatewayInvariant, LockIsHeld, NeedsLock
<1>9. PoolIsInOrder'
  <2>1. \A i \in DOMAIN mempool' : mempool'[i].request \in Request \ {r}
    BY <1>3, <1>4 DEF GatewayInvariant, PoolIsInOrder
  <2>2. ASSUME NEW i \in DOMAIN mempool'
        PROVE  LET p == mempool'[i].request
               IN  /\ p \in Request
                   /\ requests'[p].stage \in {"sent", "done"}
                   /\ requests'[p].reply # "ok"
                   /\ receipts'[p].status = "none"
    BY <1>1, <1>3, <1>6, <2>1 DEF GatewayInvariant, PoolIsInOrder
  <2>3. ASSUME NEW i \in DOMAIN mempool', NEW j \in DOMAIN mempool',
               mempool'[i].request = mempool'[j].request
        PROVE  i = j
    <3>1. i + 1 = j + 1
      BY <1>3, <2>3 DEF GatewayInvariant, PoolIsInOrder
    <3>2. QED
      BY <1>3, <3>1
  <2>4. ASSUME NEW p \in Request
        PROVE  /\ requests'[p].stage # "done" => requests'[p].reply = "none"
               /\ requests'[p].stage \notin {"sent", "rereading", "done"}
                     => receipts'[p].status = "none"
    BY <1>1, <1>5, <1>6 DEF GatewayInvariant, PoolIsInOrder
  <2>5. QED
    BY <2>2, <2>3, <2>4 DEF PoolIsInOrder
<1>10. PlansAreFresh'
  <2>1. \A p \in Request : Orphan(p) => Orphan(p)'
    BY <1>1, <1>5, <1>6 DEF Orphan
  <2>2. CASE store' = store
    BY <1>1, <1>5, <1>6, <2>1, <2>2 DEF GatewayInvariant, PlansAreFresh, Waiting, NeedsLock
  <2>3. CASE receipts'[r].status = "committed"
    <3>1. CASE requests[r].stage = "done"
      <4>1. Orphan(r)'
        BY <1>1, <1>5, <2>3, <3>1 DEF Orphan
      <4>2. QED
        BY <1>5, <4>1 DEF PlansAreFresh
    <3>2. CASE requests[r].stage = "sent"
      <4>1. ASSUME NEW p \in Request, NeedsLock(p), Waiting(p) PROVE p = r
        BY <1>5, <3>2, <4>1 DEF GatewayInvariant, LockIsHeld, Waiting
      <4>2. \A p \in Request : NeedsLock(p)' /\ Waiting(p)' => receipts'[p].status # "none"
        BY <1>1, <2>3, <4>1 DEF NeedsLock, Waiting
      <4>3. QED
        BY <4>2 DEF PlansAreFresh
    <3>3. QED
      BY <1>5, <3>1, <3>2
  <2>4. QED
    BY <1>6, <2>2, <2>3
<1>11. QED
  BY <1>7, <1>8, <1>9, <1>10 DEF GatewayInvariant

LEMMA CrashStep ==
  ASSUME GatewayInvariant, Crash
  PROVE  GatewayInvariant'
<1>1. mempool' = mempool /\ receipts' = receipts /\ store' = store
  BY DEF Crash, Outside, schemaVars, stateVars
<1>2. requests' = [q \in Request |-> requests'[q]]
  BY DEF Crash
<1>3. ASSUME NEW q \in Request
      PROVE  /\ DOMAIN requests'[q] = Fields
             /\ requests'[q].stage \notin Pending
             /\ requests'[q].actor \in Actor
             /\ \/ /\ requests'[q].stage = requests[q].stage
                   /\ requests'[q].reply = requests[q].reply
                \/ requests'[q].stage = "done" /\ requests'[q].reply = "lost"
             /\ requests[q].stage = "done" => requests'[q] = requests[q]
  <2>1. DOMAIN requests[q] = Fields /\ requests[q].actor \in Actor
    BY DEF GatewayInvariant, Shape
  <2>2. CASE requests[q].stage \in Pending
    <3>1. requests'[q] = [requests[q] EXCEPT !.stage = "done", !.reply = "lost"]
      BY <2>2 DEF Crash
    <3>2. QED
      BY <2>1, <2>2, <3>1 DEF Fields, Pending
  <2>3. CASE requests[q].stage \notin Pending
    <3>1. requests'[q] = requests[q]
      BY <2>3 DEF Crash
    <3>2. QED
      BY <2>1, <2>3, <3>1
  <2>4. QED
    BY <2>2, <2>3
<1>4. Shape'
  BY <1>1, <1>2, <1>3 DEF GatewayInvariant, Shape
<1>5. LockIsHeld'
  BY <1>3 DEF LockIsHeld, Pending
<1>6. PoolIsInOrder'
  BY <1>1, <1>3 DEF GatewayInvariant, PoolIsInOrder
<1>7. PlansAreFresh'
  BY <1>3 DEF PlansAreFresh, Waiting, Pending
<1>8. QED
  BY <1>4, <1>5, <1>6, <1>7 DEF GatewayInvariant

LEMMA GatewayInvariantStep ==
  GatewayInvariant /\ [GatewayNext]_systemVars => GatewayInvariant'
<1> SUFFICES ASSUME GatewayInvariant, [GatewayNext]_systemVars
             PROVE  GatewayInvariant'
  OBVIOUS
<1>1. CASE UNCHANGED <<store, requests, writer, mempool, receipts>>
  BY <1>1 DEF GatewayInvariant, Shape, LockIsHeld, PoolIsInOrder, PlansAreFresh, Waiting,
              NeedsLock, Orphan
<1>2. ASSUME NEW q \in Request, Handle(q) PROVE GatewayInvariant'
  <2>1. CASE Authenticate(q)
    <3>1. requests[q].stage = "arrived" /\ Outside
      BY <2>1 DEF Authenticate
    <3>2. \/ Advance(q, "authorized") /\ UNCHANGED writer
          \/ Advance(q, "granted") /\ UNCHANGED writer
          \/ End(q, "unauthorized")
      <4>1. requests[q].actor.mode \in {"anonymous", "session", "secret"}
        BY DEF GatewayInvariant, Shape, Actor, Anonymous, Secret, User
      <4>2. QED
        BY <2>1, <4>1 DEF Authenticate
    <3>3. QED
      BY <3>1, <3>2, AdvanceStep, EndStep
  <2>2. CASE ConfirmGrant(q)
    BY <2>2, AdvanceStep, EndStep DEF ConfirmGrant
  <2>3. CASE Lock(q)
    BY <2>3, LockStep
  <2>4. CASE Snapshot(q)
    BY <2>4, SnapshotStep
  <2>5. CASE AnswerUnchanged(q)
    BY <2>5, FinishStep DEF AnswerUnchanged
  <2>6. CASE Send(q)
    BY <2>6, SendStep
  <2>7. CASE GetReceipt(q)
    BY <2>7, FinishStep, EndStep DEF GetReceipt
  <2>8. CASE Reread(q)
    BY <2>8, EndStep DEF Reread
  <2>9. QED
    BY <1>2, <2>1, <2>2, <2>3, <2>4, <2>5, <2>6, <2>7, <2>8 DEF Handle
<1>3. ASSUME NEW q \in Request, CallFails(q) PROVE GatewayInvariant'
  <2>1. requests[q].stage # "done" /\ Outside /\ \E reply : End(q, reply) /\ reply # "ok"
    BY <1>3 DEF CallFails, Pending
  <2>2. QED
    BY <2>1, EndStep
<1>4. ASSUME NEW q \in Request, Disconnect(q) PROVE GatewayInvariant'
  BY <1>4, EndStep DEF Disconnect, Pending
<1>5. QED
  BY <1>1, <1>2, <1>3, <1>4, ArriveStep, MineStep, CrashStep
     DEF GatewayNext, systemVars, schemaVars, stateVars, gatewayProcessVars

----------------------------------------------------------------------------
(* As long as no handler has walked away from a transaction it sent, the   *)
(* plan of a handler that waits for its transaction is that of the state   *)
(* it will be run on, for any number of requests (App.writer, Chain::      *)
(* commit, and every return and error path of the handlers of main.rs).    *)
THEOREM LockPreventsConflicts == GatewaySpec => []NoSelfConflict
<1>1. GatewayInvariant => NoSelfConflict
  <2>1. \A p \in Request : Orphan(p) => Abandoned(p)
    BY DEF Orphan, Abandoned
  <2>2. QED
    BY <2>1 DEF GatewayInvariant, PlansAreFresh, NoSelfConflict, Waiting
<1>2. QED
  BY GatewayInvariantInit, GatewayInvariantStep, <1>1, PTL DEF GatewaySpec

----------------------------------------------------------------------------
(* The counter in the canonical state.  The row's key is one of Row, and   *)
(* if the row exists, its cell holds a positive number.                    *)
LEMMA TheKeys == TheRow \in Row /\ TheColumn \in Column /\ TheRow = <<TheRow[1], TheRow[2]>>
<1>1. PICK t \in Table, r \in RowId : TRUE
  OBVIOUS
<1>2. <<t, r>> \in Row
  BY DEF Row
<1>3. TheRow \in Row
  BY <1>2 DEF TheRow
<1>4. TheRow = <<TheRow[1], TheRow[2]>>
  BY <1>3 DEF Row
<1>5. TheColumn \in Column
  BY DEF TheColumn
<1>6. QED
  BY <1>3, <1>4, <1>5

CounterKey(st) == CellKeyOf(st, TheRow, TheColumn)

CounterStore(st) ==
    /\ Shaped(st)
    /\ st.revision \in Nat
    /\ st.version \in [Row -> Nat]
    /\ st.generation \in [Row -> Nat]
    /\ TheRow \in st.rows
          => CounterKey(st) \in DOMAIN st.cells /\ st.cells[CounterKey(st)] \in Nat \ {0}

LEMMA CounterIs ==
  ASSUME NEW st, CounterStore(st)
  PROVE  /\ CounterOf(st) = IF TheRow \in st.rows THEN st.cells[CounterKey(st)] ELSE 0
         /\ CounterOf(st) \in Nat
         /\ CounterOf(st) = 0 <=> TheRow \notin st.rows
<1>1. CASE TheRow \in st.rows
  <2>1. TheColumn \in {c \in Column : TheRow \in st.rows
                                        /\ CellKeyOf(st, TheRow, c) \in DOMAIN st.cells}
    BY <1>1, TheKeys DEF CounterStore, CounterKey
  <2>2. CellsOf(st, TheRow)[TheColumn] = st.cells[CounterKey(st)]
    BY <2>1 DEF CellsOf, CounterKey
  <2>3. QED
    BY <1>1, <2>2 DEF CounterOf, CounterStore
<1>2. CASE TheRow \notin st.rows
  BY <1>2 DEF CounterOf
<1>3. QED
  BY <1>1, <1>2

Insertion ==
    [kind |-> INSERT_ROW, table |-> TheRow[1], row |-> TheRow[2], column |-> ZeroKey,
     data |-> EmptyData]
Setting(v) ==
    [kind |-> SET_CELL, table |-> TheRow[1], row |-> TheRow[2], column |-> TheColumn, data |-> v]

(* Inserting the row leaves a store with the row, and no other counter.    *)
LEMMA InsertionInserts ==
  ASSUME NEW st, CounterStore(st), NEW n \in Nat
  PROVE  LET res == ApplyOperation(st, Insertion, n)
         IN  /\ Shaped(res) /\ res.revision = st.revision
             /\ res.version \in [Row -> Nat] /\ res.generation \in [Row -> Nat]
             /\ TheRow \in res.rows
<1> DEFINE base == ApplyRowOperation(st, Insertion)
           res == ApplyOperation(st, Insertion, n)
           G == [st.generation EXCEPT ![TheRow] = @ + 1]
           V == [st.version EXCEPT ![TheRow] = n]
<1>1. RowOf(Insertion) = TheRow /\ Insertion.kind = INSERT_ROW
  BY TheKeys DEF RowOf, Insertion
<1>2. base = [st EXCEPT !.rows = st.rows \cup {TheRow}, !.generation[TheRow] = @ + 1]
  BY <1>1 DEF ApplyRowOperation, InsertRow
<1>3. base = [revision |-> st.revision, catalog |-> st.catalog, migrations |-> st.migrations,
              rows |-> st.rows \cup {TheRow}, version |-> st.version,
              generation |-> G, cells |-> st.cells]
  BY <1>2, TheKeys, Incarnate, Zenon DEF CounterStore
<1>4. Shaped(base) /\ base.version = st.version
  BY <1>3 DEF Shaped
<1>5. res = [base EXCEPT !.version[TheRow] = n]
  BY <1>1 DEF ApplyOperation
<1> HIDE DEF base
<1>6. res = [revision |-> base.revision, catalog |-> base.catalog,
             migrations |-> base.migrations, rows |-> base.rows,
             version |-> [base.version EXCEPT ![TheRow] = n],
             generation |-> base.generation, cells |-> base.cells]
  BY <1>4, <1>5, TheKeys, Stamp DEF CounterStore
<1>7. G \in [Row -> Nat] /\ V \in [Row -> Nat]
  BY TheKeys DEF CounterStore
<1> HIDE DEF res, G, V
<1>8. QED
  BY <1>3, <1>4, <1>6, <1>7 DEF V, Shaped, res

Ready(st) ==
    /\ Shaped(st) /\ st.revision \in Nat
    /\ st.version \in [Row -> Nat] /\ st.generation \in [Row -> Nat]
    /\ TheRow \in st.rows

LEMMA SettingSets ==
  ASSUME NEW st, Ready(st), NEW n \in Nat, NEW v \in Nat \ {0}
  PROVE  /\ CounterStore(ApplyOperation(st, Setting(v), n))
         /\ CounterOf(ApplyOperation(st, Setting(v), n)) = v
         /\ ApplyOperation(st, Setting(v), n).revision = st.revision
<1> DEFINE base == ApplyRowOperation(st, Setting(v))
           res == ApplyOperation(st, Setting(v), n)
           C == Put(st.cells, CounterKey(st), v)
           V == [st.version EXCEPT ![TheRow] = n]
<1>1. /\ RowOf(Setting(v)) = TheRow /\ Setting(v).kind = SET_CELL
      /\ Setting(v).column = TheColumn /\ Setting(v).data = v
  BY TheKeys DEF RowOf, Setting
<1>2. base = [st EXCEPT !.cells = C]
  BY <1>1 DEF ApplyRowOperation, CounterKey
<1> HIDE DEF C
<1>3. base = [revision |-> st.revision, catalog |-> st.catalog, migrations |-> st.migrations,
              rows |-> st.rows, version |-> st.version,
              generation |-> st.generation, cells |-> C]
  BY <1>2 DEF Ready, Shaped
<1>4. Shaped(base) /\ base.version = st.version
  BY <1>3 DEF Shaped
<1>5. res = [base EXCEPT !.version[TheRow] = n]
  BY <1>1 DEF ApplyOperation
<1> HIDE DEF base
<1>6. res = [revision |-> base.revision, catalog |-> base.catalog,
             migrations |-> base.migrations, rows |-> base.rows,
             version |-> [base.version EXCEPT ![TheRow] = n],
             generation |-> base.generation, cells |-> base.cells]
  BY <1>4, <1>5, TheKeys, Stamp DEF Ready
<1>7. V \in [Row -> Nat]
  BY TheKeys DEF Ready
<1> HIDE DEF res, V
<1>8. /\ Shaped(res) /\ res.revision = st.revision /\ res.version = V
      /\ res.generation = st.generation /\ res.rows = st.rows /\ res.cells = C
  BY <1>3, <1>4, <1>6 DEF V, Shaped
<1>9. CounterKey(res) = CounterKey(st)
  BY <1>8 DEF CounterKey, CellKeyOf
<1>10. CounterKey(st) \in DOMAIN C /\ C[CounterKey(st)] = v
  BY DEF C, Put
<1>11. CounterStore(res) /\ TheRow \in res.rows /\ res.cells[CounterKey(res)] = v
  BY <1>7, <1>8, <1>9, <1>10 DEF CounterStore, Ready
<1>12. CounterOf(res) = v
  BY <1>11, CounterIs
<1>13. QED
  BY <1>8, <1>11, <1>12 DEF res

(* The revision is not part of the counter.                                *)
LEMMA AdvancedCounter ==
  ASSUME NEW st, CounterStore(st)
  PROVE  /\ CounterStore(Advanced(st)) /\ CounterOf(Advanced(st)) = CounterOf(st)
         /\ Advanced(st).revision = st.revision + 1
<1> DEFINE res == Advanced(st)
<1>1. /\ Shaped(res) /\ res.revision = st.revision + 1 /\ res.version = st.version
      /\ res.generation = st.generation /\ res.rows = st.rows /\ res.cells = st.cells
  BY DEF Advanced, CounterStore, Shaped
<1> HIDE DEF res
<1>2. CounterKey(res) = CounterKey(st)
  BY <1>1 DEF CounterKey, CellKeyOf
<1>3. CounterStore(res)
  BY <1>1, <1>2 DEF CounterStore
<1>4. CounterOf(res) = CounterOf(st)
  BY <1>1, <1>2, <1>3, CounterIs
<1>5. QED
  BY <1>1, <1>3, <1>4 DEF res

LEMMA ShortSequences ==
  ASSUME NEW a, NEW b
  PROVE  /\ Append(<<a>>, b) = <<a, b>> /\ Append(<<>>, b) = <<b>>
         /\ <<a, b>> \in Seq({a, b}) /\ <<b>> \in Seq({b})
<1>1. <<a>> \in Seq({a}) /\ Len(<<a>>) = 1
  OBVIOUS
<1>2. Append(<<a>>, b) = <<a, b>>
  <2> DEFINE s == Append(<<a>>, b)
             t == <<a, b>>
  <2>1. s \in Seq({a, b}) /\ Len(s) = 2 /\ s[1] = a /\ s[2] = b
    OBVIOUS
  <2>2. t \in Seq({a, b}) /\ Len(t) = 2 /\ t[1] = a /\ t[2] = b
    OBVIOUS
  <2> HIDE DEF s, t
  <2>3. s = [i \in 1..2 |-> s[i]] /\ t = [i \in 1..2 |-> t[i]]
    BY <2>1, <2>2
  <2>4. \A i \in 1..2 : s[i] = t[i]
    BY <2>1, <2>2
  <2>5. s = t
    BY <2>3, <2>4
  <2>6. QED
    BY <2>5 DEF s, t
<1>3. Append(<<>>, b) = <<b>>
  OBVIOUS
<1>4. <<a, b>> \in Seq({a, b}) /\ <<b>> \in Seq({b})
  OBVIOUS
<1>5. QED
  BY <1>2, <1>3, <1>4

(* The plan for a counter, and what it makes of one.                       *)
LEMMA PlanForIs ==
  ASSUME NEW kind \in {"read", "ensure", "increment"}, NEW n \in Nat
  PROVE  /\ Resulting(kind, n) \in Nat
         /\ PlanFor(kind, n) = <<>> <=> Resulting(kind, n) = n
         /\ Resulting(kind, n) # n =>
               /\ Resulting(kind, n) # 0
               /\ PlanFor(kind, n) = IF n = 0 THEN <<Insertion, Setting(Resulting(kind, n))>>
                                     ELSE <<Setting(Resulting(kind, n))>>
<1>1. Resulting(kind, n) \in Nat /\ (Resulting(kind, n) # n => Resulting(kind, n) # 0)
  BY DEF Resulting
<1>2. PlanFor(kind, n) = IF Resulting(kind, n) = n THEN <<>>
                         ELSE IF n = 0 THEN <<Insertion, Setting(Resulting(kind, n))>>
                         ELSE <<Setting(Resulting(kind, n))>>
  BY ShortSequences DEF PlanFor, Insertion, Setting
<1>3. QED
  BY <1>1, <1>2

LEMMA PlanForIsPlan ==
  ASSUME NEW kind \in {"read", "ensure", "increment"}, NEW n \in Nat
  PROVE  IsPlan(PlanFor(kind, n))
<1> DEFINE v == Resulting(kind, n)
           ops == PlanFor(kind, n)
<1>1. ops = <<>> \/ ops = <<Insertion, Setting(v)>> \/ ops = <<Setting(v)>>
  BY PlanForIs
<1> HIDE DEF v, ops
<1>2. ops = <<>> => IsPlan(ops)
  <2>1. <<>> \in Seq({})
    OBVIOUS
  <2>2. QED
    BY <2>1 DEF IsPlan
<1>3. ops # <<>> => IsPlan(ops)
  <2>1. \/ ops = <<>>
        \/ ops \in Seq({Insertion, Setting(v)})
        \/ ops \in Seq({Setting(v)})
    BY <1>1, ShortSequences
  <2>2. QED
    BY <2>1 DEF IsPlan
<1>4. QED
  BY <1>2, <1>3 DEF ops

LEMMA PlanApplies ==
  ASSUME NEW st, CounterStore(st), NEW kind \in {"read", "ensure", "increment"},
         NEW p, NEW expected,
         PlanFor(kind, CounterOf(st)) # <<>>,
         Apply(st, expected, PlanFor(kind, CounterOf(st)), p).ok
  PROVE  LET res == Apply(st, expected, PlanFor(kind, CounterOf(st)), p).store
         IN  /\ CounterStore(res)
             /\ CounterOf(res) = Resulting(kind, CounterOf(st))
             /\ res.revision = st.revision + 1
<1> DEFINE n == CounterOf(st)
           v == Resulting(kind, n)
           ops == PlanFor(kind, n)
           out(i) == Outcome(st, ops, p, i)
           m == st.revision + 1
<1>1. n \in Nat /\ (n = 0 <=> TheRow \notin st.rows) /\ m \in Nat
  BY CounterIs DEF CounterStore
<1>2. v \in Nat \ {0} /\ ops = IF n = 0 THEN <<Insertion, Setting(v)>> ELSE <<Setting(v)>>
  BY <1>1, PlanForIs DEF n
<1>3. IsPlan(ops)
  BY <1>1, PlanForIsPlan
<1> HIDE DEF v, ops
<1>4. PlanAdmitted(st, expected, ops)
  <2>1. SUFFICES ASSUME ~ PlanAdmitted(st, expected, ops) PROVE FALSE
    OBVIOUS
  <2>2. Apply(st, expected, ops, p) = Failure(st)
    BY <1>3, <2>1, ApplyIsOutcome
  <2>3. QED
    BY <2>2, SuccessFields DEF ops, n
<1>5. \A i \in 1..Len(ops) : Accepts(out(i - 1).store, ops[i], p)
  BY <1>3, EveryOperationAccepted DEF ops, n
<1>6. \A i \in 1..Len(ops) : out(i) = Step(st, p, out(i - 1), ops[i])
  BY <1>3, OutcomeGoesOn
<1>7. out(0) = Success(st)
  BY <1>3, OutcomeStarts
<1>8. PICK t : Ready(t) /\ t.revision = st.revision
                /\ out(Len(ops)) = Success(ApplyOperation(t, Setting(v), m))
  <2>1. CASE n = 0
    <3> DEFINE t == ApplyOperation(st, Insertion, m)
    <3>1. Len(ops) = 2 /\ ops[1] = Insertion /\ ops[2] = Setting(v)
      BY <1>2, <2>1
    <3>2. /\ Accepts(out(0).store, Insertion, p)
          /\ Accepts(out(1).store, Setting(v), p)
          /\ out(1) = Step(st, p, out(0), Insertion)
          /\ out(2) = Step(st, p, out(1), Setting(v))
      <4>1. 1 \in 1..Len(ops) /\ 2 \in 1..Len(ops) /\ 1 - 1 = 0 /\ 2 - 1 = 1
        BY <3>1
      <4> HIDE DEF out
      <4>2. QED
        BY <1>5, <1>6, <3>1, <4>1
    <3>3. out(0).store = st
      BY <1>7, SuccessFields
    <3> HIDE DEF out
    <3>4. out(1) = Success(t)
      BY <1>7, <3>2, <3>3, StepCarriesOn
    <3>5. out(1).store = t
      BY <3>4, SuccessFields
    <3>6. out(2) = Success(ApplyOperation(t, Setting(v), m))
      BY <3>2, <3>4, <3>5, StepCarriesOn
    <3>7. Ready(t) /\ t.revision = st.revision
      BY <1>1, InsertionInserts DEF Ready, CounterStore
    <3> HIDE DEF t
    <3>8. QED
      BY <3>1, <3>6, <3>7
  <2>2. CASE n # 0
    <3>1. Len(ops) = 1 /\ ops[1] = Setting(v)
      BY <1>2, <2>2
    <3>2. /\ Accepts(out(0).store, Setting(v), p)
          /\ out(1) = Step(st, p, out(0), Setting(v))
      <4>1. 1 \in 1..Len(ops) /\ 1 - 1 = 0
        BY <3>1
      <4> HIDE DEF out
      <4>2. QED
        BY <1>5, <1>6, <3>1, <4>1
    <3>3. out(0).store = st
      BY <1>7, SuccessFields
    <3> HIDE DEF out
    <3>4. out(1) = Success(ApplyOperation(st, Setting(v), m))
      BY <1>7, <3>2, <3>3, StepCarriesOn
    <3>5. Ready(st)
      BY <1>1, <2>2 DEF Ready, CounterStore
    <3>6. QED
      BY <3>1, <3>4, <3>5
  <2>3. QED
    BY <2>1, <2>2
<1> DEFINE s == ApplyOperation(t, Setting(v), m)
<1>9. CounterStore(s) /\ CounterOf(s) = v /\ s.revision = st.revision
  BY <1>1, <1>2, <1>8, SettingSets
<1>10. Outcome(st, ops, p, Len(ops)) = Success(s)
  BY <1>8
<1> HIDE DEF s
<1>11. Apply(st, expected, ops, p) = Success(Advanced(s))
  BY <1>3, <1>4, <1>10, ApplySucceeds
<1>12. Apply(st, expected, ops, p).store = Advanced(s)
  BY <1>11, SuccessFields
<1>13. CounterStore(Advanced(s)) /\ CounterOf(Advanced(s)) = v
       /\ Advanced(s).revision = st.revision + 1
  BY <1>9, AdvancedCounter
<1>14. QED
  BY <1>12, <1>13 DEF ops, v, n

----------------------------------------------------------------------------
(* The calls of Service.  A call is what its four fields are.              *)
Calls == [q \in Request |-> CallOf(q)]
Served == [Promise!ServiceNext \/ Promise!RefuseAll]_<<CounterOf(store), Calls>>

Entry(kind, effect, reply, value) ==
    [kind |-> kind, effect |-> effect, reply |-> reply, value |-> value]

EffectOf(q) ==
    IF receipts[q].status = "committed" THEN receipts[q].value
    ELSE IF requests[q].seen # None /\ PlanOf(q) = <<>> THEN requests[q].seen ELSE None
ReplyOf(q) == IF requests[q].reply \in {"none", "ok"} THEN requests[q].reply ELSE "refused"
ValueOf(q) ==
    IF requests[q].reply = "ok" THEN Resulting(requests[q].kind, requests[q].seen) ELSE None

LEMMA CallIs ==
  ASSUME NEW q
  PROVE  CallOf(q) = Entry(requests[q].kind, EffectOf(q), ReplyOf(q), ValueOf(q))
BY DEF CallOf, Entry, EffectOf, ReplyOf, ValueOf

LEMMA EntryFields ==
  ASSUME NEW k, NEW e, NEW r, NEW v
  PROVE  /\ Entry(k, e, r, v).kind = k /\ Entry(k, e, r, v).effect = e
         /\ Entry(k, e, r, v).reply = r /\ Entry(k, e, r, v).value = v
BY DEF Entry

WithKind(c, x) == [c EXCEPT !.kind = x]
WithEffect(c, x) == [c EXCEPT !.effect = x]
WithReply(c, x) == [c EXCEPT !.reply = x]
WithAnswer(c, x) == [c EXCEPT !.reply = "ok", !.value = x]

LEMMA EntryChanges ==
  ASSUME NEW k, NEW e, NEW r, NEW v, NEW x
  PROVE  /\ WithKind(Entry(k, e, r, v), x) = Entry(x, e, r, v)
         /\ WithEffect(Entry(k, e, r, v), x) = Entry(k, x, r, v)
         /\ WithReply(Entry(k, e, r, v), x) = Entry(k, e, x, v)
         /\ WithAnswer(Entry(k, e, r, v), x) = Entry(k, e, "ok", x)
<1>1. WithKind(Entry(k, e, r, v), x) = Entry(x, e, r, v)
  BY DEF Entry, WithKind
<1>2. WithEffect(Entry(k, e, r, v), x) = Entry(k, x, r, v)
  BY DEF Entry, WithEffect
<1>3. WithReply(Entry(k, e, r, v), x) = Entry(k, e, x, v)
  BY DEF Entry, WithReply
<1>4. WithAnswer(Entry(k, e, r, v), x) = Entry(k, e, "ok", x)
  <2>1. [Entry(k, e, "ok", v) EXCEPT !.value = x] = Entry(k, e, "ok", x)
    BY DEF Entry
  <2>2. WithAnswer(Entry(k, e, r, v), x) = [WithReply(Entry(k, e, r, v), "ok") EXCEPT !.value = x]
    BY DEF WithAnswer, WithReply, Entry
  <2>3. WithReply(Entry(k, e, r, v), "ok") = Entry(k, e, "ok", v)
    BY DEF Entry, WithReply
  <2>4. QED
    BY <2>1, <2>2, <2>3
<1>5. QED
  BY <1>1, <1>2, <1>3, <1>4

Others(q) == \A p \in Request \ {q} : CallOf(p)' = CallOf(p)
Becomes(q, k, e, r, v) == CallOf(q)' = Entry(k, e, r, v)

LEMMA OneCallChanges ==
  ASSUME NEW q \in Request, Others(q)
  PROVE  Calls' = [Calls EXCEPT ![q] = CallOf(q)']
BY DEF Calls, Others

LEMMA CallsAt == ASSUME NEW q \in Request PROVE Calls[q] = CallOf(q)
BY DEF Calls

LEMMA ServesCall ==
  ASSUME NEW q \in Request, NEW kind \in Kinds, Others(q), UNCHANGED CounterOf(store),
         requests[q].kind = "none", Becomes(q, kind, EffectOf(q), ReplyOf(q), ValueOf(q))
  PROVE  Served
<1>1. Calls[q] = Entry("none", EffectOf(q), ReplyOf(q), ValueOf(q))
  BY CallsAt, CallIs
<1>2. Calls' = [Calls EXCEPT ![q] = WithKind(Calls[q], kind)]
  BY <1>1, OneCallChanges, EntryChanges DEF Becomes
<1>3. Calls[q].kind = "none"
  BY <1>1, EntryFields
<1>4. Promise!Call(q, kind)
  BY <1>2, <1>3 DEF Promise!Call, WithKind, Calls
<1>5. QED
  BY <1>4 DEF Served, Promise!ServiceNext

LEMMA ServesEffect ==
  ASSUME NEW q \in Request, Others(q), requests[q].kind # "none",
         EffectOf(q) = None, ReplyOf(q) # "ok",
         CounterOf(store)' = Resulting(requests[q].kind, CounterOf(store)),
         Becomes(q, requests[q].kind, CounterOf(store)', ReplyOf(q), ValueOf(q))
  PROVE  Served
<1>1. Calls[q] = Entry(requests[q].kind, EffectOf(q), ReplyOf(q), ValueOf(q))
  BY CallsAt, CallIs
<1>2. Calls' = [Calls EXCEPT ![q] = WithEffect(Calls[q], CounterOf(store)')]
  BY <1>1, OneCallChanges, EntryChanges DEF Becomes
<1>3. /\ Calls[q].kind = requests[q].kind /\ Calls[q].effect = EffectOf(q)
      /\ Calls[q].reply = ReplyOf(q)
  BY <1>1, EntryFields
<1>4. Promise!TakeEffect(q)
  BY <1>2, <1>3
     DEF Promise!TakeEffect, WithEffect, Promise!Resulting, Promise!None, Resulting, None, Calls
<1>5. QED
  BY <1>4 DEF Served, Promise!ServiceNext

LEMMA ServesAnswer ==
  ASSUME NEW q \in Request, Others(q), UNCHANGED CounterOf(store), requests[q].kind # "none",
         EffectOf(q) # None, ReplyOf(q) = "none",
         Becomes(q, requests[q].kind, EffectOf(q), "ok", EffectOf(q))
  PROVE  Served
<1>1. Calls[q] = Entry(requests[q].kind, EffectOf(q), ReplyOf(q), ValueOf(q))
  BY CallsAt, CallIs
<1>2. Calls' = [Calls EXCEPT ![q] = WithAnswer(Calls[q], EffectOf(q))]
  BY <1>1, OneCallChanges, EntryChanges DEF Becomes
<1>3. /\ Calls[q].kind = requests[q].kind /\ Calls[q].effect = EffectOf(q)
      /\ Calls[q].reply = ReplyOf(q)
  BY <1>1, EntryFields
<1>4. Promise!Answer(q)
  BY <1>2, <1>3 DEF Promise!Answer, WithAnswer, Promise!None, None, Calls
<1>5. QED
  BY <1>4 DEF Served, Promise!ServiceNext

LEMMA ServesRefusal ==
  ASSUME NEW q \in Request, Others(q), UNCHANGED CounterOf(store), requests[q].kind # "none",
         ReplyOf(q) = "none",
         Becomes(q, requests[q].kind, EffectOf(q), "refused", ValueOf(q))
  PROVE  Served
<1>1. Calls[q] = Entry(requests[q].kind, EffectOf(q), ReplyOf(q), ValueOf(q))
  BY CallsAt, CallIs
<1>2. Calls' = [Calls EXCEPT ![q] = WithReply(Calls[q], "refused")]
  BY <1>1, OneCallChanges, EntryChanges DEF Becomes
<1>3. /\ Calls[q].kind = requests[q].kind /\ Calls[q].reply = ReplyOf(q)
  BY <1>1, EntryFields
<1>4. Promise!Refuse(q)
  BY <1>2, <1>3 DEF Promise!Refuse, WithReply, Calls
<1>5. QED
  BY <1>4 DEF Served, Promise!ServiceNext

LEMMA ServesNothing ==
  ASSUME UNCHANGED CounterOf(store), \A q \in Request : CallOf(q)' = CallOf(q)
  PROVE  Served
<1>1. Calls' = Calls
  BY DEF Calls
<1>2. QED
  BY <1>1 DEF Served

----------------------------------------------------------------------------
(* What a handler knows of the counter is true at the revision it read, if *)
(* that is still the revision; a plan that was committed made what the     *)
(* handler will answer.                                                    *)
Early == {"unused", "arrived", "granted", "authorized", "holding"}

Answerable(q) == PlanOf(q) = <<>> \/ receipts[q].status = "committed"

Knows(q) ==
    requests[q].seen # None =>
       /\ requests[q].seen \in Nat /\ requests[q].revision \in Nat
       /\ requests[q].revision =< store.revision
       /\ requests[q].revision = store.revision => requests[q].seen = CounterOf(store)

Proceeds(q) ==
    /\ requests[q].stage \in Pending \cup {"unused", "done"}
    /\ requests[q].kind \in Kinds \cup {"none"}
    /\ requests[q].kind = "none" <=> requests[q].stage = "unused"
    /\ requests[q].stage \in Early => requests[q].seen = None
    /\ requests[q].stage \in {"planned", "sent", "rereading"} \/ requests[q].reply = "ok"
          => requests[q].seen # None
    /\ requests[q].reply = "none" <=> requests[q].stage # "done"
    /\ requests[q].stage = "rereading" \/ requests[q].reply = "ok" => Answerable(q)
    /\ requests[q].stage = "sent" => PlanOf(q) # <<>>

Receives(q) ==
    /\ receipts[q].status \in {"none", "committed", "reverted"}
    /\ receipts[q].status # "none" => requests[q].seen # None /\ PlanOf(q) # <<>>
    /\ receipts[q].status = "committed"
          => receipts[q].value = Resulting(requests[q].kind, requests[q].seen)

Serves(q) == Knows(q) /\ Proceeds(q) /\ Receives(q)

(* What is in the mempool is what its handler planned.                     *)
Planned(tx) ==
    /\ tx = TransactionOf(tx.request)
    /\ PlanOf(tx.request) # <<>>
    /\ requests[tx.request].seen # None

PoolIsPlanned == \A i \in DOMAIN mempool : Planned(mempool[i])

ServiceInvariant ==
    /\ GatewayInvariant
    /\ CounterStore(store)
    /\ \A q \in Request : Serves(q)
    /\ PoolIsPlanned

LEMMA ServiceInvariantInit == GatewayInit => ServiceInvariant /\ Promise!ServiceInit
<1> SUFFICES ASSUME GatewayInit PROVE ServiceInvariant /\ Promise!ServiceInit
  OBVIOUS
<1>1. /\ requests = [q \in Request |-> Unused] /\ mempool = <<>> /\ store = EmptyStore
      /\ receipts = [q \in Request |-> [status |-> "none", value |-> None]]
  BY DEF GatewayInit, SchemaInit
<1>2. CounterStore(store) /\ TheRow \notin store.rows
  BY <1>1 DEF EmptyStore, CounterStore, Shaped
<1>3. CounterOf(store) = 0
  BY <1>2, CounterIs
<1>4. ASSUME NEW q \in Request
      PROVE  Serves(q) /\ CallOf(q) = Entry("none", None, "none", None)
  <2>1. /\ requests[q].stage = "unused" /\ requests[q].kind = "none"
        /\ requests[q].seen = None /\ requests[q].reply = "none"
        /\ receipts[q].status = "none"
    BY <1>1 DEF Unused
  <2>2. Serves(q)
    BY <2>1 DEF Serves, Knows, Proceeds, Receives, Early, Pending, None
  <2>3. EffectOf(q) = None /\ ReplyOf(q) = "none" /\ ValueOf(q) = None
    BY <2>1 DEF EffectOf, ReplyOf, ValueOf
  <2>4. QED
    BY <2>1, <2>2, <2>3, CallIs
<1>5. PoolIsPlanned
  BY <1>1 DEF PoolIsPlanned
<1>6. Promise!ServiceInit
  <2>1. Calls = [q \in Request |-> Entry("none", None, "none", None)]
    BY <1>4 DEF Calls
  <2>2. QED
    BY <1>3, <2>1 DEF Calls, Promise!ServiceInit, Promise!None, None, Entry
<1>7. QED
  BY <1>2, <1>4, <1>5, <1>6, GatewayInvariantInit DEF ServiceInvariant

(* A step that leaves what a handler planned alone leaves its transaction. *)
LEMMA PlanStays ==
  ASSUME NEW p, requests'[p].kind = requests[p].kind, requests'[p].seen = requests[p].seen,
         requests'[p].revision = requests[p].revision, requests'[p].actor = requests[p].actor
  PROVE  PlanOf(p)' = PlanOf(p) /\ TransactionOf(p)' = TransactionOf(p)
BY DEF PlanOf, TransactionOf

LEMMA CallStays ==
  ASSUME NEW p, requests'[p] = requests[p], receipts'[p] = receipts[p]
  PROVE  CallOf(p)' = CallOf(p)
BY DEF CallOf, PlanOf

(* A step of one handler that leaves the chain alone, and may add its      *)
(* transaction to the mempool.                                             *)
Hands(q) ==
    \/ mempool' = mempool
    \/ /\ requests[q].stage = "planned" /\ PlanOf(q) # <<>>
       /\ mempool' = Append(mempool, TransactionOf(q))

Alone == UNCHANGED <<schemaVars, receipts>>

LEMMA OneHandler ==
  ASSUME ServiceInvariant, GatewayInvariant', NEW q \in Request, NEW h,
         requests' = [requests EXCEPT ![q] = h], Alone, Hands(q),
         requests[q].stage # "done",
         requests[q].stage \in {"planned", "sent"}
            => /\ h.kind = requests[q].kind /\ h.seen = requests[q].seen
               /\ h.revision = requests[q].revision /\ h.actor = requests[q].actor,
         Serves(q)'
  PROVE  ServiceInvariant' /\ Others(q) /\ UNCHANGED CounterOf(store)
<1>1. /\ requests'[q] = h
      /\ \A p \in Request \ {q} : requests'[p] = requests[p]
  BY DEF ServiceInvariant, GatewayInvariant, Shape
<1>2. receipts' = receipts /\ store' = store
  BY DEF Alone, schemaVars, stateVars
<1>3. \A p \in Request \ {q} : CallOf(p)' = CallOf(p) /\ PlanOf(p)' = PlanOf(p)
                                 /\ TransactionOf(p)' = TransactionOf(p)
  BY <1>1, <1>2, CallStays, PlanStays
<1>4. ASSUME NEW p \in Request PROVE Serves(p)'
  <2>1. CASE p = q
    BY <2>1
  <2>2. CASE p # q
    BY <1>1, <1>2, <1>3, <2>2
       DEF ServiceInvariant, Serves, Knows, Proceeds, Receives, Answerable
  <2>3. QED
    BY <2>1, <2>2
<1>5. PoolIsPlanned'
  <2>1. ASSUME NEW i \in DOMAIN mempool, NEW tx, tx = mempool[i] PROVE Planned(tx)'
    <3>1. PICK p \in Request : p = tx.request
      BY <2>1 DEF ServiceInvariant, GatewayInvariant, PoolIsInOrder
    <3>2. /\ tx = TransactionOf(p) /\ PlanOf(p) # <<>> /\ requests[p].seen # None
          /\ requests[p].stage \in {"sent", "done"}
      BY <2>1, <3>1
         DEF ServiceInvariant, PoolIsPlanned, Planned, GatewayInvariant, PoolIsInOrder
    <3>3. /\ PlanOf(p)' = PlanOf(p) /\ TransactionOf(p)' = TransactionOf(p)
          /\ requests'[p].seen = requests[p].seen
      <4>1. CASE p = q
        BY <1>1, <3>2, <4>1, PlanStays
      <4>2. CASE p # q
        BY <1>1, <1>3, <4>2
      <4>3. QED
        BY <4>1, <4>2
    <3>4. QED
      BY <3>1, <3>2, <3>3 DEF Planned
  <2>2. CASE mempool' = mempool
    <3>1. ASSUME NEW i \in DOMAIN mempool' PROVE Planned(mempool[i])'
      <4>1. PICK tx : tx = mempool[i]
        OBVIOUS
      <4>2. Planned(tx)' /\ mempool'[i] = tx
        BY <2>1, <2>2, <4>1
      <4>3. QED
        BY <4>2 DEF Planned
    <3>2. QED
      BY <3>1 DEF PoolIsPlanned
  <2>3. CASE mempool' = Append(mempool, TransactionOf(q)) /\ requests[q].stage = "planned"
             /\ PlanOf(q) # <<>>
    <3>1. PICK S : mempool \in Seq(S)
      BY DEF ServiceInvariant, GatewayInvariant, Shape
    <3>2. PICK new : new = TransactionOf(q)
      OBVIOUS
    <3>3. /\ TransactionOf(q)' = TransactionOf(q) /\ PlanOf(q)' = PlanOf(q)
          /\ requests'[q].seen = requests[q].seen
      BY <1>1, <2>3, PlanStays
    <3>4. requests[q].seen # None
      BY <2>3 DEF ServiceInvariant, Serves, Proceeds
    <3>5. new.request = q
      BY <3>2 DEF TransactionOf
    <3>6. Planned(new)'
      BY <2>3, <3>2, <3>3, <3>4, <3>5 DEF Planned
    <3>7. /\ DOMAIN mempool' = DOMAIN mempool \cup {Len(mempool) + 1}
          /\ mempool'[Len(mempool) + 1] = new
          /\ \A i \in DOMAIN mempool : mempool'[i] = mempool[i]
      BY <2>3, <3>1, <3>2
    <3>8. ASSUME NEW i \in DOMAIN mempool' PROVE Planned(mempool[i])'
      <4>1. PICK tx : tx = mempool'[i]
        OBVIOUS
      <4>2. Planned(tx)'
        BY <2>1, <3>6, <3>7, <4>1
      <4>3. QED
        BY <4>1, <4>2 DEF Planned
    <3>9. QED
      BY <3>8 DEF PoolIsPlanned
  <2>4. QED
    BY <2>2, <2>3 DEF Hands
<1>6. CounterStore(store)'
  BY <1>2 DEF ServiceInvariant, CounterStore, CounterKey, CellKeyOf, Shaped
<1>7. QED
  BY <1>2, <1>3, <1>4, <1>5, <1>6 DEF ServiceInvariant, Others, CounterOf, CellsOf

(* A handler that ends answers or refuses.                                 *)
LEMMA EndServes ==
  ASSUME ServiceInvariant, GatewayInvariant', NEW q \in Request, NEW reply, End(q, reply), Alone,
         Hands(q), requests[q].stage \notin {"unused", "done"}, reply # "none",
         reply = "ok" => requests[q].seen # None /\ Answerable(q)
  PROVE  ServiceInvariant' /\ Served
<1> DEFINE h == [requests[q] EXCEPT !.stage = "done", !.reply = reply]
<1>1. /\ DOMAIN requests[q] = Fields /\ requests[q].reply = "none"
      /\ requests = [p \in Request |-> requests[p]]
      /\ Serves(q) /\ requests[q].kind # "none"
  BY DEF ServiceInvariant, GatewayInvariant, Shape, PoolIsInOrder, Serves, Proceeds
<1>2. /\ h.stage = "done" /\ h.reply = reply /\ h.kind = requests[q].kind
      /\ h.seen = requests[q].seen /\ h.revision = requests[q].revision
      /\ h.actor = requests[q].actor
  BY <1>1 DEF Fields
<1>3. requests' = [requests EXCEPT ![q] = h]
  BY <1>1 DEF End
<1>4. receipts' = receipts /\ store' = store
  BY DEF Alone, schemaVars, stateVars
<1> HIDE DEF h
<1>5. requests'[q] = h
  BY <1>1, <1>3
<1>6. PlanOf(q)' = PlanOf(q)
  BY <1>2, <1>5, PlanStays
<1>7. Serves(q)'
  BY <1>1, <1>2, <1>4, <1>5, <1>6 DEF Serves, Knows, Proceeds, Receives, Answerable, Early, Pending
<1>8. ServiceInvariant' /\ Others(q) /\ UNCHANGED CounterOf(store)
  BY <1>2, <1>3, <1>7, OneHandler
<1>9. EffectOf(q)' = EffectOf(q) /\ requests'[q].kind = requests[q].kind
      /\ ReplyOf(q) = "none" /\ ValueOf(q) = None
  BY <1>1, <1>2, <1>4, <1>5, <1>6 DEF EffectOf, ReplyOf, ValueOf
<1>10. CASE reply = "ok"
  <2>1. /\ EffectOf(q) = Resulting(requests[q].kind, requests[q].seen)
        /\ EffectOf(q) # None
    <3>1. requests[q].seen \in Nat /\ requests[q].kind \in {"read", "ensure", "increment"}
      BY <1>1, <1>10 DEF Serves, Knows, Proceeds
    <3>2. Resulting(requests[q].kind, requests[q].seen) \in Nat
      BY <3>1, PlanForIs
    <3>3. CASE receipts[q].status = "committed"
      BY <1>1, <3>2, <3>3 DEF Serves, Receives, EffectOf, None
    <3>4. CASE receipts[q].status # "committed"
      <4>1. PlanOf(q) = <<>> /\ requests[q].seen # None
        BY <1>10, <3>4 DEF Answerable
      <4>2. Resulting(requests[q].kind, requests[q].seen) = requests[q].seen
        BY <3>1, <4>1, PlanForIs DEF PlanOf
      <4>3. QED
        BY <3>4, <4>1, <4>2 DEF EffectOf
    <3>5. QED
      BY <3>3, <3>4
  <2>2. ReplyOf(q)' = "ok" /\ ValueOf(q)' = EffectOf(q)
    BY <1>2, <1>5, <1>10, <2>1 DEF ReplyOf, ValueOf
  <2>3. CallOf(q)' = Entry(requests'[q].kind, EffectOf(q)', ReplyOf(q)', ValueOf(q)')
    BY CallIs DEF CallOf, Entry, EffectOf, ReplyOf, ValueOf
  <2>4. Becomes(q, requests[q].kind, EffectOf(q), "ok", EffectOf(q))
    BY <1>9, <2>2, <2>3 DEF Becomes
  <2>5. QED
    BY <1>1, <1>8, <1>9, <2>1, <2>4, ServesAnswer
<1>11. CASE reply # "ok"
  <2>1. ReplyOf(q)' = "refused" /\ ValueOf(q)' = ValueOf(q)
    BY <1>2, <1>5, <1>9, <1>11 DEF ReplyOf, ValueOf
  <2>2. CallOf(q)' = Entry(requests'[q].kind, EffectOf(q)', ReplyOf(q)', ValueOf(q)')
    BY DEF CallOf, Entry, EffectOf, ReplyOf, ValueOf
  <2>3. Becomes(q, requests[q].kind, EffectOf(q), "refused", ValueOf(q))
    BY <1>9, <2>1, <2>2 DEF Becomes
  <2>4. QED
    BY <1>1, <1>8, <1>9, <2>3, ServesRefusal
<1>12. QED
  BY <1>10, <1>11

(* A handler that goes on does nothing its client could see.               *)
LEMMA AdvanceServes ==
  ASSUME ServiceInvariant, GatewayInvariant', NEW q \in Request, NEW stage, Advance(q, stage),
         Alone, Hands(q), requests[q].stage \notin {"unused", "done"},
         stage \in Pending \ {"planned"},
         stage \in Early => requests[q].stage \in Early,
         stage \in {"sent", "rereading"} => requests[q].seen # None,
         stage = "rereading" => Answerable(q),
         stage = "sent" => PlanOf(q) # <<>>
  PROVE  ServiceInvariant' /\ Served
<1> DEFINE h == [requests[q] EXCEPT !.stage = stage]
<1>1. /\ DOMAIN requests[q] = Fields
      /\ requests = [p \in Request |-> requests[p]]
      /\ Serves(q)
  BY DEF ServiceInvariant, GatewayInvariant, Shape
<1>2. /\ h.stage = stage /\ h.reply = requests[q].reply /\ h.kind = requests[q].kind
      /\ h.seen = requests[q].seen /\ h.revision = requests[q].revision
      /\ h.actor = requests[q].actor
  BY <1>1 DEF Fields
<1>3. requests' = [requests EXCEPT ![q] = h]
  BY <1>1 DEF Advance
<1>4. receipts' = receipts /\ store' = store
  BY DEF Alone, schemaVars, stateVars
<1> HIDE DEF h
<1>5. requests'[q] = h
  BY <1>1, <1>3
<1>6. PlanOf(q)' = PlanOf(q)
  BY <1>2, <1>5, PlanStays
<1>7. Serves(q)'
  BY <1>1, <1>2, <1>4, <1>5, <1>6 DEF Serves, Knows, Proceeds, Receives, Answerable, Early, Pending
<1>8. ServiceInvariant' /\ Others(q) /\ UNCHANGED CounterOf(store)
  BY <1>2, <1>3, <1>7, OneHandler
<1>9. CallOf(q)' = CallOf(q)
  BY <1>2, <1>4, <1>5, <1>6 DEF CallOf
<1>10. QED
  BY <1>8, <1>9, ServesNothing DEF Others

LEMMA FinishServes ==
  ASSUME ServiceInvariant, GatewayInvariant', NEW q \in Request, Finish(q), Alone, Hands(q),
         requests[q].stage \in {"planned", "sent"}, Answerable(q)
  PROVE  ServiceInvariant' /\ Served
<1>1. requests[q].seen # None
  BY DEF ServiceInvariant, Serves, Proceeds
<1>2. CASE End(q, "ok")
  BY <1>1, <1>2, EndServes
<1>3. CASE Advance(q, "rereading")
  BY <1>1, <1>3, AdvanceServes DEF Early, Pending
<1>4. QED
  BY <1>2, <1>3 DEF Finish

LEMMA ArriveServes ==
  ASSUME ServiceInvariant, GatewayInvariant', NEW q \in Request, NEW kind \in Kinds,
         NEW endpoint, NEW actor, Arrive(q, kind, endpoint, actor)
  PROVE  ServiceInvariant' /\ Served
<1> DEFINE h == [Unused EXCEPT !.stage = "arrived", !.kind = kind,
                               !.endpoint = endpoint, !.actor = actor]
<1>1. /\ requests = [p \in Request |-> requests[p]]
      /\ requests[q].stage = "unused" /\ requests[q].kind = "none" /\ requests[q].seen = None
      /\ requests[q].reply = "none" /\ receipts[q].status = "none"
  BY DEF Arrive, ServiceInvariant, GatewayInvariant, Shape, PoolIsInOrder, Serves, Proceeds,
         Early
<1>2. h.stage = "arrived" /\ h.reply = "none" /\ h.kind = kind /\ h.seen = None
  BY DEF Unused
<1>3. requests' = [requests EXCEPT ![q] = h] /\ receipts' = receipts /\ store' = store
      /\ Alone /\ Hands(q)
  BY DEF Arrive, Outside, Alone, Hands, schemaVars, stateVars
<1> HIDE DEF h
<1>4. requests'[q] = h
  BY <1>1, <1>3
<1>5. Serves(q)'
  BY <1>1, <1>2, <1>3, <1>4 DEF Serves, Knows, Proceeds, Receives, Early, Pending
<1>6. ServiceInvariant' /\ Others(q) /\ UNCHANGED CounterOf(store)
  BY <1>1, <1>3, <1>5, OneHandler
<1>7. /\ EffectOf(q) = None /\ ReplyOf(q) = "none" /\ ValueOf(q) = None
      /\ EffectOf(q)' = None /\ ReplyOf(q)' = "none" /\ ValueOf(q)' = None
  BY <1>1, <1>2, <1>3, <1>4 DEF EffectOf, ReplyOf, ValueOf
<1>8. CallOf(q)' = Entry(requests'[q].kind, EffectOf(q)', ReplyOf(q)', ValueOf(q)')
  BY DEF CallOf, Entry, EffectOf, ReplyOf, ValueOf
<1>9. Becomes(q, kind, EffectOf(q), ReplyOf(q), ValueOf(q))
  BY <1>2, <1>4, <1>7, <1>8 DEF Becomes
<1>10. QED
  BY <1>1, <1>6, <1>9, ServesCall

(* A snapshot of a counter that the statement leaves alone is where the    *)
(* call takes effect; any other changes nothing yet.                       *)
LEMMA SnapshotServes ==
  ASSUME ServiceInvariant, GatewayInvariant', NEW q \in Request, Snapshot(q)
  PROVE  ServiceInvariant' /\ Served
<1>1. /\ requests[q].stage \in {"holding", "authorized"} /\ Outside
      /\ Alone /\ Hands(q) /\ receipts' = receipts /\ store' = store
  BY DEF Snapshot, Outside, Alone, Hands, schemaVars, stateVars
<1>2. CASE End(q, "failed") \/ End(q, "unauthorized")
  BY <1>1, <1>2, EndServes
<1>3. CASE requests' = [requests EXCEPT ![q].stage = "planned", ![q].seen = CounterOf(store),
                                        ![q].revision = store.revision]
  <2> DEFINE n == CounterOf(store)
             kind == requests[q].kind
             h == [requests[q] EXCEPT !.stage = "planned", !.seen = n,
                                      !.revision = store.revision]
  <2>1. /\ DOMAIN requests[q] = Fields
        /\ requests = [p \in Request |-> requests[p]]
        /\ requests[q].reply = "none" /\ receipts[q].status = "none"
        /\ kind \in Kinds \ {"none"} /\ requests[q].seen = None
    BY <1>1 DEF ServiceInvariant, GatewayInvariant, Shape, PoolIsInOrder, Serves, Proceeds, Early
  <2>2. /\ h.stage = "planned" /\ h.reply = "none" /\ h.kind = kind /\ h.seen = n
        /\ h.revision = store.revision
    BY <2>1 DEF Fields
  <2>3. requests' = [requests EXCEPT ![q] = h]
    BY <1>3, <2>1
  <2>4. n \in Nat /\ store.revision \in Nat /\ n # None
    BY CounterIs DEF ServiceInvariant, CounterStore, None
  <2>5. CounterOf(store)' = n
    BY <1>1
  <2> HIDE DEF h
  <2>6. requests'[q] = h
    BY <2>1, <2>3
  <2>7. Serves(q)'
    BY <1>1, <2>1, <2>2, <2>4, <2>5, <2>6 DEF Serves, Knows, Proceeds, Receives, Early, Pending
  <2>8. ServiceInvariant' /\ Others(q) /\ UNCHANGED CounterOf(store)
    BY <1>1, <2>3, <2>7, OneHandler
  <2>9. /\ EffectOf(q) = None /\ ReplyOf(q) = "none" /\ ValueOf(q) = None
        /\ ReplyOf(q)' = "none" /\ ValueOf(q)' = None
        /\ EffectOf(q)' = IF PlanOf(q)' = <<>> THEN n ELSE None
    BY <1>1, <2>1, <2>2, <2>4, <2>6 DEF EffectOf, ReplyOf, ValueOf
  <2>10. CallOf(q)' = Entry(requests'[q].kind, EffectOf(q)', ReplyOf(q)', ValueOf(q)')
    BY DEF CallOf, Entry, EffectOf, ReplyOf, ValueOf
  <2>11. PlanOf(q)' = PlanFor(kind, n)
    BY <2>2, <2>6 DEF PlanOf
  <2>12. CASE PlanFor(kind, n) = <<>>
    <3>1. Resulting(kind, n) = n
      BY <2>1, <2>4, <2>12, PlanForIs
    <3>2. Becomes(q, kind, CounterOf(store)', ReplyOf(q), ValueOf(q))
      BY <2>2, <2>5, <2>6, <2>9, <2>10, <2>11, <2>12 DEF Becomes
    <3>3. QED
      BY <2>1, <2>5, <2>8, <2>9, <3>1, <3>2, ServesEffect
  <2>13. CASE PlanFor(kind, n) # <<>>
    <3>1. CallOf(q)' = CallOf(q)
      BY <2>2, <2>6, <2>9, <2>10, <2>11, <2>13, CallIs
    <3>2. QED
      BY <2>8, <3>1, ServesNothing DEF Others
  <2>14. QED
    BY <2>12, <2>13
<1>4. QED
  BY <1>2, <1>3 DEF Snapshot

LEMMA SendServes ==
  ASSUME ServiceInvariant, GatewayInvariant', NEW q \in Request, Send(q)
  PROVE  ServiceInvariant' /\ Served
<1>1. /\ requests[q].stage = "planned" /\ PlanOf(q) # <<>> /\ Alone /\ Hands(q)
      /\ requests[q].seen # None
  BY DEF Send, Alone, Hands, ServiceInvariant, Serves, Proceeds
<1>2. CASE End(q, "conflict")
  BY <1>1, <1>2, EndServes
<1>3. CASE Advance(q, "sent")
  BY <1>1, <1>3, AdvanceServes DEF Early, Pending
<1>4. QED
  BY <1>2, <1>3 DEF Send

(* A transaction that is committed was planned on the state it is run on,  *)
(* so that the call takes effect now, be it answered, refused or lost.     *)
LEMMA MineServes ==
  ASSUME ServiceInvariant, GatewayInvariant', Mine
  PROVE  ServiceInvariant' /\ Served
<1>1. /\ mempool # <<>> /\ mempool' = Tail(mempool) /\ requests' = requests
  BY DEF Mine, gatewayProcessVars
<1>2. PICK S : mempool \in Seq(S)
  BY DEF ServiceInvariant, GatewayInvariant, Shape
<1>3. /\ 1 \in DOMAIN mempool /\ mempool[1] = Head(mempool)
      /\ \A i \in DOMAIN mempool' : i + 1 \in DOMAIN mempool /\ mempool'[i] = mempool[i + 1]
  BY <1>1, <1>2
<1>4. PICK tx : tx = Head(mempool)
  OBVIOUS
<1>5. PICK q \in Request : q = tx.request
  BY <1>3, <1>4 DEF ServiceInvariant, GatewayInvariant, PoolIsInOrder
<1>6. tx = TransactionOf(q) /\ PlanOf(q) # <<>> /\ requests[q].seen # None
  BY <1>3, <1>4, <1>5 DEF ServiceInvariant, PoolIsPlanned, Planned
<1>7. /\ requests[q].reply # "ok" /\ receipts[q].status = "none"
      /\ DOMAIN receipts[q] = {"status", "value"}
      /\ receipts = [p \in Request |-> receipts[p]]
      /\ requests[q].stage # "unused" /\ requests[q].stage # "rereading"
  BY <1>3, <1>4, <1>5 DEF ServiceInvariant, GatewayInvariant, PoolIsInOrder, Shape
<1>8. Serves(q) /\ requests[q].kind \in Kinds \ {"none"}
  BY <1>7 DEF ServiceInvariant, Serves, Proceeds
<1>9. PoolIsPlanned'
  <2>1. ASSUME NEW i \in DOMAIN mempool' PROVE Planned(mempool[i])'
    <3>1. Planned(mempool[i + 1]) /\ mempool'[i] = mempool[i + 1]
      BY <1>3 DEF ServiceInvariant, PoolIsPlanned
    <3>2. QED
      BY <1>1, <3>1 DEF Planned, TransactionOf, PlanOf
  <2>2. QED
    BY <2>1 DEF PoolIsPlanned
<1> DEFINE n == CounterOf(store)
           kind == requests[q].kind
<1>10. n \in Nat /\ store.revision \in Nat
  BY CounterIs DEF ServiceInvariant, CounterStore
<1>11. CASE Run(tx) /\ receipts' = [receipts EXCEPT ![q] =
                          [status |-> "committed", value |-> CounterOf(store')]]
  <2>1. PICK p \in BOOLEAN : /\ Apply(store, tx.revision, tx.operations, p).ok
                             /\ store' = Apply(store, tx.revision, tx.operations, p).store
    BY <1>11 DEF Run, Execute, ExecutePrivileged, Commit
  <2>2. tx.revision = requests[q].revision /\ tx.operations = PlanOf(q)
    BY <1>6 DEF TransactionOf
  <2>3. requests[q].seen = n
    <3>1. IsPlan(PlanOf(q))
      <4>1. requests[q].seen \in Nat
        BY <1>6, <1>8 DEF Serves, Knows
      <4>2. QED
        BY <1>8, <4>1, PlanForIsPlan DEF PlanOf
    <3>2. PlanAdmitted(store, tx.revision, tx.operations)
      <4>1. SUFFICES ASSUME ~ PlanAdmitted(store, tx.revision, tx.operations) PROVE FALSE
        OBVIOUS
      <4>2. Apply(store, tx.revision, tx.operations, p) = Failure(store)
        BY <2>2, <3>1, <4>1, ApplyIsOutcome
      <4>3. QED
        BY <2>1, <4>2, SuccessFields
    <3>3. requests[q].revision = store.revision
      BY <2>2, <3>2 DEF PlanAdmitted
    <3>4. QED
      BY <1>6, <1>8, <3>3 DEF Serves, Knows
  <2>4. /\ CounterStore(store') /\ CounterOf(store') = Resulting(kind, n)
        /\ store'.revision = store.revision + 1
    <3>1. PlanOf(q) = PlanFor(kind, n)
      BY <2>3 DEF PlanOf
    <3>2. kind \in {"read", "ensure", "increment"} /\ CounterStore(store)
      BY <1>8 DEF ServiceInvariant
    <3>3. PICK st : st = store
      OBVIOUS
    <3>4. QED
      BY <1>6, <2>1, <2>2, <3>1, <3>2, <3>3, PlanApplies
  <2>5. /\ receipts'[q].status = "committed" /\ receipts'[q].value = Resulting(kind, n)
        /\ \A r \in Request \ {q} : receipts'[r] = receipts[r]
    BY <1>7, <1>11, <2>4
  <2>6. ASSUME NEW r \in Request PROVE Serves(r)'
    <3>1. Knows(r)'
      <4>1. Knows(r)
        BY DEF ServiceInvariant, Serves
      <4>2. QED
        BY <1>1, <1>10, <2>4, <4>1 DEF Knows
    <3>2. CASE r = q
      BY <1>1, <1>6, <1>7, <1>8, <2>3, <2>5, <3>1, <3>2
         DEF Serves, Proceeds, Receives, Answerable, PlanOf
    <3>3. CASE r # q
      BY <1>1, <2>5, <3>1, <3>3
         DEF ServiceInvariant, Serves, Proceeds, Receives, Answerable, PlanOf
    <3>4. QED
      BY <3>2, <3>3
  <2>7. Others(q)
    BY <1>1, <2>5, CallStays DEF Others
  <2>8. /\ EffectOf(q) = None /\ ReplyOf(q) # "ok" /\ EffectOf(q)' = Resulting(kind, n)
        /\ ReplyOf(q)' = ReplyOf(q) /\ ValueOf(q)' = ValueOf(q)
    BY <1>1, <1>6, <1>7, <2>5 DEF EffectOf, ReplyOf, ValueOf, PlanOf
  <2>9. CallOf(q)' = Entry(requests'[q].kind, EffectOf(q)', ReplyOf(q)', ValueOf(q)')
    BY DEF CallOf, Entry, EffectOf, ReplyOf, ValueOf
  <2>10. Becomes(q, kind, CounterOf(store)', ReplyOf(q), ValueOf(q))
    BY <1>1, <2>4, <2>8, <2>9 DEF Becomes
  <2>11. Served
    BY <1>8, <2>4, <2>7, <2>8, <2>10, ServesEffect
  <2>12. QED
    BY <1>9, <2>4, <2>6, <2>11 DEF ServiceInvariant
<1>12. CASE /\ receipts' = [receipts EXCEPT ![q].status = "reverted"]
            /\ UNCHANGED schemaVars
  <2>1. store' = store
    BY <1>12 DEF schemaVars, stateVars
  <2>2. /\ receipts'[q].status = "reverted"
        /\ \A r \in Request \ {q} : receipts'[r] = receipts[r]
    BY <1>7, <1>12
  <2>3. ASSUME NEW r \in Request PROVE Serves(r)' /\ CallOf(r)' = CallOf(r)
    <3>1. CASE r = q
      BY <1>1, <1>6, <1>7, <1>8, <2>1, <2>2, <3>1
         DEF Serves, Knows, Proceeds, Receives, Answerable, PlanOf, CallOf
    <3>2. CASE r # q
      BY <1>1, <2>1, <2>2, <3>2
         DEF ServiceInvariant, Serves, Knows, Proceeds, Receives, Answerable, PlanOf, CallOf
    <3>3. QED
      BY <3>1, <3>2
  <2>4. CounterOf(store)' = CounterOf(store) /\ CounterStore(store)'
    BY <2>1 DEF ServiceInvariant
  <2>5. Served
    BY <2>3, <2>4, ServesNothing
  <2>6. QED
    BY <1>9, <2>3, <2>4, <2>5 DEF ServiceInvariant
<1>13. QED
  BY <1>4, <1>5, <1>11, <1>12 DEF Mine

(* A crash refuses the calls in hand.                                      *)
LEMMA CrashServes ==
  ASSUME ServiceInvariant, GatewayInvariant', Crash
  PROVE  ServiceInvariant' /\ Served
<1>1. mempool' = mempool /\ receipts' = receipts /\ store' = store
  BY DEF Crash, Outside, schemaVars, stateVars
<1>2. ASSUME NEW q \in Request
      PROVE  /\ requests'[q].kind = requests[q].kind /\ requests'[q].seen = requests[q].seen
             /\ requests'[q].revision = requests[q].revision
             /\ requests'[q].actor = requests[q].actor
             /\ \/ /\ requests[q].reply = "none" /\ requests[q].kind # "none"
                   /\ requests'[q].stage = "done" /\ requests'[q].reply = "lost"
                \/ /\ requests'[q] = requests[q]
                   /\ requests[q].reply # "none" \/ requests[q].kind = "none"
  <2>1. DOMAIN requests[q] = Fields /\ Serves(q)
    BY DEF ServiceInvariant, GatewayInvariant, Shape
  <2>2. CASE requests[q].stage \in Pending
    <3>1. requests'[q] = [requests[q] EXCEPT !.stage = "done", !.reply = "lost"]
      BY <2>2 DEF Crash
    <3>2. QED
      BY <2>1, <2>2, <3>1 DEF Fields, Pending, Serves, Proceeds
  <2>3. CASE requests[q].stage \notin Pending
    <3>1. requests'[q] = requests[q]
      BY <2>3 DEF Crash
    <3>2. QED
      BY <2>1, <2>3, <3>1 DEF Pending, Serves, Proceeds
  <2>4. QED
    BY <2>2, <2>3
<1>3. ASSUME NEW q \in Request
      PROVE  /\ PlanOf(q)' = PlanOf(q) /\ TransactionOf(q)' = TransactionOf(q)
             /\ Serves(q)'
             /\ CallOf(q)' = IF Calls[q].kind # "none" /\ Calls[q].reply = "none"
                             THEN WithReply(Calls[q], "refused") ELSE Calls[q]
  <2>1. PlanOf(q)' = PlanOf(q) /\ TransactionOf(q)' = TransactionOf(q)
    BY <1>2, PlanStays
  <2>2. Serves(q)
    BY DEF ServiceInvariant
  <2>3. Serves(q)'
    BY <1>1, <1>2, <2>1, <2>2
       DEF Serves, Knows, Proceeds, Receives, Answerable, Early, Pending
  <2>4. /\ Calls[q] = Entry(requests[q].kind, EffectOf(q), ReplyOf(q), ValueOf(q))
        /\ Calls[q].kind = requests[q].kind /\ Calls[q].reply = ReplyOf(q)
    BY CallsAt, CallIs, EntryFields
  <2>5. CallOf(q)' = Entry(requests'[q].kind, EffectOf(q)', ReplyOf(q)', ValueOf(q)')
    BY DEF CallOf, Entry, EffectOf, ReplyOf, ValueOf
  <2>6. EffectOf(q)' = EffectOf(q)
    BY <1>1, <1>2, <2>1 DEF EffectOf
  <2>7. CASE requests'[q].stage = "done" /\ requests'[q].reply = "lost"
             /\ requests[q].reply = "none" /\ requests[q].kind # "none"
    <3>1. ReplyOf(q) = "none" /\ ReplyOf(q)' = "refused" /\ ValueOf(q)' = ValueOf(q)
      BY <2>7 DEF ReplyOf, ValueOf
    <3>2. CallOf(q)' = WithReply(Calls[q], "refused")
      BY <1>2, <2>4, <2>5, <2>6, <3>1, EntryChanges
    <3>3. QED
      BY <2>1, <2>3, <2>4, <2>7, <3>1, <3>2
  <2>8. CASE /\ requests'[q] = requests[q]
             /\ requests[q].reply # "none" \/ requests[q].kind = "none"
    <3>1. /\ ReplyOf(q)' = ReplyOf(q) /\ ValueOf(q)' = ValueOf(q)
          /\ ReplyOf(q) # "none" \/ requests[q].kind = "none"
      BY <2>8 DEF ReplyOf, ValueOf
    <3>2. CallOf(q)' = Calls[q]
      BY <1>1, <2>8, CallStays, CallsAt
    <3>3. QED
      BY <2>1, <2>3, <2>4, <3>1, <3>2
  <2>9. QED
    BY <1>2, <2>7, <2>8
<1>4. PoolIsPlanned'
  <2>1. ASSUME NEW i \in DOMAIN mempool' PROVE Planned(mempool[i])'
    <3>1. PICK tx : tx = mempool[i]
      OBVIOUS
    <3>2. PICK p \in Request : p = tx.request
      BY <1>1, <3>1 DEF ServiceInvariant, GatewayInvariant, PoolIsInOrder
    <3>3. Planned(tx)
      BY <1>1, <3>1 DEF ServiceInvariant, PoolIsPlanned
    <3>4. Planned(tx)'
      BY <1>2, <1>3, <3>2, <3>3 DEF Planned
    <3>5. QED
      BY <1>1, <3>1, <3>4 DEF Planned
  <2>2. QED
    BY <2>1 DEF PoolIsPlanned
<1>5. CounterOf(store)' = CounterOf(store) /\ CounterStore(store)'
  BY <1>1 DEF ServiceInvariant
<1>6. Promise!RefuseAll
  <2>1. Calls' = [q \in Request |-> IF Calls[q].kind # "none" /\ Calls[q].reply = "none"
                                    THEN WithReply(Calls[q], "refused") ELSE Calls[q]]
    BY <1>3 DEF Calls
  <2>2. QED
    BY <1>5, <2>1 DEF Promise!RefuseAll, Calls, WithReply
<1>7. QED
  BY <1>3, <1>4, <1>5, <1>6 DEF ServiceInvariant, Served

LEMMA ServiceInvariantStep ==
  ServiceInvariant /\ [GatewayNext]_systemVars => ServiceInvariant' /\ Served
<1> SUFFICES ASSUME ServiceInvariant, [GatewayNext]_systemVars
             PROVE  ServiceInvariant' /\ Served
  OBVIOUS
<1>1. GatewayInvariant'
  BY GatewayInvariantStep DEF ServiceInvariant
<1>2. CASE UNCHANGED <<store, requests, mempool, receipts>>
  <2>1. \A q \in Request : CallOf(q)' = CallOf(q)
    BY <1>2, CallStays
  <2>2. UNCHANGED CounterOf(store) /\ CounterStore(store)'
    BY <1>2 DEF ServiceInvariant
  <2>3. \A q \in Request : Serves(q)'
    BY <1>2 DEF ServiceInvariant, Serves, Knows, Proceeds, Receives, Answerable, PlanOf
  <2>4. PoolIsPlanned'
    BY <1>2 DEF ServiceInvariant, PoolIsPlanned, Planned, TransactionOf, PlanOf
  <2>5. QED
    BY <1>1, <2>1, <2>2, <2>3, <2>4, ServesNothing DEF ServiceInvariant
<1>3. ASSUME NEW q \in Request, Handle(q) PROVE ServiceInvariant' /\ Served
  <2>0. Outside => Alone /\ Hands(q)
    BY DEF Outside, Alone, Hands
  <2>1. CASE Authenticate(q)
    <3>1. requests[q].stage = "arrived" /\ Outside
      BY <2>1 DEF Authenticate
    <3>2. \/ Advance(q, "authorized") \/ Advance(q, "granted") \/ End(q, "unauthorized")
      <4>1. requests[q].actor.mode \in {"anonymous", "session", "secret"}
        BY DEF ServiceInvariant, GatewayInvariant, Shape, Actor, Anonymous, Secret, User
      <4>2. QED
        BY <2>1, <4>1 DEF Authenticate
    <3>3. QED
      BY <1>1, <2>0, <3>1, <3>2, AdvanceServes, EndServes DEF Early, Pending
  <2>2. CASE ConfirmGrant(q)
    BY <1>1, <2>0, <2>2, AdvanceServes, EndServes DEF ConfirmGrant, Early, Pending
  <2>3. CASE Lock(q)
    BY <1>1, <2>0, <2>3, AdvanceServes DEF Lock, Early, Pending
  <2>4. CASE Snapshot(q)
    BY <1>1, <2>4, SnapshotServes
  <2>5. CASE AnswerUnchanged(q)
    BY <1>1, <2>0, <2>5, FinishServes DEF AnswerUnchanged, Answerable
  <2>6. CASE Send(q)
    BY <1>1, <2>6, SendServes
  <2>7. CASE GetReceipt(q)
    BY <1>1, <2>0, <2>7, FinishServes, EndServes DEF GetReceipt, Answerable
  <2>8. CASE Reread(q)
    <3>1. requests[q].stage = "rereading" /\ End(q, "ok") /\ Outside
      BY <2>8 DEF Reread
    <3>2. requests[q].seen # None /\ Answerable(q)
      BY <3>1 DEF ServiceInvariant, Serves, Proceeds
    <3>3. QED
      BY <1>1, <2>0, <3>1, <3>2, EndServes
  <2>9. QED
    BY <1>3, <2>1, <2>2, <2>3, <2>4, <2>5, <2>6, <2>7, <2>8 DEF Handle
<1>4. ASSUME NEW q \in Request, CallFails(q) \/ Disconnect(q) PROVE ServiceInvariant' /\ Served
  <2>1. PICK reply \in {"conflict", "internal", "lost"} :
           End(q, reply) /\ Outside /\ requests[q].stage \in Pending
    BY <1>4 DEF CallFails, Disconnect
  <2>2. Alone /\ Hands(q) /\ requests[q].stage \notin {"unused", "done"}
    BY <2>1 DEF Outside, Alone, Hands, Pending
  <2>3. QED
    BY <1>1, <2>1, <2>2, EndServes
<1>5. QED
  BY <1>1, <1>2, <1>3, <1>4, ArriveServes, MineServes, CrashServes
     DEF GatewayNext, systemVars, schemaVars, stateVars, gatewayProcessVars

----------------------------------------------------------------------------
(* The gateway keeps the promise of Service, for any number of requests    *)
(* and users and whatever they do, across crashes, lost acknowledgements   *)
(* and withdrawn grants: an answered call took effect once, at one instant *)
(* between the call and its answer, and the answer, which the handler      *)
(* computed before the commit, is that of the instant (table, rpc and sql  *)
(* with commit; Chain::commit; expectedRevision in _apply).                *)
THEOREM GatewayImplementsService == GatewaySpec => ImplementsService
<1>1. ServiceInvariant /\ [GatewayNext]_systemVars
         => [Promise!ServiceNext \/ Promise!RefuseAll]_<<CounterOf(store),
                                                         [q \in Request |-> CallOf(q)]>>
  BY ServiceInvariantStep DEF Served, Calls
<1>2. QED
  BY ServiceInvariantInit, ServiceInvariantStep, <1>1, PTL
     DEF GatewaySpec, ImplementsService, Promise!ServiceSpec
=============================================================================

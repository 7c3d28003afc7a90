----------------------------- MODULE Authority -----------------------------
(***************************************************************************)
(* Who may act on a KurabaseSchema instance: its owner and developers, the *)
(* gateways and identity authorities they delegate to, and the signed      *)
(* sessions users hand to a gateway.  Every call is one transaction of the *)
(* chain, so every call is one action; a revert is a disabled action.      *)
(*                                                                         *)
(* Delegation is the delicate part.  A grant is not deleted when the       *)
(* administrator who issued it goes away: it carries the administrator's   *)
(* epoch at the time of issue and counts only while that is still the      *)
(* administrator's epoch (isGatewayAuthorized,                             *)
(* isIdentityAuthorityAuthorized).                                         *)
(*                                                                         *)
(* A session digest is its content (hashSession is taken to be injective)  *)
(* and a signature is the account that made it.                            *)
(***************************************************************************)
EXTENDS Integers

CONSTANTS
    Account,        \* addresses that can send transactions
    ZeroAddress,    \* address(0)
    Session,        \* the sessions that users may present, of SessionType
    InitialOwner, InitialIdentityAuthority, \* the constructor's arguments
    DeveloperArgs, GatewayArgs, AuthorityArgs, \* arguments calls are made with
    MaxEpoch,       \* bound on the epochs of administrators
    MaxGatewayEpoch, \* bound on the epochs of gateways
    MaxNonce,       \* bound on the arguments of revokeUserSessions
    MaxTime         \* bound on block.timestamp

Address == Account \cup {ZeroAddress}

(* uid and claimsHash matter to the contract in three cases: "wallet" is   *)
(* uid = the padded user address with no claims, "zero" is uid = 0, and    *)
(* "attested" is everything else.                                          *)
Identity == {"wallet", "attested", "zero"}

SessionType ==
    [gateway: Address, user: Address, identity: Identity,
     expiresAt: Nat, nonce: Nat, gatewayEpoch: Nat]

ASSUME AuthorityAssumption ==
    /\ ZeroAddress \notin Account
    /\ Session \subseteq SessionType
    /\ InitialOwner \in Account
    /\ InitialIdentityAuthority \in Address
    /\ DeveloperArgs \subseteq Address
    /\ GatewayArgs \subseteq Address
    /\ AuthorityArgs \subseteq Address
    /\ MaxEpoch \in Nat /\ MaxGatewayEpoch \in Nat /\ MaxNonce \in Nat /\ MaxTime \in Nat

VARIABLES
    owner,
    developers,             \* the accounts with developers[a] = true
    administratorEpoch,
    gateways,               \* the GatewayGrant of every address
    gatewayDelegation,      \* gatewayDelegator and gatewayDelegatorEpoch
    identityAuthorities,    \* the accounts with identityAuthorities[a] = true
    authorityDelegation,    \* identityAuthorityDelegator and its epoch
    minimumSessionNonce,
    revokedSessions,
    now                     \* block.timestamp

roleVars == <<owner, developers, administratorEpoch>>
gatewayVars == <<gateways, gatewayDelegation>>
identityVars == <<identityAuthorities, authorityDelegation>>
revocationVars == <<minimumSessionNonce, revokedSessions>>
authorityVars == <<roleVars, gatewayVars, identityVars, revocationVars, now>>

GatewayGrant == [enabled: BOOLEAN, privileged: BOOLEAN, epoch: Nat]
Delegation == [by: Address, epoch: Nat]

AuthorityTypeOK ==
    /\ owner \in Account
    /\ developers \subseteq Account
    /\ administratorEpoch \in [Address -> Nat]
    /\ gateways \in [Address -> GatewayGrant]
    /\ gatewayDelegation \in [Address -> Delegation]
    /\ identityAuthorities \subseteq Account
    /\ authorityDelegation \in [Address -> Delegation]
    /\ minimumSessionNonce \in [Address -> Nat]
    /\ revokedSessions \subseteq Session
    /\ now \in Nat

----------------------------------------------------------------------------
(* View functions.                                                         *)

IsAdministrator(a) == a = owner \/ a \in developers

(* A delegation counts while its issuer is an administrator whose epoch    *)
(* has not moved since.                                                    *)
InForceAcrossEpochs(delegation) == IsAdministrator(delegation.by)    \* fault: no epoch

InForce(delegation) ==
    /\ IsAdministrator(delegation.by)
    /\ delegation.epoch = administratorEpoch[delegation.by]

IsGatewayAuthorized(g) == gateways[g].enabled /\ InForce(gatewayDelegation[g])

IsIdentityAuthorityAuthorized(a) ==
    a \in identityAuthorities /\ InForce(authorityDelegation[a])

Revoked(session) ==
    session \in revokedSessions \/ session.nonce < minimumSessionNonce[session.user]

SignedFor(session, signer) ==
    \/ IsIdentityAuthorityAuthorized(signer)
    \/ signer = session.user /\ session.identity = "wallet"

(* _validateSession returns instead of reverting.                          *)
SessionValidAcrossGrants(session, signer) ==        \* fault: the grant's epoch is not compared
    /\ IsGatewayAuthorized(session.gateway)
    /\ session.user # ZeroAddress
    /\ session.identity # "zero"
    /\ now < session.expiresAt
    /\ ~ Revoked(session)
    /\ SignedFor(session, signer)

SessionValid(session, signer) ==
    /\ IsGatewayAuthorized(session.gateway)
    /\ session.user # ZeroAddress
    /\ session.gatewayEpoch = gateways[session.gateway].epoch
    /\ session.identity # "zero"
    /\ now < session.expiresAt
    /\ ~ Revoked(session)
    /\ SignedFor(session, signer)

MayExecutePrivileged(sender) ==
    \/ IsAdministrator(sender)
    \/ IsGatewayAuthorized(sender) /\ gateways[sender].privileged

----------------------------------------------------------------------------
(* The constructor: an initial identity authority is delegated by the      *)
(* initial owner; address(0) stands for none.                              *)
AuthorityInit ==
    /\ owner = InitialOwner
    /\ developers = {}
    /\ administratorEpoch = [a \in Address |-> 0]
    /\ gateways = [a \in Address |-> [enabled |-> FALSE, privileged |-> FALSE, epoch |-> 0]]
    /\ gatewayDelegation = [a \in Address |-> [by |-> ZeroAddress, epoch |-> 0]]
    /\ identityAuthorities = {InitialIdentityAuthority} \ {ZeroAddress}
    /\ authorityDelegation =
          [a \in Address |->
              [by |-> IF a \in identityAuthorities THEN owner ELSE ZeroAddress, epoch |-> 0]]
    /\ minimumSessionNonce = [a \in Address |-> 0]
    /\ revokedSessions = {}
    /\ now = 0

(* Raising an administrator's epoch ends everything it has delegated.      *)
EndDelegationsOf(a) ==
    /\ administratorEpoch[a] < MaxEpoch
    /\ administratorEpoch' = [administratorEpoch EXCEPT ![a] = @ + 1]

(* Faults seeded to test the properties are defined next to the operation  *)
(* they distort.  Two of transferOwnership: the old owner keeps his epoch; *)
(* address(0) is accepted.                                                 *)
TransferOwnershipKeepsEpoch(sender, nextOwner) ==
    /\ sender = owner
    /\ nextOwner # ZeroAddress
    /\ owner' = nextOwner
    /\ UNCHANGED <<gatewayVars, identityVars, revocationVars, developers, administratorEpoch, now>>

TransferOwnership(sender, nextOwner) ==
    /\ sender = owner
    /\ nextOwner # ZeroAddress
    /\ EndDelegationsOf(owner)
    /\ owner' = nextOwner
    /\ UNCHANGED <<gatewayVars, identityVars, revocationVars, developers, now>>

SetDeveloperOnAppointment(sender, developer, enabled) ==    \* fault: no epoch on removal
    /\ sender = owner
    /\ developer # ZeroAddress
    /\ developers' = IF enabled THEN developers \cup {developer} ELSE developers \ {developer}
    /\ IF enabled THEN EndDelegationsOf(developer) ELSE UNCHANGED administratorEpoch
    /\ UNCHANGED <<gatewayVars, identityVars, revocationVars, owner, now>>

SetDeveloper(sender, developer, enabled) ==
    /\ sender = owner
    /\ developer # ZeroAddress
    /\ developers' = IF enabled THEN developers \cup {developer} ELSE developers \ {developer}
    /\ EndDelegationsOf(developer)
    /\ UNCHANGED <<gatewayVars, identityVars, revocationVars, owner, now>>

SetGatewayOf(sender, gateway, enabled, privileged, step) ==
    /\ gateways' = [gateways EXCEPT ![gateway] =
                       [enabled |-> enabled, privileged |-> enabled /\ privileged,
                        epoch |-> @.epoch + step]]
    /\ gatewayDelegation' = [gatewayDelegation EXCEPT ![gateway] =
                                [by |-> sender, epoch |-> administratorEpoch[sender]]]
    /\ UNCHANGED <<roleVars, identityVars, revocationVars, now>>

SetGatewayWhenEnabled(sender, gateway, enabled, privileged) ==  \* fault: epoch moves only
    /\ IsAdministrator(sender)                                  \* when it is switched off
    /\ gateway # ZeroAddress
    /\ ~ (enabled /\ gateway \in identityAuthorities)
    /\ gateways[gateway].epoch < MaxGatewayEpoch
    /\ SetGatewayOf(sender, gateway, enabled, privileged, IF enabled THEN 0 ELSE 1)

SetGatewayUnseparated(sender, gateway, enabled, privileged) ==  \* fault: authorities accepted
    /\ IsAdministrator(sender)
    /\ gateway # ZeroAddress
    /\ gateways[gateway].epoch < MaxGatewayEpoch
    /\ SetGatewayOf(sender, gateway, enabled, privileged, 1)

SetGateway(sender, gateway, enabled, privileged) ==
    /\ IsAdministrator(sender)
    /\ gateway # ZeroAddress
    /\ ~ (enabled /\ gateway \in identityAuthorities)
    /\ gateways[gateway].epoch < MaxGatewayEpoch
    /\ SetGatewayOf(sender, gateway, enabled, privileged, 1)

SetIdentityAuthority(sender, authority, enabled) ==
    /\ IsAdministrator(sender)
    /\ authority # ZeroAddress
    /\ ~ (enabled /\ gateways[authority].enabled)
    /\ identityAuthorities' = IF enabled THEN identityAuthorities \cup {authority}
                                         ELSE identityAuthorities \ {authority}
    /\ authorityDelegation' = [authorityDelegation EXCEPT ![authority] =
                                  [by |-> sender, epoch |-> administratorEpoch[sender]]]
    /\ UNCHANGED <<roleVars, gatewayVars, revocationVars, now>>

RevokeSession(sender, session) ==
    /\ \/ sender \in {session.user, session.gateway}
       \/ IsAdministrator(sender)
       \/ IsIdentityAuthorityAuthorized(sender)
    /\ revokedSessions' = revokedSessions \cup {session}
    /\ UNCHANGED <<roleVars, gatewayVars, identityVars, minimumSessionNonce, now>>

RevokeUserSessions(sender, user, minimumNonce) ==
    /\ \/ sender = user
       \/ IsAdministrator(sender)
       \/ IsIdentityAuthorityAuthorized(sender)
    /\ minimumNonce > minimumSessionNonce[user]
    /\ minimumSessionNonce' = [minimumSessionNonce EXCEPT ![user] = minimumNonce]
    /\ UNCHANGED <<roleVars, gatewayVars, identityVars, revokedSessions, now>>

(* The next block carries a later timestamp.                               *)
Tick ==
    /\ now < MaxTime
    /\ now' = now + 1
    /\ UNCHANGED <<roleVars, gatewayVars, identityVars, revocationVars>>

AuthorityNext ==
    \/ \E sender \in Account :
        \/ \E a \in DeveloperArgs : TransferOwnership(sender, a)
        \/ \E a \in DeveloperArgs, enabled \in BOOLEAN : SetDeveloper(sender, a, enabled)
        \/ \E g \in GatewayArgs, enabled, privileged \in BOOLEAN :
              SetGateway(sender, g, enabled, privileged)
        \/ \E a \in AuthorityArgs, enabled \in BOOLEAN :
              SetIdentityAuthority(sender, a, enabled)
        \/ \E s \in Session : RevokeSession(sender, s)
        \/ \E u \in {s.user : s \in Session}, n \in 1..MaxNonce :
              RevokeUserSessions(sender, u, n)
    \/ Tick

AuthoritySpec == AuthorityInit /\ [][AuthorityNext]_authorityVars

----------------------------------------------------------------------------
(* The invariant that makes delegation safe (transferOwnership,            *)
(* setDeveloper, setGateway and setIdentityAuthority together): no grant   *)
(* is ahead of its issuer's epoch, and one whose issuer is no              *)
(* administrator is strictly behind it, so that making the issuer an       *)
(* administrator again, in whichever of the two roles, cannot bring it     *)
(* back.  Grants nobody ever issued name address(0).                       *)
NotAhead(delegation) ==
    \/ delegation.by = ZeroAddress
    \/ /\ delegation.epoch =< administratorEpoch[delegation.by]
       /\ ~ IsAdministrator(delegation.by)
             => delegation.epoch < administratorEpoch[delegation.by]

LapsedGrantsAreBehind ==
    \A a \in Address : NotAhead(gatewayDelegation[a]) /\ NotAhead(authorityDelegation[a])

(* No address is both an enabled gateway and an enabled identity           *)
(* authority, whichever of the two was granted first and however often     *)
(* either was withdrawn: the executor cannot attest its own users          *)
(* (the guards of setGateway and setIdentityAuthority).                    *)
DutiesAreSeparate ==
    \A a \in Address : ~ (gateways[a].enabled /\ a \in identityAuthorities)

(* A gateway that has lost its authorization regains it only by a new      *)
(* setGateway, which moves its epoch; no sequence of ownership transfers   *)
(* and developer reappointments does (isGatewayAuthorized).                *)
GatewayNeverRevives ==
    [][\A g \in Address :
          ~ IsGatewayAuthorized(g) /\ IsGatewayAuthorized(g)'
             => gateways'[g].epoch > gateways[g].epoch]_authorityVars

(* An identity authority that has lost its power regains it only by a      *)
(* setIdentityAuthority that names it: it was switched on, or its          *)
(* delegation was replaced (isIdentityAuthorityAuthorized).                *)
AuthorityNeverRevives ==
    [][\A a \in Address :
          ~ IsIdentityAuthorityAuthorized(a) /\ IsIdentityAuthorityAuthorized(a)'
             => \/ a \notin identityAuthorities
                \/ authorityDelegation'[a] # authorityDelegation[a]]_authorityVars

(* A session the user signed himself becomes acceptable only when its      *)
(* gateway is granted anew: whatever made _validateSession reject it once  *)
(* (expiry, revocation, nonce floor, a lapsed or replaced grant) holds     *)
(* under that grant for good.                                              *)
SessionNeverRevives ==
    [][\A s \in Session :
          /\ s.identity = "wallet"
          /\ ~ SessionValid(s, s.user)
          /\ SessionValid(s, s.user)'
          => gateways'[s.gateway].epoch > gateways[s.gateway].epoch]_authorityVars
=============================================================================

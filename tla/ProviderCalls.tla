--------------------------- MODULE ProviderCalls ---------------------------
(***************************************************************************)
(* The calls a provider makes on its own record: registration, stake,       *)
(* settings and the two-step exit (impls/providers.rs and the provider      *)
(* section of lib.rs).  A call whose guard is false returns an error and    *)
(* changes nothing; update_provider_multiaddr changes only a network        *)
(* address, which no record here has.                                       *)
(***************************************************************************)
EXTENDS PalletState

ensure_provider_active(provider) == provider.deregister_at = None

validate_settings(settings, committed_bytes, stake) ==
    /\ settings.min_duration <= settings.max_duration
    /\ settings.max_capacity > 0 =>
          /\ settings.max_capacity >= committed_bytes
          /\ settings.min_agreement_bytes <= settings.max_capacity
          /\ stake >= MinStakePerByte * settings.max_capacity

NewProvider(stake, settings) ==
    [stake |-> stake, committed_bytes |-> 0, settings |-> settings,
     deregister_at |-> None]

register_provider(who, stake) ==
    /\ Providers[who] = None
    /\ stake >= MinProviderStake
    /\ validate_settings(DefaultSettings, 0, stake)
    /\ CanHold(funds, who, stake + StorageDeposit)
    /\ funds' = Hold(Hold(funds, "ProviderStake", who, stake),
                     "StorageDeposit", who, StorageDeposit)
    /\ Providers' = [Providers EXCEPT ![who] = NewProvider(stake, DefaultSettings)]
    /\ UNCHANGED <<now, StorageAgreements, Buckets, challengeVars, indexVars>>

add_stake(who, amount) ==
    /\ Providers[who] # None
    /\ CanHold(funds, who, amount)
    /\ funds' = Hold(funds, "ProviderStake", who, amount)
    /\ Providers' = [Providers EXCEPT ![who].stake = @ + amount]
    /\ UNCHANGED <<now, StorageAgreements, Buckets, challengeVars, indexVars>>

\* The two acceptance flags follow the announcement.
Accepting(settings, flag) ==
    [settings EXCEPT !.accepting_primary = flag, !.accepting_extensions = flag]

WithExit(provider, deregister_at) ==
    [provider EXCEPT !.settings = Accepting(@, deregister_at = None),
                     !.deregister_at = deregister_at]

\* Announce the exit and stop accepting agreements and extensions.  The
\* bound keeps the announced block inside the modelled time.
deregister_provider(who) ==
    /\ Providers[who] # None
    /\ Providers[who].committed_bytes = 0
    /\ ensure_provider_active(Providers[who])
    /\ now + DeregisterAnnouncementPeriod <= MaxBlock
    /\ Providers' = [Providers EXCEPT ![who] =
                        WithExit(@, now + DeregisterAnnouncementPeriod)]
    /\ UNCHANGED <<now, StorageAgreements, Buckets, challengeVars, indexVars, funds>>

complete_deregister(who) ==
    /\ Providers[who] # None
    /\ Providers[who].deregister_at # None
    /\ now >= Providers[who].deregister_at
    /\ Providers[who].committed_bytes = 0
    /\ PendingChallenges[who] = 0
    /\ CanRelease(funds, "ProviderStake", who, Providers[who].stake)
    /\ funds' = Release(DropDeposit(funds, who), "ProviderStake", who,
                        Providers[who].stake)
    /\ Providers' = [Providers EXCEPT ![who] = None]
    /\ UNCHANGED <<now, StorageAgreements, Buckets, challengeVars, indexVars>>

cancel_deregister(who) ==
    /\ Providers[who] # None
    /\ Providers[who].deregister_at # None
    /\ Providers' = [Providers EXCEPT ![who] = WithExit(@, None)]
    /\ UNCHANGED <<now, StorageAgreements, Buckets, challengeVars, indexVars, funds>>

update_provider_settings(who, settings) ==
    /\ Providers[who] # None
    /\ ensure_provider_active(Providers[who])
    /\ validate_settings(settings, Providers[who].committed_bytes,
                         Providers[who].stake)
    /\ Providers' = [Providers EXCEPT ![who].settings = settings]
    /\ UNCHANGED <<now, StorageAgreements, Buckets, challengeVars, indexVars, funds>>

set_extensions_blocked(who, b, blocked) ==
    /\ Providers[who] # None
    /\ StorageAgreements[b][who] # None
    /\ now < StorageAgreements[b][who].expires_at
    /\ StorageAgreements' =
          [StorageAgreements EXCEPT ![b][who].extensions_blocked = blocked]
    /\ UNCHANGED <<now, Providers, Buckets, challengeVars, indexVars, funds>>

=============================================================================

----------------------------- MODULE MCAccounts -----------------------------
(***************************************************************************)
(* Deployments for AuthGateway: what each is configured with and which of    *)
(* the requests it receives.  Every behaviour belongs to one of them.        *)
(***************************************************************************)
EXTENDS AuthGateway, TLC

Deployed == [processes |-> {"p1"}, provisioned |-> {"t"}, owners |-> <<>>,
             hosts |-> {}, bodies |-> {"t"}, selfProvision |-> FALSE, idpTenant |-> "t",
             kinds |-> {}, emails |-> {"e1"}, calls |-> {}, roles |-> {},
             targets |-> Ids]

Owner(e) == [tenant |-> "t", email |-> e]

\* Requests are alike, and so are attempts.
Symmetry == Permutations(Workers) \union Permutations(Attempts)

MCDeployments ==
    { \* Suspensions seen by two processes.
      [Deployed EXCEPT !.processes = {"p1", "p2"}, !.owners = <<Owner("e1")>>,
                       !.kinds = {"operator", "login"}],
      \* Registrations that may provision their tenant, and the operator's own.
      [Deployed EXCEPT !.provisioned = {}, !.selfProvision = TRUE,
                       !.kinds = {"operator", "register"}],
      \* A tenant in the host and another in the body.
      [Deployed EXCEPT !.hosts = {"t"}, !.bodies = {"u"}, !.kinds = {"operator", "login"}],
      \* Registrations of one address in two tenants.
      [Deployed EXCEPT !.provisioned = {"t", "u"}, !.bodies = {"t", "u"}, !.kinds = {"register"}],
      \* Registrations of two addresses in one.
      [Deployed EXCEPT !.emails = {"e1", "e2"}, !.kinds = {"register"}],
      \* The callbacks of an OIDC provider on two hosts.
      [Deployed EXCEPT !.provisioned = {"t", "u"}, !.hosts = {"t", "u"}, !.bodies = {},
                       !.kinds = {"oauth"}],
      \* The responses of a SAML provider, beside registrations.
      [Deployed EXCEPT !.kinds = {"saml", "register"}],
      \* What ends sessions.
      [Deployed EXCEPT !.owners = <<Owner("e1")>>, !.kinds = {"login"},
                       !.calls = OnAccounts \union OnSelf],
      \* Two owners, one of whom is locked and unlocked by the other.
      [Deployed EXCEPT !.owners = <<Owner("e1"), Owner("e2")>>, !.kinds = {"login"},
                       !.emails = {"e1", "e2"}, !.calls = OnAccounts, !.targets = {2}],
      \* Roles, given to a service account that then acts.
      [Deployed EXCEPT !.owners = <<Owner("e1")>>, !.kinds = {"login"},
                       !.calls = OnRoles \union OnMachines, !.roles = {"owner", "admin"},
                       !.targets = MachineIds] }

=============================================================================

------------------------------ MODULE Providers ------------------------------
(***************************************************************************)
(* The names by which the parts of the system know a CI service: the       *)
(* client's token sources, the provider types of the protocol, the admin   *)
(* command's flag, the issuers of tokens and the claims the server reads.  *)
(* Each part has a table of its own.                                       *)
(***************************************************************************)

GitHubActions == "github_actions"
Buildkite == "buildkite"
GitLab == "gitlab"
Unspecified == "unspecified"

DefaultProviderNames == {GitHubActions, GitLab, Buildkite}

\* DefaultOIDCProviders: the provider whose tokens an issuer signs.
Issuers == {"token.actions.githubusercontent.com", "gitlab.com", "agent.buildkite.com"}
OIDCProvider(issuer) ==
    CASE issuer = "token.actions.githubusercontent.com" -> GitHubActions
      [] issuer = "gitlab.com" -> GitLab
      [] issuer = "agent.buildkite.com" -> Buildkite

\* Sources of GetToken that ask an issuer for a token; "local" is a fixed string that
\* is not a token, and any other source is an error.
IssuingSources == {"github_actions", "buildkite"}
IssuerOf(source) ==
    CASE source = "github_actions" -> "token.actions.githubusercontent.com"
      [] source = "buildkite" -> "agent.buildkite.com"

\* The client's convertProviderTypeV1 followed by the server's fromProviderV1.
convertProviderTypeV1(source) ==
    IF source \in {"github_actions", "buildkite", "gitlab"} THEN source ELSE Unspecified

\* The admin command's flag, as the server's fromProviderV1 names it.
AdminProvider(flag) ==
    CASE flag = "github" -> GitHubActions
      [] flag = "gitlab" -> GitLab
      [] flag = "buildkite" -> Buildkite

\* oidcIdentity.parseClaims: providers whose claims are known.
ParsesClaims(provider) == provider \in {GitHubActions, Buildkite}

=============================================================================

----------------------------- MODULE Allowlist -----------------------------
(***************************************************************************)
(* The hosts the host may talk to (src/ops/egress-allowlist.ts), the       *)
(* artifact the firewall reads (infra/egress/render-allowlist.ts) and the  *)
(* names nftables.sh makes of it.  A name is the sequence of its labels,   *)
(* which are compared without regard to case.                              *)
(***************************************************************************)
EXTENDS Naturals, Sequences

Exact(host, category) == [host |-> host, subdomains |-> FALSE, category |-> category]
Under(host, category) == [host |-> host, subdomains |-> TRUE, category |-> category]

EgressAllowlist ==
  {Exact(<<"api", "anthropic", "com">>, "model"),
   Exact(<<"api", "voyageai", "com">>, "embeddings"),
   Exact(<<"api", "typesafe", "ai">>, "routing"),
   Exact(<<"oauth2", "googleapis", "com">>, "calendar"),
   Exact(<<"www", "googleapis", "com">>, "calendar"),
   Under(<<"cloud", "langfuse", "com">>, "tracing"),
   Exact(<<"api", "telegram", "org">>, "alerts"),
   Exact(<<"hc-ping", "com">>, "deadman"),
   Under(<<"healthchecks", "io">>, "deadman"),
   Under(<<"whatsapp", "net">>, "whatsapp"),
   Under(<<"whatsapp", "com">>, "whatsapp"),
   Under(<<"fbcdn", "net">>, "whatsapp"),
   Exact(<<"raw", "githubusercontent", "com">>, "wa-version"),
   Under(<<"s3", "us-east-1", "amazonaws", "com">>, "backup"),
   Under(<<"s3", "amazonaws", "com">>, "backup"),
   Under(<<"tailscale", "com">>, "tailscale"),
   Under(<<"tailscale", "io">>, "tailscale")}

\* It ends in the other name behind a dot: whole labels, at least one of them in front.
EndsUnder(name, base) ==
  Len(name) > Len(base) /\ SubSeq(name, Len(name) - Len(base) + 1, Len(name)) = base

IsHostAllowed(name, list) ==
  \E d \in list : name = d.host \/ (d.subdomains /\ EndsUnder(name, d.host))

\* renderArtifact: the hosts themselves, once each; what is under them is not written.
RenderArtifact(list) == {d.host : d \in list}

\* Names that are not hosts of the list and that nftables.sh resolves all the same.
Extra == {<<"g", "whatsapp", "net">>, <<"mmg", "whatsapp", "net">>, <<"web", "whatsapp", "com">>,
          <<"us", "cloud", "langfuse", "com">>}

ResolvedNames == RenderArtifact(EgressAllowlist) \cup Extra
=============================================================================

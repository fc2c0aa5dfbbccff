-------------------------- MODULE MCRdpConnection --------------------------
(* Configurations of RdpConnection.                                        *)
EXTENDS RdpConnection

\* What an administrator may enable, with and without Kerberos, the fallback
\* to TLS, the legacy encryption, the manager's validation and the authorities.
Usual == {
    {"nla", "tls_only", "rdp_legacy"},
    {"nla", "krb", "nla_ntlm_fallback", "tls_only", "external_validation"},
    {"nla", "krb", "external_validation"},
    {"nla", "restricted_admin_mode", "external_validation"},
    {"tls_only", "external_validation"},
    {"nla", "tls_only", "check_using_ca", "external_validation"},
    {"rdp_legacy"}, {"nla"}, {}}
============================================================================

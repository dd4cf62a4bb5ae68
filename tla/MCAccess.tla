------------------------------ MODULE MCAccess ------------------------------
(* An instance of RepositoryAccess for TLC: repositories on one host or on   *)
(* several, nested in one another or not, with credentials for a whole host  *)
(* or for a part of it, and registries that answer and redirect as they like.*)
EXTENDS RepositoryAccess

Url(scheme, host, path) ==
  [scheme |-> scheme, host |-> host, path |-> path, escaped |-> FALSE, user |-> FALSE]

RegistryHost == <<"registry">>
CdnHost == <<"cdn", "registry">>
OtherHost == <<"other">>
LocalHost == <<"localhost">>

Repositories ==
  {\* on one host, the repository of JSR around the others
   [npm |-> Url("https", RegistryHost, <<"npm">>), pypi |-> Url("https", RegistryHost, <<"pypi">>),
    pypiArtifact |-> Url("https", RegistryHost, <<"pypi", "files">>), jsr |-> Url("https", RegistryHost, <<>>)],
   \* files of PyPI on a host of their own, metadata of npm in plain text
   [npm |-> Url("http", LocalHost, <<"npm">>), pypi |-> Url("https", RegistryHost, <<"pypi">>),
    pypiArtifact |-> Url("https", CdnHost, <<>>), jsr |-> Url("https", OtherHost, <<>>)]}

Credential(url, token, available) == [scope |-> url, token |-> token, available |-> available]

CredentialLists ==
  {<<>>,
   <<Credential(Url("https", RegistryHost, <<>>), "host", TRUE),
     Credential(Url("https", RegistryHost, <<"npm">>), "npm", TRUE),
     Credential(Url("https", CdnHost, <<>>), "cdn", TRUE)>>,
   <<Credential(Url("https", RegistryHost, <<"pypi">>), "old", TRUE),
     Credential(Url("https", RegistryHost, <<"pypi">>), "new", TRUE),
     Credential(Url("https", RegistryHost, <<"npm">>), "npm", FALSE),
     Credential(Url("http", LocalHost, <<>>), "plain", TRUE)>>}

Narrow == {RegistryHost, << "*", "registry">>, LocalHost}

MCSetups ==
  {[hosts |-> p[1], allowInsecureHttp |-> p[2], offline |-> p[3], npm |-> r.npm, pypi |-> r.pypi,
    pypiArtifact |-> r.pypiArtifact, jsr |-> r.jsr, credentials |-> c] :
     p \in {<<{<< "*" >>}, TRUE, FALSE>>, <<Narrow, FALSE, FALSE>>, <<Narrow, TRUE, FALSE>>, <<Narrow, TRUE, TRUE>>},
     r \in Repositories, c \in CredentialLists}

Acquired(kind, segments, escaped, locked, source) ==
  [kind |-> kind, segments |-> segments, escaped |-> escaped, locked |-> locked, source |-> source]

MCLoopback == {LocalHost}

MCListedUrls ==
  {Url("https", RegistryHost, <<"npm", "a.tgz">>), Url("https", RegistryHost, <<"pypi", "files", "a.whl">>),
   Url("https", CdnHost, <<"a.whl">>), Url("https", OtherHost, <<"a.tgz">>), Url("http", LocalHost, <<"npm", "a.tgz">>),
   Url("http", LocalHost, <<"other">>)}

MCAcquisitions ==
  {Acquired(k, <<"a">>, FALSE, TRUE, None) : k \in {"npm", "python", "deno-npm"}}
    \cup {Acquired("jsr", <<"@s", "a">>, FALSE, TRUE, None), Acquired("npm", <<"@s/a">>, TRUE, TRUE, None),
          Acquired("url", <<>>, FALSE, FALSE, Url("https", RegistryHost, <<"npm", "a.tgz">>))}
    \cup {Acquired(k, <<"a">>, FALSE, l, u) :
            k \in {"npm", "python"}, l \in BOOLEAN,
            u \in {Url("https", RegistryHost, <<"pypi", "files", "a.whl">>), Url("http", LocalHost, <<"npm", "a.tgz">>)}}

\* What is asked for, what is listed, and other targets of redirects.
MCUrls ==
  MCListedUrls
    \cup {[base EXCEPT !.path = @ \o p] :
            base \in {Url("https", RegistryHost, <<"npm">>), Url("http", LocalHost, <<"npm">>),
                      Url("https", RegistryHost, <<"pypi">>)}, p \in {<<"a">>}}
    \cup {[base EXCEPT !.path = @ \o <<"@s/a">>, !.escaped = TRUE] :
            base \in {Url("https", RegistryHost, <<"npm">>), Url("http", LocalHost, <<"npm">>)}}
    \cup {[base EXCEPT !.path = @ \o p] :
            base \in {Url("https", RegistryHost, <<"@s", "a">>), Url("https", OtherHost, <<"@s", "a">>)},
            p \in {<<"1_meta.json">>, <<"1", "mod.ts">>}}
    \cup {Url("https", RegistryHost, <<"npm", "1_meta.json">>), Url("https", RegistryHost, <<"npm", "1", "mod.ts">>),
          Url("ftp", RegistryHost, <<>>), [Url("https", RegistryHost, <<"npm", "b">>) EXCEPT !.user = TRUE]}
=============================================================================

--------------------------- MODULE MCKubeProvider ---------------------------
\* An instance of KubeProvider for TLC.
EXTENDS KubeProvider, TLC

CONSTANTS m1, m2, i1, i2, i3, i4, secret, tls, service, v1, v2, c1, c2,
          apex, www, shop, name

\* "shop.example", "www.example" and "example".  The renewed certificate adds a
\* wildcard to its name.
Above == (apex :> NoCert) @@ (www :> apex) @@ (shop :> apex)
Ending == (apex :> {}) @@ (www :> {apex}) @@ (shop :> {apex})
Lengths == (apex :> 7) @@ (www :> 11) @@ (shop :> 12)
Bears == (c1 :> <<shop>>) @@ (c2 :> <<shop>>)
Wild == (c1 :> <<>>) @@ (c2 :> <<apex>>)
Holds == (tls :> {c1, c2})

\* One module and its secret, one ingress and its service or its TLS secret;
\* two modules that share a secret, two ingresses that share a TLS secret, and
\* two of one name in two namespaces.
Changes ==
    ({m1, secret} :> 3) @@ ({i1, service} :> 3) @@ ({i3, tls} :> 3)
    @@ ({m1, m2, secret} :> 1) @@ ({i3, i4, tls} :> 1) @@ ({i1, i2} :> 2)
Together == DOMAIN Changes
First == (secret :> v1) @@ (tls :> c1) @@ (service :> None)
New == <<FALSE, FALSE>>
Going == <<TRUE, TRUE>>
FirstSeen == {New, Going}

Names == [i \in Ingresses |-> IF i \in {i1, i2} THEN name ELSE i]

Uses(global) == [secret_ref |-> secret, global |-> global]
Routes(ours, rules, t, s) == [ours |-> ours, rules |-> rules, tls |-> t, service |-> s]
Possible ==
    (m1 :> {Uses(FALSE), Uses(TRUE)}) @@ (m2 :> {Uses(FALSE)})
    @@ (i1 :> {Routes(TRUE, TRUE, None, None), Routes(TRUE, TRUE, None, service),
               Routes(FALSE, TRUE, None, None)})
    @@ (i2 :> {Routes(TRUE, TRUE, None, None), Routes(TRUE, FALSE, None, None)})
    @@ [i \in {i3, i4} |-> {Routes(TRUE, TRUE, tls, None)}]
=============================================================================

------------------------------ MODULE MCPaths ------------------------------
(* Two names, one of which begins with two dots; two levels; links to anywhere in
   them. *)
EXTENDS Paths

CONSTANTS a, dots

MCNames  == {a, dots}
MCDotted == {dots}

Below == {<<m>> : m \in MCNames} \cup {<<m, n>> : m, n \in MCNames}

\* What is below a directory is there only if the directory is.
MCFileSystems ==
    {f \in [Below -> {Missing, Plain} \cup {<<a>>, <<dots>>, <<a, dots>>, <<dots, a>>}] :
        \A p \in Below : Len(p) = 2 /\ f[p] # Missing => f[<<p[1]>>] = Plain}

\* A path up to three names long, written from the root or from cwd.
MCRaws == [abs : BOOLEAN, names : UNION {[1..k -> MCNames \cup {Up}] : k \in 0..3}]

MCCwds == {<<a>>, <<a, a>>}
=============================================================================

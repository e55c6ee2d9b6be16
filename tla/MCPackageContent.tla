-------------------------- MODULE MCPackageContent --------------------------
(***************************************************************************)
(* The documents of the source packages that TLC tries: the package        *)
(* contexts of two nested packages, and a role binding.                    *)
(***************************************************************************)
EXTENDS PackageContent

MCDocs ==
    { Doc("PackageContext", "", "a"),
      Doc("PackageContext", "", "b"),
      Doc("RoleBinding", "src", "a") }
=============================================================================

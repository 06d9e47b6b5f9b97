-------------------------- MODULE MCCatalogRuntime --------------------------
(* Two files, so that a catalog can be read while it is being edited, and    *)
(* two refreshing threads, so that one can be overtaken by the other.        *)
EXTENDS CatalogRuntime
=============================================================================

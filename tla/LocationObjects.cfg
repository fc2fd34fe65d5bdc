CONSTANTS NarrowMod = 4
          NarrowSizeMod = 8
          WideMod = 8
          WideSizeMod = 8
SPECIFICATION Spec
INVARIANTS TypeOK OrderIsExtentOrder MixedWidthOrder ParamRoundTrip 
PROPERTY LoadIsAllOrNothing

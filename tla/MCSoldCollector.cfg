\* Two slices of four pages, two crashes anywhere, one --restart launch.
CONSTANTS
    NumSlices = 2
    MaxPages = 4
    DupLimit = 3
    Shapes <- AnyShapes
    MaxKills = 2
    MaxRestarts = 1
SPECIFICATION FairSpec
INVARIANTS
    
    CleanExitIsComplete

    
    

SPECIFICATION Spec
CONSTANTS
    a = a  dots = dots  Up = Up
    Missing = Missing  Plain = Plain  Fails = Fails  Rejected = Rejected  Pending = Pending
    Names <- MCNames
    Dotted <- MCDotted
    FileSystems <- MCFileSystems
    Raws <- MCRaws
    Cwds <- MCCwds
    MaxLinks = 4
CHECK_DEADLOCK FALSE
INVARIANTS
    AcceptedLeadsInside
    InsideIsAccepted
    NewFilesAreAccepted

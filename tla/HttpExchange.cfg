SPECIFICATION HttpFairSpec
CONSTANTS
    Shapes <- MCShapes
    Plans <- MCPlans
    MaxSize = 9
    MaxMultiPart = 8
    MaxAsked = 2

    
PROPERTIES
    
    RequestsAnswered
